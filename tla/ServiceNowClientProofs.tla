------------------------ MODULE ServiceNowClientProofs ------------------------
(* Theorems about ServiceNowClient, and about the rules for what it fetches. *)
(* For any callers, Environments, limits, retries and changes, the           *)
(* semaphores admit no more than they are meant to, every permit is          *)
(* returned, and a call costs what it may; and for any answers, inventories, *)
(* clones and dates, what a row says and what a comparison counts is exact,  *)
(* and so are the lines, weeks and timelines drawn of it later; and whatever *)
(* a window shows of what a daemon writes tells one story.                   *)
EXTENDS ServiceNowClient, DriftRules, DashboardRules, FiniteSetTheorems, WellFoundedInduction, TLAPS

CallType ==
  [pc : Steps, env : Environments, given : Blobs \cup {NoBlob}, blob : Blobs \cup {NoBlob},
   header : {"none", "basic", "token", "secret"}, refreshed : BOOLEAN,
   retries : 0 .. MaxRetries, sent : Nat, calm : BOOLEAN]

Preparing == {"authorize", "blob", "store", "memoize", "grant"}
Sending   == {"global", "host", "flight"}

\* Only OAuth asks for tokens, and what is sent carries what was asked for.
Routed(k) ==
  /\ k.pc \in {"authorize", "grant"} => AuthOf[k.env] = "oauth"
  /\ k.pc \in Sending => k.header # "none" /\ (k.header = "basic" <=> AuthOf[k.env] = "basic")

Attempts == 1 + MaxRetries

\* What a call may have sent before the refresh, and before its token came.
Spent(k) ==
  IF ~k.refreshed THEN 0 ELSE IF AuthOf[k.env] = "oauth" THEN 2 * Attempts ELSE Attempts
Granting(k) == IF k.header = "token" THEN Attempts ELSE 0

Cheap(k) ==
  /\ k.pc = "idle" => k.sent = 0
  /\ k.pc \in Preparing => k.sent <= Spent(k)
  /\ k.pc \in {"global", "host"} => k.sent <= Spent(k) + Granting(k) + k.retries
  /\ k.pc = "flight" => k.sent <= Spent(k) + Granting(k) + k.retries + 1

Sane(k) == k \in CallType /\ Routed(k) /\ Cheap(k)

Holding(c) == call[c].pc \in {"host", "flight"}
Holders   == {c \in Callers : Holding(c)}
Flying(h) == {c \in Callers : At(c, "flight") /\ HostOf[call[c].env] = h}

\* A permit is held by those who wait for the host or are in flight, no other.
Permits ==
  /\ used = Cardinality(Holders)
  /\ \A h \in Hosts : hostUsed[h] = Cardinality(Flying(h))

IInv == TypeOK /\ Permits /\ \A c \in Callers : Sane(call[c])

-----------------------------------------------------------------------------
(* A caller moves on to the call k.                                        *)

LEMMA Replaced ==
  ASSUME IInv, NEW c \in Callers, NEW k, Sane(k), call' = [call EXCEPT ![c] = k]
  PROVE  /\ \A d \in Callers : call'[d] = IF d = c THEN k ELSE call[d]
         /\ call' \in [Callers -> CallType]
         /\ \A d \in Callers : Sane(call'[d])
<1>1. call \in [Callers -> CallType]
  BY DEF IInv, TypeOK, CallType
<1>2. \A d \in Callers : call'[d] = IF d = c THEN k ELSE call[d]
  BY <1>1
<1>3. call' \in [Callers -> CallType]
  BY <1>1 DEF Sane
<1> QED BY <1>2, <1>3 DEF IInv

LEMMA SetsAreFinite ==
  ASSUME NEW S \in SUBSET Callers PROVE IsFiniteSet(S) /\ Cardinality(S) \in Nat
BY ClientAssumption, FS_Subset, FS_CardinalityType

\* Outside the transport a step moves no permit.
LEMMA PermitsStay ==
  ASSUME IInv, NEW c \in Callers, NEW k, Sane(k), call' = [call EXCEPT ![c] = k],
         UNCHANGED permits, ~Holding(c), k.pc \notin {"host", "flight"}
  PROVE  Permits'
<1>1. \A d \in Callers : call'[d] = IF d = c THEN k ELSE call[d]
  BY Replaced
<1>2. Holders' = Holders
  BY <1>1 DEF Holders, Holding
<1>3. \A h : Flying(h)' = Flying(h)
  BY <1>1 DEF Flying, Holding, At
<1> QED BY <1>2, <1>3 DEF IInv, Permits, permits

\* The permit of the process is taken.
LEMMA PermitTaken ==
  ASSUME IInv, NEW c \in Callers, NEW k, Sane(k), call' = [call EXCEPT ![c] = k],
         ~Holding(c), k.pc = "host", used' = used + 1, hostUsed' = hostUsed
  PROVE  Permits'
<1>1. \A d \in Callers : call'[d] = IF d = c THEN k ELSE call[d]
  BY Replaced
<1>2. Holders' = Holders \cup {c} /\ c \notin Holders
  BY <1>1 DEF Holders, Holding
<1>3. Cardinality(Holders') = Cardinality(Holders) + 1
  <2>1. IsFiniteSet(Holders)
    BY SetsAreFinite DEF Holders
  <2> QED BY <1>2, <2>1, FS_AddElement
<1>4. \A h : Flying(h)' = Flying(h)
  BY <1>1 DEF Flying, Holding, At
<1> QED BY <1>3, <1>4 DEF IInv, Permits

\* Then the one of the host.
LEMMA HostPermitTaken ==
  ASSUME IInv, NEW c \in Callers, NEW k, Sane(k), call' = [call EXCEPT ![c] = k],
         At(c, "host"), k.pc = "flight", k.env = call[c].env, used' = used,
         hostUsed' = [hostUsed EXCEPT ![HostOf[call[c].env]] = @ + 1]
  PROVE  Permits'
<1> PICK g : g = HostOf[call[c].env]
  OBVIOUS
<1>1. \A d \in Callers : call'[d] = IF d = c THEN k ELSE call[d]
  BY Replaced
<1>2. Holders' = Holders
  BY <1>1 DEF Holders, Holding, At
<1>3. \A h : h # g => Flying(h)' = Flying(h)
  BY <1>1 DEF Flying, At
<1>4. Flying(g)' = Flying(g) \cup {c} /\ c \notin Flying(g)
  BY <1>1 DEF Flying, At
<1>5. Cardinality(Flying(g)') = Cardinality(Flying(g)) + 1
  <2>1. IsFiniteSet(Flying(g))
    BY SetsAreFinite DEF Flying
  <2> QED BY <1>4, <2>1, FS_AddElement
<1>6. hostUsed \in [Hosts -> Nat] /\ g \in Hosts
  <2>1. call[c].env \in Environments
    BY DEF IInv, Sane, CallType
  <2>2. hostUsed \in [Hosts -> 0 .. HostLimit]
    BY DEF IInv, TypeOK
  <2> QED BY <2>1, <2>2, ClientAssumption DEF Hosts
<1>7. \A h \in Hosts : hostUsed'[h] = Cardinality(Flying(h)')
  BY <1>3, <1>5, <1>6 DEF IInv, Permits
<1> QED BY <1>2, <1>7 DEF IInv, Permits

\* Both are returned when the answer, or none, is there.
LEMMA PermitsReturned ==
  ASSUME IInv, NEW c \in Callers, NEW k, Sane(k), call' = [call EXCEPT ![c] = k],
         At(c, "flight"), k.pc \notin {"host", "flight"}, Release(c)
  PROVE  /\ Permits'
         /\ used' \in 0 .. GlobalLimit /\ hostUsed' \in [Hosts -> 0 .. HostLimit]
<1> PICK g : g = HostOf[call[c].env]
  OBVIOUS
<1>1. \A d \in Callers : call'[d] = IF d = c THEN k ELSE call[d]
  BY Replaced
<1>2. Holders' = Holders \ {c} /\ c \in Holders
  BY <1>1 DEF Holders, Holding, At
<1>3. \A h : h # g => Flying(h)' = Flying(h)
  BY <1>1 DEF Flying, At
<1>4. Flying(g)' = Flying(g) \ {c} /\ c \in Flying(g)
  BY <1>1 DEF Flying, At
<1>5. /\ Cardinality(Holders') = Cardinality(Holders) - 1
      /\ Cardinality(Holders') \in Nat
  <2>1. IsFiniteSet(Holders) /\ Cardinality(Holders') \in Nat
    BY <1>2, SetsAreFinite DEF Holders
  <2> QED BY <1>2, <2>1, FS_RemoveElement
<1>6. /\ Cardinality(Flying(g)') = Cardinality(Flying(g)) - 1
      /\ Cardinality(Flying(g)') \in Nat
  <2>1. IsFiniteSet(Flying(g)) /\ Cardinality(Flying(g)') \in Nat
    BY <1>4, SetsAreFinite DEF Flying
  <2> QED BY <1>4, <2>1, FS_RemoveElement
<1>7. hostUsed \in [Hosts -> 0 .. HostLimit] /\ used \in 0 .. GlobalLimit /\ g \in Hosts
  <2>1. call[c].env \in Environments
    BY DEF IInv, Sane, CallType
  <2>2. hostUsed \in [Hosts -> 0 .. HostLimit] /\ used \in 0 .. GlobalLimit
    BY DEF IInv, TypeOK
  <2> QED BY <2>1, <2>2 DEF Hosts
<1>8. /\ used' = used - 1
      /\ hostUsed' = [hostUsed EXCEPT ![g] = hostUsed[g] - 1]
  BY <1>7 DEF Release
<1>9. used' = Cardinality(Holders') /\ hostUsed'[g] = Cardinality(Flying(g)')
  BY <1>5, <1>6, <1>7, <1>8 DEF IInv, Permits
<1>10. \A h \in Hosts : hostUsed'[h] = Cardinality(Flying(h)')
  BY <1>3, <1>7, <1>8, <1>9 DEF IInv, Permits
<1>11. used' \in 0 .. GlobalLimit
  BY <1>5, <1>7, <1>8, <1>9, ClientAssumption
<1>12. hostUsed[g] - 1 \in 0 .. HostLimit
  BY <1>6, <1>7, <1>8, <1>9, ClientAssumption
<1> QED BY <1>7, <1>8, <1>9, <1>10, <1>11, <1>12 DEF Permits

-----------------------------------------------------------------------------
(* Every new call is sane.                                                  *)

LEMMA Costs ==
  ASSUME NEW k \in CallType
  PROVE  /\ Attempts \in Nat /\ Spent(k) \in Nat /\ Granting(k) \in {0, Attempts}
         /\ k.header = "token" => Granting(k) = Attempts
         /\ k.header # "token" => Granting(k) = 0
<1>1. Attempts \in Nat /\ 2 * Attempts \in Nat
  BY ClientAssumption DEF Attempts
<1> HIDE DEF Attempts
<1> QED BY <1>1 DEF Spent, Granting

LEMMA BeginIsSane ==
  ASSUME NEW p \in {"idle", "authorize", "blob"}, NEW e \in Environments,
         NEW b \in Blobs \cup {NoBlob}, NEW q \in BOOLEAN, p = "authorize" => AuthOf[e] = "oauth"
  PROVE  Sane(Begin(p, e, b, q)) /\ Begin(p, e, b, q).pc = p
<1> PICK k : k = Begin(p, e, b, q)
  OBVIOUS
<1>1. k \in CallType /\ k.pc = p /\ k.env = e /\ k.sent = 0 /\ ~k.refreshed
  BY ClientAssumption DEF Begin, CallType, Steps
<1>2. Routed(k)
  BY <1>1 DEF Routed, Sending
<1>3. Cheap(k)
  BY <1>1 DEF Cheap, Spent, Preparing
<1> QED BY <1>1, <1>2, <1>3 DEF Sane

LEMMA IdleIsSane == Sane(Idle) /\ Idle.pc = "idle"
<1>1. (CHOOSE e \in Environments : TRUE) \in Environments
  BY ClientAssumption
<1> QED BY <1>1, BeginIsSane DEF Idle

LEMMA EntryIsSane ==
  ASSUME NEW e \in Environments, NEW b \in Given \cup {NoBlob}, NEW q \in BOOLEAN
  PROVE  Sane(Begin(Entry(e), e, b, q)) /\ Begin(Entry(e), e, b, q).pc \in Preparing
<1>1. Entry(e) \in {"authorize", "blob"} /\ (Entry(e) = "authorize" => AuthOf[e] = "oauth")
  BY DEF Entry
<1> QED BY <1>1, BeginIsSane, ClientAssumption DEF Preparing

\* Between two requests nothing is sent.
LEMMA PreparingIsSane ==
  ASSUME NEW k, Sane(k), k.pc \in Preparing, NEW b \in Blobs \cup {NoBlob},
         NEW p \in {"blob", "store", "memoize", "grant"}, p = "grant" => AuthOf[k.env] = "oauth"
  PROVE  Sane([k EXCEPT !.blob = b, !.pc = p])
<1> PICK n : n = [k EXCEPT !.blob = b, !.pc = p]
  OBVIOUS
<1>1. /\ n \in CallType /\ n.pc = p /\ n.env = k.env
      /\ n.refreshed = k.refreshed /\ n.sent = k.sent
  BY DEF Sane, CallType, Steps
<1>2. Routed(n)
  BY <1>1 DEF Routed, Sending
<1>3. Cheap(n)
  BY <1>1 DEF Sane, Cheap, Spent, Preparing
<1> QED BY <1>1, <1>2, <1>3 DEF Sane

LEMMA PreparedIsSane ==
  ASSUME NEW k, Sane(k), k.pc \in Preparing, NEW p \in {"blob", "store"}
  PROVE  Sane([k EXCEPT !.pc = p])
<1>1. k \in CallType /\ k.blob \in Blobs \cup {NoBlob}
  BY DEF Sane, CallType
<1>2. [k EXCEPT !.pc = p] = [k EXCEPT !.blob = k.blob, !.pc = p]
  BY <1>1 DEF CallType
<1> QED BY <1>1, <1>2, PreparingIsSane

\* A call that is ready to send has spent nothing on what it now sends.
LEMMA ReadyIsSane ==
  ASSUME NEW k, Sane(k), k.pc \in Preparing,
         NEW n \in CallType, n.pc = "global", n.env = k.env,
         n.header # "none", n.header = "basic" <=> AuthOf[k.env] = "basic",
         n.refreshed = k.refreshed, n.sent = k.sent, n.retries = 0
  PROVE  Sane(n)
<1>1. Routed(n)
  BY DEF Routed, Sending
<1>2. k.sent <= Spent(k) /\ Spent(n) = Spent(k) /\ k.sent \in Nat
  BY DEF Sane, CallType, Cheap, Spent
<1>3. Spent(n) \in Nat /\ Granting(n) \in Nat
  BY Costs
<1>4. n.sent <= Spent(n) + Granting(n) + n.retries
  BY <1>2, <1>3
<1> QED BY <1>1, <1>4 DEF Sane, Cheap, Preparing

\* The three ways to be ready: with a token, a token to ask for, a password.
LEMMA TokenIsSane ==
  ASSUME NEW k, Sane(k), k.pc \in Preparing, AuthOf[k.env] = "oauth",
         NEW b \in Blobs \cup {NoBlob}
  PROVE  Sane([k EXCEPT !.blob = b, !.header = "token", !.pc = "global", !.retries = 0])
<1> PICK n : n = [k EXCEPT !.blob = b, !.header = "token", !.pc = "global", !.retries = 0]
  OBVIOUS
<1>1. k \in CallType /\ 0 \in 0 .. MaxRetries
  BY ClientAssumption DEF Sane
<1>2. /\ n \in CallType /\ n.pc = "global" /\ n.env = k.env /\ n.header = "token"
      /\ n.refreshed = k.refreshed /\ n.sent = k.sent /\ n.retries = 0
  BY <1>1 DEF CallType, Steps
<1> QED BY <1>2, ReadyIsSane

LEMMA SecretIsSane ==
  ASSUME NEW k, Sane(k), k.pc \in Preparing, AuthOf[k.env] = "oauth"
  PROVE  Sane([k EXCEPT !.header = "secret", !.pc = "global", !.retries = 0])
<1> PICK n : n = [k EXCEPT !.header = "secret", !.pc = "global", !.retries = 0]
  OBVIOUS
<1>1. k \in CallType /\ 0 \in 0 .. MaxRetries
  BY ClientAssumption DEF Sane
<1>2. /\ n \in CallType /\ n.pc = "global" /\ n.env = k.env /\ n.header = "secret"
      /\ n.refreshed = k.refreshed /\ n.sent = k.sent /\ n.retries = 0
  BY <1>1 DEF CallType, Steps
<1> QED BY <1>2, ReadyIsSane

LEMMA BasicIsSane ==
  ASSUME NEW k, Sane(k), k.pc \in Preparing, AuthOf[k.env] = "basic",
         NEW b \in Blobs \cup {NoBlob}
  PROVE  Sane([k EXCEPT !.blob = b, !.header = "basic", !.pc = "global", !.retries = 0])
<1> PICK n : n = [k EXCEPT !.blob = b, !.header = "basic", !.pc = "global", !.retries = 0]
  OBVIOUS
<1>1. k \in CallType /\ 0 \in 0 .. MaxRetries
  BY ClientAssumption DEF Sane
<1>2. /\ n \in CallType /\ n.pc = "global" /\ n.env = k.env /\ n.header = "basic"
      /\ n.refreshed = k.refreshed /\ n.sent = k.sent /\ n.retries = 0
  BY <1>1 DEF CallType, Steps
<1> QED BY <1>2, ReadyIsSane

LEMMA WithBlobIsSane ==
  ASSUME NEW k, Sane(k), k.pc \in Preparing, NEW b \in Blobs \cup {NoBlob}
  PROVE  Sane(WithBlob(k, b)) /\ WithBlob(k, b).pc \in {"global", "grant"}
<1>1. k \in CallType /\ AuthOf[k.env] \in {"basic", "oauth"}
  BY ClientAssumption DEF Sane, CallType
<1>2. CASE AuthOf[k.env] = "basic"
  BY <1>1, <1>2, BasicIsSane DEF WithBlob, CallType
<1>3. CASE AuthOf[k.env] = "oauth"
  BY <1>1, <1>3, PreparingIsSane DEF WithBlob, CallType
<1> QED BY <1>1, <1>2, <1>3

\* One attempt more than is accounted for, when it is sent.
LEMMA FlightIsSane ==
  ASSUME NEW k, Sane(k)
  PROVE  /\ k.pc = "global" => Sane([k EXCEPT !.pc = "host"])
         /\ k.pc = "host" => Sane([k EXCEPT !.pc = "flight", !.sent = @ + 1])
<1>1. ASSUME k.pc = "global" PROVE Sane([k EXCEPT !.pc = "host"])
  <2> PICK n : n = [k EXCEPT !.pc = "host"]
    OBVIOUS
  <2>1. /\ n \in CallType /\ n.pc = "host" /\ n.env = k.env /\ n.header = k.header
        /\ n.refreshed = k.refreshed /\ n.sent = k.sent /\ n.retries = k.retries
    BY DEF Sane, CallType, Steps
  <2>2. Routed(n)
    BY <1>1, <2>1 DEF Sane, Routed, Sending
  <2>3. Cheap(n)
    BY <1>1, <2>1 DEF Sane, Cheap, Spent, Granting, Preparing
  <2> QED BY <2>1, <2>2, <2>3 DEF Sane
<1>2. ASSUME k.pc = "host" PROVE Sane([k EXCEPT !.pc = "flight", !.sent = @ + 1])
  <2> PICK n : n = [k EXCEPT !.pc = "flight", !.sent = @ + 1]
    OBVIOUS
  <2>0. k \in CallType /\ k.sent + 1 \in Nat
    BY ClientAssumption DEF Sane, CallType
  <2>1. /\ n \in CallType /\ n.pc = "flight" /\ n.env = k.env /\ n.header = k.header
        /\ n.refreshed = k.refreshed /\ n.sent = k.sent + 1 /\ n.retries = k.retries
    BY <2>0 DEF CallType, Steps
  <2>2. Routed(n)
    BY <1>2, <2>1 DEF Sane, Routed, Sending
  <2>3. Cheap(n)
    <3>1. /\ k.sent <= Spent(k) + Granting(k) + k.retries
          /\ Spent(n) = Spent(k) /\ Granting(n) = Granting(k)
      BY <1>2, <2>1 DEF Sane, Cheap, Spent, Granting
    <3>2. k.sent \in Nat /\ k.retries \in Nat /\ Spent(k) \in Nat /\ Granting(k) \in Nat
      BY Costs, ClientAssumption DEF Sane, CallType
    <3>3. n.sent <= Spent(n) + Granting(n) + n.retries + 1
      BY <2>1, <3>1, <3>2
    <3> QED BY <2>1, <3>3 DEF Cheap, Preparing
  <2> QED BY <2>1, <2>2, <2>3 DEF Sane
<1> QED BY <1>1, <1>2

\* What a call has sent when it is in flight.
LEMMA SentInFlight ==
  ASSUME NEW k, Sane(k), k.pc = "flight"
  PROVE  /\ k \in CallType /\ k.sent \in Nat /\ k.retries \in 0 .. MaxRetries
         /\ Spent(k) \in Nat /\ Granting(k) \in {0, Attempts} /\ Attempts = 1 + MaxRetries
         /\ MaxRetries \in Nat /\ k.sent <= Spent(k) + Granting(k) + k.retries + 1
BY Costs, ClientAssumption DEF Sane, CallType, Cheap, Attempts

\* The answers that do not end a call: a token that is granted ...
LEMMA GrantIsSane ==
  ASSUME NEW k, Sane(k), k.pc = "flight", k.header = "secret"
  PROVE  Sane([k EXCEPT !.header = "token", !.pc = "global", !.retries = 0])
<1> PICK n : n = [k EXCEPT !.header = "token", !.pc = "global", !.retries = 0]
  OBVIOUS
<1>0. k \in CallType /\ 0 \in 0 .. MaxRetries
  BY ClientAssumption DEF Sane, CallType
<1>1. /\ n \in CallType /\ n.pc = "global" /\ n.env = k.env /\ n.header = "token"
      /\ n.refreshed = k.refreshed /\ n.sent = k.sent /\ n.retries = 0
  BY <1>0 DEF CallType, Steps
<1>2. Routed(n)
  BY <1>1 DEF Sane, Routed, Sending
<1>3. Cheap(n)
  <2>1. Spent(n) = Spent(k) /\ Granting(n) = Attempts /\ Granting(k) = 0
    BY <1>1 DEF Spent, Granting
  <2>2. n.sent <= Spent(n) + Granting(n) + n.retries
    BY <1>1, <2>1, SentInFlight
  <2> QED BY <1>1, <2>2 DEF Cheap, Preparing
<1> QED BY <1>1, <1>2, <1>3 DEF Sane

\* ... a refusal that is refreshed once ...
LEMMA RefreshIsSane ==
  ASSUME NEW k, Sane(k), k.pc = "flight", k.header # "secret", ~k.refreshed
  PROVE  /\ Sane([k EXCEPT !.pc = Entry(k.env), !.refreshed = TRUE])
         /\ Entry(k.env) \in Preparing
<1> PICK n : n = [k EXCEPT !.pc = Entry(k.env), !.refreshed = TRUE]
  OBVIOUS
<1>0. /\ Entry(k.env) \in {"authorize", "blob"}
      /\ Entry(k.env) = "authorize" => AuthOf[k.env] = "oauth"
  BY DEF Entry
<1>1. /\ n \in CallType /\ n.pc = Entry(k.env) /\ n.env = k.env
      /\ n.refreshed = TRUE /\ n.sent = k.sent
  BY <1>0 DEF Sane, CallType, Steps
<1>2. Routed(n)
  BY <1>0, <1>1 DEF Routed, Sending
<1>3. Cheap(n)
  <2>1. Spent(k) = 0
    BY DEF Spent
  <2>2. CASE AuthOf[k.env] = "oauth"
    <3>1. Spent(n) = 2 * Attempts
      BY <1>1, <2>2 DEF Spent
    <3>2. n.sent <= Spent(n)
      BY <1>1, <2>1, <3>1, SentInFlight
    <3> QED BY <1>0, <1>1, <3>2 DEF Cheap, Preparing
  <2>3. CASE AuthOf[k.env] # "oauth"
    <3>1. Spent(n) = Attempts
      BY <1>1, <2>3 DEF Spent
    <3>2. k.header = "basic"
      <4>1. AuthOf[k.env] = "basic"
        BY <2>3, ClientAssumption DEF Sane, CallType
      <4> QED BY <4>1 DEF Sane, Routed, Sending
    <3>3. n.sent <= Spent(n)
      <4>1. Granting(k) = 0
        BY <3>2 DEF Granting
      <4> QED BY <1>1, <2>1, <3>1, <4>1, SentInFlight
    <3> QED BY <1>0, <1>1, <3>3 DEF Cheap, Preparing
  <2> QED BY <2>2, <2>3
<1> QED BY <1>0, <1>1, <1>2, <1>3 DEF Sane, Preparing

\* ... and a 429 that is waited for.
LEMMA RetryIsSane ==
  ASSUME NEW k, Sane(k), k.pc = "flight", k.retries < MaxRetries
  PROVE  Sane([k EXCEPT !.retries = @ + 1, !.pc = "global"])
<1> PICK n : n = [k EXCEPT !.retries = @ + 1, !.pc = "global"]
  OBVIOUS
<1>0. k \in CallType /\ k.retries + 1 \in 0 .. MaxRetries
  BY ClientAssumption DEF Sane, CallType
<1>1. /\ n \in CallType /\ n.pc = "global" /\ n.env = k.env /\ n.header = k.header
      /\ n.refreshed = k.refreshed /\ n.sent = k.sent /\ n.retries = k.retries + 1
  BY <1>0 DEF CallType, Steps
<1>2. Routed(n)
  BY <1>1 DEF Sane, Routed, Sending
<1>3. Cheap(n)
  <2>1. Spent(n) = Spent(k) /\ Granting(n) = Granting(k)
    BY <1>1 DEF Spent, Granting
  <2>2. n.sent <= Spent(n) + Granting(n) + n.retries
    BY <1>1, <2>1, SentInFlight DEF Attempts
  <2> QED BY <1>1, <2>2 DEF Cheap, Preparing
<1> QED BY <1>1, <1>2, <1>3 DEF Sane

-----------------------------------------------------------------------------
LEMMA InitIInv == Init => IInv
<1> SUFFICES ASSUME Init PROVE IInv
  OBVIOUS
<1>1. \A c \in Callers : call[c] = Idle /\ Sane(call[c])
  BY IdleIsSane DEF Init
<1>2. FirstBlob \in Blobs
  BY ClientAssumption DEF FirstBlob
<1>3. TypeOK
  <2>1. call \in [Callers -> CallType]
    BY <1>1 DEF Init, Sane
  <2>2. /\ used \in 0 .. GlobalLimit /\ hostUsed \in [Hosts -> 0 .. HostLimit]
        /\ calls \in 0 .. MaxCalls /\ changes \in 0 .. MaxChanges
    BY ClientAssumption DEF Init
  <2> QED BY <1>2, <2>1, <2>2 DEF Init, TypeOK, CallType, NoToken
<1>4. Permits
  <2>1. Idle.pc = "idle"
    BY DEF Idle, Begin
  <2>2. Holders = {} /\ \A h : Flying(h) = {}
    BY <1>1, <2>1 DEF Holders, Holding, Flying, At
  <2> QED BY <2>2, FS_EmptySet DEF Permits, Init
<1> QED BY <1>1, <1>3, <1>4 DEF IInv

\* A step outside the transport, by the call it leads to.
LEMMA Outside ==
  ASSUME IInv, NEW c \in Callers, NEW k, Sane(k), call' = [call EXCEPT ![c] = k],
         ~Holding(c), k.pc \notin {"host", "flight"},
         UNCHANGED <<world, tokens, permits>>,
         blobs' \in [Environments -> Blobs \cup {NoBlob}],
         calls' \in 0 .. MaxCalls, outcome' \in (Callers \X Results) \cup {Nobody}
  PROVE  IInv'
<1>1. /\ call' \in [Callers -> CallType]
      /\ \A d \in Callers : Sane(call'[d])
  BY Replaced
<1>2. Permits'
  BY PermitsStay
<1>3. TypeOK'
  BY <1>1 DEF IInv, TypeOK, CallType, world, permits
<1> QED BY <1>1, <1>2, <1>3 DEF IInv

\* A step that ends a request.
LEMMA Returned ==
  ASSUME IInv, NEW c \in Callers, NEW k, Sane(k), call' = [call EXCEPT ![c] = k],
         At(c, "flight"), k.pc \notin {"host", "flight"}, Release(c),
         UNCHANGED <<stored, accepts, changes, calls>>,
         honours' \in [Environments -> SUBSET Blobs],
         blobs' \in [Environments -> Blobs \cup {NoBlob}],
         tokens' \in [Environments -> [blob : Blobs \cup {NoBlob}, fresh : BOOLEAN]],
         outcome' \in (Callers \X Results) \cup {Nobody}
  PROVE  IInv'
<1>1. /\ call' \in [Callers -> CallType]
      /\ \A d \in Callers : Sane(call'[d])
  BY Replaced
<1>2. /\ Permits'
      /\ used' \in 0 .. GlobalLimit /\ hostUsed' \in [Hosts -> 0 .. HostLimit]
  BY PermitsReturned
<1>3. TypeOK'
  BY <1>1, <1>2 DEF IInv, TypeOK, CallType
<1> QED BY <1>1, <1>2, <1>3 DEF IInv
-----------------------------------------------------------------------------
(* One lemma for each kind of step.                                        *)

LEMMA CallFacts ==
  ASSUME IInv, NEW c \in Callers
  PROVE  /\ Sane(call[c]) /\ call[c] \in CallType
         /\ call[c].env \in Environments /\ call[c].pc \in Steps
         /\ call[c].blob \in Blobs \cup {NoBlob} /\ call[c].given \in Blobs \cup {NoBlob}
         /\ stored[call[c].env] \in Blobs \cup {NoBlob}
         /\ blobs[call[c].env] \in Blobs \cup {NoBlob}
         /\ tokens[call[c].env].blob \in Blobs \cup {NoBlob}
BY DEF IInv, TypeOK, Sane, CallType

LEMMA RequestStep ==
  ASSUME IInv, NEW c \in Callers, Request(c) PROVE IInv'
<1>1. PICK e \in MayCall[c], b \in Given \cup {NoBlob} :
        Move(c, Begin(Entry(e), e, b, \A d \in Callers : call[d].env = e => call[d].calm))
  BY DEF Request
<1> PICK q \in BOOLEAN : q = \A d \in Callers : call[d].env = e => call[d].calm
  BY DEF IInv
<1> PICK k : k = Begin(Entry(e), e, b, q)
  OBVIOUS
<1>2. Sane(k) /\ k.pc \in Preparing
  BY EntryIsSane, ClientAssumption
<1>3. call' = [call EXCEPT ![c] = k] /\ outcome' = Nobody
  BY <1>1 DEF Move
<1>4. ~Holding(c) /\ k.pc \notin {"host", "flight"}
  BY <1>2 DEF Request, At, Holding, Preparing
<1>5. UNCHANGED <<world, tokens, permits>> /\ blobs' \in [Environments -> Blobs \cup {NoBlob}]
  BY DEF Request, IInv, TypeOK
<1>6. calls' \in 0 .. MaxCalls
  BY ClientAssumption DEF Request, IInv, TypeOK
<1> QED BY <1>2, <1>3, <1>4, <1>5, <1>6, Outside

\* A step of the authorisation: it leads to a sane call outside the transport.
LEMMA AuthorisationStep ==
  ASSUME IInv, NEW c \in Callers,
         Authorize(c) \/ RecallBlob(c) \/ ReadStore(c) \/ Memoize(c) \/ Grant(c)
  PROVE  IInv'
<1> PICK k : k = call[c]
  OBVIOUS
<1>1. /\ Sane(k) /\ k \in CallType /\ k.env \in Environments
      /\ k.blob \in Blobs \cup {NoBlob} /\ k.given \in Blobs \cup {NoBlob}
      /\ stored[k.env] \in Blobs \cup {NoBlob} /\ blobs[k.env] \in Blobs \cup {NoBlob}
      /\ tokens[k.env].blob \in Blobs \cup {NoBlob}
  BY CallFacts
<1>2. k.pc \in Preparing /\ ~Holding(c)
  BY DEF Authorize, RecallBlob, ReadStore, Memoize, Grant, At, Holding, Preparing
<1>3. /\ UNCHANGED <<world, tokens, permits>> /\ calls' \in 0 .. MaxCalls
      /\ blobs' \in [Environments -> Blobs \cup {NoBlob}]
  <2>1. blobs \in [Environments -> Blobs \cup {NoBlob}] /\ calls \in 0 .. MaxCalls
    BY DEF IInv, TypeOK
  <2> QED BY <1>1, <2>1 DEF Authorize, RecallBlob, ReadStore, Memoize, Grant
<1>4. ASSUME NEW n, Sane(n), n.pc \in Preparing \cup {"global"}, Move(c, n) PROVE IInv'
  BY <1>2, <1>3, <1>4, Outside DEF Move, Preparing
<1>5. ASSUME NEW r \in Results, Finish(c, r) PROVE IInv'
  BY <1>2, <1>3, <1>5, IdleIsSane, Outside DEF Finish
<1>6. ASSUME k.pc \in {"authorize", "grant"},
             Move(c, [k EXCEPT !.blob = tokens[k.env].blob, !.header = "token",
                               !.pc = "global", !.retries = 0])
      PROVE  IInv'
  <2>1. AuthOf[k.env] = "oauth"
    BY <1>1, <1>6 DEF Sane, Routed
  <2> PICK n : n = [k EXCEPT !.blob = tokens[k.env].blob, !.header = "token",
                             !.pc = "global", !.retries = 0]
    OBVIOUS
  <2>2. Sane(n)
    BY <1>1, <1>2, <2>1, TokenIsSane
  <2>3. n.pc = "global"
    BY <1>1 DEF CallType
  <2> QED BY <1>4, <1>6, <2>2, <2>3
<1>7. ASSUME NEW p \in {"blob", "store"}, Move(c, [k EXCEPT !.pc = p]) PROVE IInv'
  <2> PICK n : n = [k EXCEPT !.pc = p]
    OBVIOUS
  <2>1. Sane(n)
    BY <1>1, <1>2, PreparedIsSane
  <2>2. n.pc \in Preparing
    BY <1>1 DEF CallType, Preparing
  <2> QED BY <1>4, <1>7, <2>1, <2>2
<1>8. ASSUME NEW b \in Blobs \cup {NoBlob}, Move(c, WithBlob(k, b)) PROVE IInv'
  <2>1. Sane(WithBlob(k, b)) /\ WithBlob(k, b).pc \in Preparing \cup {"global"}
    BY <1>1, <1>2, WithBlobIsSane DEF Preparing
  <2> QED BY <1>4, <1>8, <2>1
<1>9. CASE Authorize(c)
  BY <1>6, <1>7, <1>9 DEF Authorize, At
<1>10. CASE RecallBlob(c)
  BY <1>1, <1>7, <1>8, <1>10 DEF RecallBlob
<1>11. CASE ReadStore(c)
  <2>1. CASE Finish(c, "error")
    BY <1>5, <2>1 DEF Results
  <2>2. ASSUME NEW b \in Blobs \cup {NoBlob}, Move(c, [k EXCEPT !.blob = b, !.pc = "memoize"])
        PROVE  IInv'
    <3> PICK n : n = [k EXCEPT !.blob = b, !.pc = "memoize"]
      OBVIOUS
    <3>1. Sane(n)
      BY <1>1, <1>2, PreparingIsSane
    <3>2. n.pc \in Preparing
      BY <1>1 DEF CallType, Preparing
    <3> QED BY <1>4, <2>2, <3>1, <3>2
  <2> QED BY <1>1, <1>11, <2>1, <2>2 DEF ReadStore
<1>12. CASE Memoize(c)
  BY <1>1, <1>8, <1>12 DEF Memoize
<1>13. CASE Grant(c)
  <2>1. CASE CachedToken(k.env)
    BY <1>6, <1>13, <2>1 DEF Grant, At
  <2>2. CASE ~CachedToken(k.env)
    <3> PICK n : n = [k EXCEPT !.header = "secret", !.pc = "global", !.retries = 0]
      OBVIOUS
    <3>1. AuthOf[k.env] = "oauth"
      BY <1>1, <1>13 DEF Sane, Routed, Grant, At
    <3>2. Sane(n)
      BY <1>1, <1>2, <3>1, SecretIsSane
    <3>3. n.pc = "global"
      BY <1>1 DEF CallType
    <3> QED BY <1>4, <1>13, <2>2, <3>2, <3>3 DEF Grant
  <2> QED BY <2>1, <2>2
<1> QED BY <1>9, <1>10, <1>11, <1>12, <1>13

LEMMA AcquireGlobalStep ==
  ASSUME IInv, NEW c \in Callers, AcquireGlobal(c) PROVE IInv'
<1> PICK n : n = [call[c] EXCEPT !.pc = "host"]
  OBVIOUS
<1>1. Sane(n)
  BY CallFacts, FlightIsSane DEF AcquireGlobal, At
<1>2. n.pc = "host"
  BY CallFacts DEF CallType
<1>3. call' = [call EXCEPT ![c] = n] /\ outcome' = Nobody
  BY DEF AcquireGlobal, Move
<1>4. /\ call' \in [Callers -> CallType]
      /\ \A d \in Callers : Sane(call'[d])
  BY <1>1, <1>3, Replaced
<1>5. Permits'
  BY <1>1, <1>2, <1>3, PermitTaken DEF AcquireGlobal, At, Holding
<1>6. used' \in 0 .. GlobalLimit
  BY ClientAssumption DEF AcquireGlobal, IInv, TypeOK
<1>7. TypeOK'
  BY <1>3, <1>4, <1>6 DEF AcquireGlobal, IInv, TypeOK, CallType, world
<1> QED BY <1>4, <1>5, <1>7 DEF IInv

LEMMA AcquireHostStep ==
  ASSUME IInv, NEW c \in Callers, AcquireHost(c) PROVE IInv'
<1> PICK n : n = [call[c] EXCEPT !.pc = "flight", !.sent = @ + 1]
  OBVIOUS
<1> PICK h : h = HostOf[call[c].env]
  OBVIOUS
<1>1. Sane(n)
  BY CallFacts, FlightIsSane DEF AcquireHost, At
<1>2. n.pc = "flight" /\ n.env = call[c].env
  BY CallFacts DEF CallType
<1>3. call' = [call EXCEPT ![c] = n] /\ outcome' = Nobody
  BY DEF AcquireHost, Move
<1>4. /\ call' \in [Callers -> CallType]
      /\ \A d \in Callers : Sane(call'[d])
  BY <1>1, <1>3, Replaced
<1>5. Permits'
  BY <1>1, <1>2, <1>3, HostPermitTaken DEF AcquireHost
<1>6. hostUsed' \in [Hosts -> 0 .. HostLimit]
  <2>1. hostUsed \in [Hosts -> 0 .. HostLimit] /\ h \in Hosts
    BY CallFacts DEF IInv, TypeOK, Hosts
  <2>2. hostUsed[h] + 1 \in 0 .. HostLimit
    <3>1. hostUsed[h] \in 0 .. HostLimit /\ hostUsed[h] < HostLimit /\ HostLimit \in Nat
      BY <2>1, ClientAssumption DEF AcquireHost
    <3> QED BY <3>1
  <2>3. hostUsed' = [hostUsed EXCEPT ![h] = hostUsed[h] + 1]
    BY <2>1 DEF AcquireHost
  <2> QED BY <2>1, <2>2, <2>3
<1>7. TypeOK'
  BY <1>3, <1>4, <1>6 DEF AcquireHost, IInv, TypeOK, CallType, world
<1> QED BY <1>4, <1>5, <1>7 DEF IInv

LEMMA AnsweredStep ==
  ASSUME IInv, NEW c \in Callers,
         Answered(c) \/ Throttled(c) \/ TransportFails(c)
  PROVE  IInv'
<1> PICK k : k = call[c]
  OBVIOUS
<1>1. Sane(k) /\ k \in CallType /\ k.env \in Environments /\ k.blob \in Blobs \cup {NoBlob}
  BY CallFacts
<1>2. k.pc = "flight" /\ At(c, "flight") /\ Release(c)
  BY DEF Answered, Throttled, TransportFails, At
<1>3. UNCHANGED <<stored, accepts, changes, calls>>
  BY DEF Answered, Throttled, TransportFails, world
<1>4. /\ honours \in [Environments -> SUBSET Blobs]
      /\ blobs \in [Environments -> Blobs \cup {NoBlob}]
      /\ tokens \in [Environments -> [blob : Blobs \cup {NoBlob}, fresh : BOOLEAN]]
  BY DEF IInv, TypeOK
<1>5. ASSUME NEW n, Sane(n), n.pc \in Preparing \cup {"global"}, Move(c, n),
             honours' \in [Environments -> SUBSET Blobs],
             blobs' \in [Environments -> Blobs \cup {NoBlob}],
             tokens' \in [Environments -> [blob : Blobs \cup {NoBlob}, fresh : BOOLEAN]]
      PROVE  IInv'
  BY <1>2, <1>3, <1>5, Returned DEF Move, Preparing
<1>6. ASSUME NEW r \in Results, Finish(c, r), UNCHANGED <<honours, blobs, tokens>>
      PROVE  IInv'
  BY <1>2, <1>3, <1>4, <1>6, IdleIsSane, Returned DEF Finish
<1>7. CASE TransportFails(c)
  BY <1>6, <1>7 DEF TransportFails, Results, world
<1>8. CASE Throttled(c)
  <2>1. UNCHANGED <<honours, blobs, tokens>>
    BY <1>8 DEF Throttled, world
  <2>2. CASE k.retries < MaxRetries
    <3> PICK n : n = [k EXCEPT !.retries = @ + 1, !.pc = "global"]
      OBVIOUS
    <3>1. Sane(n)
      BY <1>1, <1>2, <2>2, RetryIsSane
    <3>2. n.pc = "global"
      BY <1>1 DEF CallType
    <3> QED BY <1>4, <1>5, <1>8, <2>1, <2>2, <3>1, <3>2 DEF Throttled
  <2>3. CASE ~(k.retries < MaxRetries)
    BY <1>6, <1>8, <2>1, <2>3 DEF Throttled, Results
  <2> QED BY <2>2, <2>3
<1>9. CASE Answered(c)
  <2>1. CASE k.header = "secret" /\ Accepted(k)
    <3> PICK n : n = [k EXCEPT !.header = "token", !.pc = "global", !.retries = 0]
      OBVIOUS
    <3>1. Sane(n)
      BY <1>1, <1>2, <2>1, GrantIsSane
    <3>2. n.pc = "global"
      BY <1>1 DEF CallType
    <3>3. k.blob \in Blobs \cup {NoBlob}
      BY <1>1
    <3>4. Move(c, n) /\ UNCHANGED blobs
      BY <1>9, <2>1 DEF Answered, Granted
    <3>5. tokens' = [tokens EXCEPT ![k.env] = [blob |-> k.blob, fresh |-> TRUE]]
      BY <1>9, <2>1 DEF Answered, Granted
    <3>6. honours' = [honours EXCEPT ![k.env] = honours[k.env] \cup {k.blob}]
      BY <1>1, <1>4, <1>9, <2>1 DEF Answered, Granted
    <3>7. k.blob \in Blobs
      BY <1>1, <2>1 DEF Accepted, IInv, TypeOK
    <3> QED BY <1>1, <1>4, <1>5, <3>1, <3>2, <3>3, <3>4, <3>5, <3>6, <3>7
  <2>2. CASE k.header = "secret" /\ ~Accepted(k)
    BY <1>6, <1>9, <2>2 DEF Answered, Granted, Results
  <2>3. CASE k.header # "secret" /\ Accepted(k)
    BY <1>6, <1>9, <2>3 DEF Answered, Results
  <2>4. CASE k.header # "secret" /\ ~Accepted(k) /\ k.refreshed
    BY <1>6, <1>9, <2>4 DEF Answered, Results
  <2>5. CASE k.header # "secret" /\ ~Accepted(k) /\ ~k.refreshed
    <3> PICK n : n = [k EXCEPT !.pc = Entry(k.env), !.refreshed = TRUE]
      OBVIOUS
    <3>1. Sane(n) /\ Entry(k.env) \in Preparing
      BY <1>1, <1>2, <2>5, RefreshIsSane
    <3>2. n.pc \in Preparing
      BY <1>1, <3>1 DEF CallType
    <3>3. UNCHANGED honours /\ Refresh(c)
      BY <1>9, <2>5 DEF Answered
    <3>4. Move(c, n)
      BY <3>3 DEF Refresh
    <3>5. /\ blobs' \in [Environments -> Blobs \cup {NoBlob}]
          /\ tokens' \in [Environments -> [blob : Blobs \cup {NoBlob}, fresh : BOOLEAN]]
      <4>1. NoToken \in [blob : Blobs \cup {NoBlob}, fresh : BOOLEAN]
        BY DEF NoToken
      <4>2. CASE AuthOf[k.env] = "oauth"
        BY <1>1, <1>4, <3>3, <4>1, <4>2 DEF Refresh
      <4>3. CASE AuthOf[k.env] # "oauth"
        BY <1>1, <1>4, <3>3, <4>3 DEF Refresh
      <4> QED BY <4>2, <4>3
    <3> QED BY <1>4, <1>5, <3>1, <3>2, <3>3, <3>4, <3>5
  <2> QED BY <2>1, <2>2, <2>3, <2>4, <2>5
<1> QED BY <1>7, <1>8, <1>9

\* A change of the world takes no step of a call: at most its calm is over.
LEMMA ChangeStep ==
  ASSUME IInv, NEW e \in Environments,
         RotateStored(e) \/ RotateInstance(e) \/ RevokeTokens(e) \/ TokenAges(e)
  PROVE  IInv'
<1>1. ASSUME NEW d \in Callers
      PROVE  \/ call'[d] = call[d]
             \/ call'[d] = [call[d] EXCEPT !.calm = FALSE]
  BY DEF RotateStored, RotateInstance, RevokeTokens, Change, TokenAges
<1>2. ASSUME NEW d \in Callers
      PROVE  /\ Sane(call'[d]) /\ call'[d].pc = call[d].pc /\ call'[d].env = call[d].env
  <2>1. CASE call'[d] = call[d]
    BY <2>1, CallFacts
  <2>2. CASE call'[d] = [call[d] EXCEPT !.calm = FALSE]
    <3> PICK k : k = call[d]
      OBVIOUS
    <3> PICK n : n = [k EXCEPT !.calm = FALSE]
      OBVIOUS
    <3>1. Sane(k) /\ k \in CallType
      BY CallFacts
    <3>2. /\ n \in CallType /\ n.pc = k.pc /\ n.env = k.env /\ n.header = k.header
          /\ n.refreshed = k.refreshed /\ n.sent = k.sent /\ n.retries = k.retries
      BY <3>1 DEF CallType
    <3>3. Sane(n)
      BY <3>1, <3>2 DEF Sane, Routed, Cheap, Spent, Granting
    <3> QED BY <2>2, <3>2, <3>3
  <2> QED BY <1>1, <2>1, <2>2
<1>3. call' \in [Callers -> CallType]
  <2>1. call' = [d \in Callers |-> call'[d]]
    BY DEF RotateStored, RotateInstance, RevokeTokens, Change, TokenAges, IInv, TypeOK
  <2> QED BY <1>2, <2>1 DEF Sane
<1>4. /\ stored' \in [Environments -> Blobs \cup {NoBlob}]
      /\ accepts' \in [Environments -> Blobs]
      /\ honours' \in [Environments -> SUBSET Blobs]
      /\ tokens' \in [Environments -> [blob : Blobs \cup {NoBlob}, fresh : BOOLEAN]]
      /\ changes' \in 0 .. MaxChanges
  <2>1. CASE RotateStored(e)
    BY <2>1, ClientAssumption DEF RotateStored, Change, IInv, TypeOK
  <2>2. CASE RotateInstance(e)
    BY <2>2, ClientAssumption DEF RotateInstance, Change, IInv, TypeOK
  <2>3. CASE RevokeTokens(e)
    BY <2>3, ClientAssumption DEF RevokeTokens, Change, IInv, TypeOK
  <2>4. CASE TokenAges(e)
    <3>1. tokens \in [Environments -> [blob : Blobs \cup {NoBlob}, fresh : BOOLEAN]]
      BY DEF IInv, TypeOK
    <3> PICK t : t = [tokens[e] EXCEPT !.fresh = FALSE]
      OBVIOUS
    <3>2. t \in [blob : Blobs \cup {NoBlob}, fresh : BOOLEAN]
      BY <3>1
    <3>3. tokens' = [tokens EXCEPT ![e] = t]
      BY <2>4, <3>1 DEF TokenAges
    <3>4. tokens' \in [Environments -> [blob : Blobs \cup {NoBlob}, fresh : BOOLEAN]]
      BY <3>1, <3>2, <3>3
    <3> QED BY <2>4, <3>4 DEF TokenAges, IInv, TypeOK, world
  <2> QED BY <2>1, <2>2, <2>3, <2>4
<1>5. UNCHANGED <<blobs, used, hostUsed, calls>> /\ outcome' = Nobody
  BY DEF RotateStored, RotateInstance, RevokeTokens, Change, TokenAges, permits
<1>6. TypeOK'
  BY <1>3, <1>4, <1>5 DEF IInv, TypeOK, CallType
<1>7. Holders' = Holders /\ \A h : Flying(h)' = Flying(h)
  BY <1>2 DEF Holders, Holding, Flying, At
<1>8. Permits'
  BY <1>5, <1>7 DEF IInv, Permits
<1> QED BY <1>2, <1>6, <1>8 DEF IInv

LEMMA StepIInv == IInv /\ [Next]_vars => IInv'
<1> SUFFICES ASSUME IInv, [Next]_vars PROVE IInv'
  OBVIOUS
<1>1. ASSUME NEW c \in Callers, Request(c) PROVE IInv'
  BY <1>1, RequestStep
<1>2. ASSUME NEW c \in Callers, Step(c) PROVE IInv'
  BY <1>2, AuthorisationStep, AcquireGlobalStep, AcquireHostStep, AnsweredStep DEF Step
<1>3. ASSUME NEW e \in Environments,
             RotateStored(e) \/ RotateInstance(e) \/ RevokeTokens(e) \/ TokenAges(e)
      PROVE  IInv'
  BY <1>3, ChangeStep
<1>4. CASE UNCHANGED vars
  BY <1>4 DEF vars, IInv, TypeOK, Permits, Holders, Holding, Flying, At
<1> QED BY <1>1, <1>2, <1>3, <1>4 DEF Next

-----------------------------------------------------------------------------
\* What is counted by the permits is bounded by them, and what a call has
\* spent by the two authorisations it may have.
LEMMA Bounded == IInv => LoadIsBounded
<1> SUFFICES ASSUME IInv PROVE LoadIsBounded
  OBVIOUS
<1>1. InFlightBounded
  <2> PICK F : F = {c \in Callers : At(c, "flight")}
    OBVIOUS
  <2>1. Cardinality(F) <= Cardinality(Holders)
    <3>1. F \subseteq Holders /\ IsFiniteSet(Holders)
      BY SetsAreFinite DEF Holders, Holding, At
    <3> QED BY <3>1, FS_Subset
  <2>2. Cardinality(F) \in Nat /\ Cardinality(Holders) \in Nat
    BY SetsAreFinite DEF Holders
  <2>3. used = Cardinality(Holders) /\ used <= GlobalLimit /\ GlobalLimit \in Nat
    BY ClientAssumption DEF IInv, Permits, TypeOK
  <2>4. Cardinality(F) <= GlobalLimit
    BY <2>1, <2>2, <2>3
  <2>5. \A h : Flying(h) = {c \in F : HostOf[call[c].env] = h}
    BY DEF Flying
  <2>6. Holders = {c \in Callers : At(c, "host") \/ At(c, "flight")}
    BY DEF Holders, Holding, At
  <2>7. \A h \in Hosts : hostUsed[h] = Cardinality(Flying(h)) /\ hostUsed[h] <= HostLimit
    BY ClientAssumption DEF IInv, Permits, TypeOK
  <2> QED BY <2>3, <2>4, <2>5, <2>6, <2>7 DEF InFlightBounded
<1>2. CostIsBounded
  <2> SUFFICES ASSUME NEW c \in Callers
               PROVE  call[c].sent <=
                        2 * (1 + MaxRetries) * (IF AuthOf[call[c].env] = "oauth" THEN 2 ELSE 1)
    BY DEF CostIsBounded
  <2> PICK k : k = call[c]
    OBVIOUS
  <2>1. /\ Sane(k) /\ k \in CallType /\ k.sent \in Nat /\ k.retries \in 0 .. MaxRetries
        /\ MaxRetries \in Nat /\ k.pc \in Steps
    BY CallFacts, ClientAssumption DEF CallType
  <2>2. k.sent <= Spent(k) + Granting(k) + k.retries + 1
    BY <2>1, Costs DEF Sane, Cheap, Steps, Preparing
  <2>3. Granting(k) \in {0, Attempts}
    BY <2>1, Costs
  <2>4. CASE AuthOf[k.env] = "oauth"
    <3>1. Spent(k) \in {0, 2 * Attempts}
      BY <2>4 DEF Spent
    <3> QED BY <2>1, <2>2, <2>3, <2>4, <3>1 DEF Attempts
  <2>5. CASE AuthOf[k.env] # "oauth"
    <3>1. Spent(k) \in {0, Attempts}
      BY <2>5 DEF Spent
    <3>2. CASE k.pc \in Sending
      <4>1. Granting(k) = 0
        <5>1. AuthOf[k.env] = "basic"
          BY <2>1, <2>5, ClientAssumption DEF CallType
        <5> QED BY <2>1, <3>2, <5>1 DEF Sane, Routed, Granting
      <4> QED BY <2>1, <2>2, <2>5, <3>1, <4>1 DEF Attempts
    <3>3. CASE k.pc \notin Sending
      <4>1. k.sent <= Spent(k)
        <5>1. Spent(k) \in Nat
          BY <2>1, Costs
        <5> QED BY <2>1, <3>3, <5>1 DEF Sane, Cheap, Steps, Sending, Preparing
      <4> QED BY <2>1, <2>5, <3>1, <4>1 DEF Attempts
    <3> QED BY <3>2, <3>3
  <2> QED BY <2>4, <2>5
<1> QED BY <1>1, <1>2 DEF LoadIsBounded, IInv

\* However many callers share the client, whatever they are answered and
\* whatever is rotated meanwhile: no more requests are in flight than the
\* limits allow, every permit is returned, and a call costs no more than two
\* authorisations (LimitedTransport::execute, request, oauth_access, send).
THEOREM Admitted == Spec => []LoadIsBounded
<1>1. Init => IInv
  BY InitIInv
<1>2. IInv /\ [Next]_vars => IInv'
  BY StepIInv
<1>3. IInv => LoadIsBounded
  BY Bounded
<1> QED BY <1>1, <1>2, <1>3, PTL DEF Spec

-----------------------------------------------------------------------------
(* What the probes make of what the client is answered, and drift and the  *)
(* clone of what they read.  First, sequences that are filtered.           *)

\* Induction over the natural numbers, in the form of a set.
LEMMA NatInd ==
  ASSUME NEW T, 0 \in T, \A n \in Nat : n \in T => n + 1 \in T
  PROVE  Nat \subseteq T
<1> DEFINE R == {ss \in Nat \X Nat : ss[1] < ss[2]}
<1>1. IsWellFoundedOn(R, Nat)
  BY NatLessThanWellFounded DEF OpToRel
<1>2. \A x, y \in Nat : x < y => <<x, y>> \in R
  OBVIOUS
<1> HIDE DEF R
<1> SUFFICES ASSUME Nat \ T # {} PROVE FALSE
  OBVIOUS
<1>3. PICK x \in Nat \ T : \A y \in Nat \ T : <<y, x>> \notin R
  BY <1>1, WFMin, Zenon
<1>4. x # 0 /\ x - 1 \in Nat /\ x - 1 < x
  OBVIOUS
<1>5. x - 1 \in T
  BY <1>2, <1>3, <1>4
<1>6. (x - 1) + 1 = x
  OBVIOUS
<1> QED BY <1>4, <1>5, <1>6

\* Flattening adds up step by step.
LEMMA Unfolded ==
  ASSUME NEW S, NEW ss \in Seq(Seq(S)), Len(ss) # 0
  PROVE  \E f : /\ FlattenSeq(ss) = f[Len(ss)]
                /\ \A i \in 1 .. Len(ss) : f[i] = IF i = 1 THEN ss[i] ELSE f[i - 1] \o ss[i]
<1> DEFINE n == Len(ss)
           Built(g, m) == g = [i \in 1..m |-> IF i = 1 THEN ss[i] ELSE g[i - 1] \o ss[i]]
           f == CHOOSE g : Built(g, n)
           T == {m \in Nat : \E g : Built(g, m)}
<1>0. n \in Nat \ {0}
  OBVIOUS
<1>1. FlattenSeq(ss) = f[n]
  BY DEF FlattenSeq
<1>2. Nat \subseteq T
  <2>1. 0 \in T
    <3>1. Built([i \in 1..0 |-> ss[i]], 0)
      OBVIOUS
    <3> QED BY <3>1
  <2>2. ASSUME NEW m \in Nat, m \in T PROVE m + 1 \in T
    <3>1. PICK g : Built(g, m)
      BY <2>2
    <3> DEFINE h == [i \in 1 .. m + 1 |->
                       IF i <= m THEN g[i] ELSE IF i = 1 THEN ss[i] ELSE g[i - 1] \o ss[i]]
    <3>2. ASSUME NEW i \in 1 .. m + 1
          PROVE  h[i] = IF i = 1 THEN ss[i] ELSE h[i - 1] \o ss[i]
      <4>1. i # 1 => h[i - 1] = g[i - 1]
        OBVIOUS
      <4>2. i <= m => g[i] = IF i = 1 THEN ss[i] ELSE g[i - 1] \o ss[i]
        <5>1. g = [j \in 1..m |-> IF j = 1 THEN ss[j] ELSE g[j - 1] \o ss[j]]
          BY <3>1
        <5>2. \A j \in 1..m : g[j] = IF j = 1 THEN ss[j] ELSE g[j - 1] \o ss[j]
          BY <5>1, Zenon
        <5>3. i <= m => i \in 1..m
          OBVIOUS
        <5> QED BY <5>2, <5>3, Zenon
      <4> QED BY <4>1, <4>2
    <3>3. Built(h, m + 1)
      BY <3>2
    <3> HIDE DEF h, Built
    <3> QED BY <3>3
  <2> HIDE DEF T
  <2> QED BY <2>1, <2>2, NatInd
<1>3. Built(f, n)
  <2>1. n \in T
    BY <1>0, <1>2
  <2> QED BY <2>1, Zenon
<1>4. \A i \in 1..n : f[i] = IF i = 1 THEN ss[i] ELSE f[i - 1] \o ss[i]
  BY <1>3, Zenon
<1> HIDE DEF f
<1> QED BY <1>1, <1>4

\* What flattening builds up step by step has what every step keeps.
LEMMA FlattenBy ==
  ASSUME NEW S, NEW ss \in Seq(Seq(S)), NEW G, <<0, <<>>>> \in G,
         \A j \in 1 .. Len(ss) : \A s \in Seq(S) : <<j - 1, s>> \in G => <<j, s \o ss[j]>> \in G
  PROVE  FlattenSeq(ss) \in Seq(S) /\ <<Len(ss), FlattenSeq(ss)>> \in G
<1>1. CASE Len(ss) = 0
  <2>1. ss = <<>> /\ FlattenSeq(ss) = <<>>
    BY <1>1 DEF FlattenSeq
  <2>2. <<Len(ss), FlattenSeq(ss)>> = <<0, <<>>>>
    BY <1>1, <2>1
  <2>3. <<>> \in Seq(S)
    OBVIOUS
  <2> QED BY <2>1, <2>2, <2>3
<1>2. CASE Len(ss) # 0
  <2> DEFINE n == Len(ss)
  <2>0. n \in Nat \ {0}
    BY <1>2
  <2>1. PICK f : /\ FlattenSeq(ss) = f[n]
                 /\ \A i \in 1..n : f[i] = IF i = 1 THEN ss[i] ELSE f[i - 1] \o ss[i]
    BY <1>2, Unfolded
  <2>4. \A i \in 1..n : f[i] = IF i = 1 THEN ss[i] ELSE f[i - 1] \o ss[i]
    BY <2>1
  <2> DEFINE U == {m \in Nat : m + 1 <= n => f[m + 1] \in Seq(S) /\ <<m + 1, f[m + 1]>> \in G}
  <2>5. Nat \subseteq U
    <3>1. 0 \in U
      <4>1. ss[1] \in Seq(S) /\ <<>> \o ss[1] = ss[1] /\ f[1] = ss[1]
        BY <2>0, <2>4
      <4>2. <<1, <<>> \o ss[1]>> \in G
        <5>1. 1 \in 1 .. Len(ss) /\ 1 - 1 = 0 /\ <<>> \in Seq(S)
          BY <2>0
        <5> QED BY <5>1
      <4>3. 0 + 1 = 1
        OBVIOUS
      <4> QED BY <4>1, <4>2, <4>3
    <3>2. ASSUME NEW m \in Nat, m \in U PROVE m + 1 \in U
      <4> SUFFICES ASSUME m + 2 <= n
                   PROVE  f[m + 2] \in Seq(S) /\ <<m + 2, f[m + 2]>> \in G
        OBVIOUS
      <4>1. f[m + 1] \in Seq(S) /\ <<m + 1, f[m + 1]>> \in G /\ ss[m + 2] \in Seq(S)
        BY <3>2
      <4>2. f[m + 2] = f[m + 1] \o ss[m + 2]
        <5>1. m + 2 \in 1..n /\ m + 2 # 1 /\ (m + 2) - 1 = m + 1
          BY <2>0
        <5> QED BY <2>4, <5>1
      <4>3. <<m + 2, f[m + 1] \o ss[m + 2]>> \in G
        <5>1. m + 2 \in 1 .. Len(ss) /\ (m + 2) - 1 = m + 1
          BY <2>0
        <5> QED BY <4>1, <5>1
      <4> QED BY <4>1, <4>2, <4>3
    <3> HIDE DEF U
    <3> QED BY <3>1, <3>2, NatInd
  <2>6. (n - 1) + 1 = n /\ n <= n /\ n - 1 \in Nat
    BY <2>0
  <2>7. n - 1 \in U
    BY <2>5, <2>6
  <2> QED BY <2>1, <2>6, <2>7
<1> QED BY <1>1, <1>2

LEMMA LastIndex ==
  ASSUME NEW n \in Nat, NEW S \in SUBSET (1..n), S # {}
  PROVE  \E m \in S : \A i \in S : i <= m
<1> DEFINE T == {m \in Nat : \A R \in SUBSET (1..m) : R # {} => \E j \in R : \A i \in R : i <= j}
<1>1. 0 \in T
  <2>1. 1..0 = {}
    OBVIOUS
  <2> QED BY <2>1
<1>2. ASSUME NEW m \in Nat, m \in T PROVE m + 1 \in T
  <2> SUFFICES ASSUME NEW R \in SUBSET (1 .. m + 1), R # {}
               PROVE  \E j \in R : \A i \in R : i <= j
    OBVIOUS
  <2>1. CASE m + 1 \in R
    BY <2>1
  <2>2. CASE m + 1 \notin R
    <3>1. R \in SUBSET (1..m)
      BY <2>2
    <3> QED BY <1>2, <3>1
  <2> QED BY <2>1, <2>2
<1> HIDE DEF T
<1>3. n \in T
  BY <1>1, <1>2, NatInd
<1> QED BY <1>3 DEF T

LEMMA FirstIndex ==
  ASSUME NEW S \in SUBSET (Nat \ {0}), S # {}
  PROVE  \E m \in S : \A i \in S : m <= i
<1> DEFINE T == {m \in Nat : (\E i \in S : i <= m) => \E j \in S : \A i \in S : j <= i}
<1>1. 0 \in T
  OBVIOUS
<1>2. ASSUME NEW m \in Nat, m \in T PROVE m + 1 \in T
  <2>1. CASE \E i \in S : i <= m
    BY <1>2, <2>1
  <2>2. CASE ~\E i \in S : i <= m
    <3>1. \A i \in S : i > m
      BY <2>2
    <3> QED BY <3>1
  <2> QED BY <2>1, <2>2
<1> HIDE DEF T
<1>3. PICK n \in S : TRUE
  OBVIOUS
<1>4. n \in T /\ n <= n
  BY <1>1, <1>2, NatInd
<1> QED BY <1>4 DEF T

LEMMA MinIs == ASSUME NEW S \in SUBSET (Nat \ {0}), S # {} PROVE Min(S) \in S /\ \A i \in S : Min(S) <= i
BY FirstIndex, Zenon DEF Min

LEMMA MaxIs ==
  ASSUME NEW n \in Nat, NEW S \in SUBSET (1 .. n), S # {}
  PROVE  Max(S) \in S /\ \A i \in S : Max(S) >= i
<1>1. \E m \in S : \A i \in S : m >= i
  BY LastIndex
<1> QED BY <1>1, Zenon DEF Max

\* `at` lists the indexes of K in order, and `kept` what stands there.
Lists(kept, at, K, val) ==
  /\ at \in [1 .. Len(kept) -> K]
  /\ \A k \in 1 .. Len(kept) : kept[k] = val[at[k]]
  /\ \A j, k \in 1 .. Len(kept) : j < k => at[j] < at[k]
  /\ \A i \in K : \E k \in 1 .. Len(kept) : at[k] = i

\* Flattening what a filter makes of each row keeps the rows of K, in order.
LEMMA Filtered ==
  ASSUME NEW T, NEW n \in Nat, NEW K \in SUBSET (1..n), NEW val \in [1..n -> T], NEW ss,
         ss = [i \in 1..n |-> IF i \in K THEN <<val[i]>> ELSE <<>>]
  PROVE  FlattenSeq(ss) \in Seq(T) /\ \E at : Lists(FlattenSeq(ss), at, K, val)
<1> DEFINE Upto(j) == {i \in K : i <= j}
           Good(j, s) == \E at : Lists(s, at, Upto(j), val)
           G == {g \in Nat \X Seq(T) : Good(g[1], g[2])}
<1>0. \A i \in K : i \in Nat /\ i <= n /\ i >= 1
  OBVIOUS
<1>1. ss \in Seq(Seq(T)) /\ Len(ss) = n
  <2>1. \A i \in 1..n : (IF i \in K THEN <<val[i]>> ELSE <<>>) \in Seq(T)
    OBVIOUS
  <2>2. ss \in [1..n -> Seq(T)]
    BY <2>1
  <2> QED BY <2>2
<1>2. <<0, <<>>>> \in G
  <2>1. Upto(0) = {}
    <3>1. \A i \in K : ~(i <= 0)
      BY <1>0
    <3> QED BY <3>1
  <2>2. <<>> \in Seq(T) /\ Len(<<>>) = 0 /\ 1..0 = {}
    OBVIOUS
  <2>3. Lists(<<>>, [k \in 1..0 |-> k], Upto(0), val)
    BY <2>1, <2>2 DEF Lists
  <2>4. Good(0, <<>>)
    BY <2>3
  <2>5. <<>> \in Seq(T)
    OBVIOUS
  <2> HIDE DEF Good
  <2> QED BY <2>4, <2>5
<1>3. ASSUME NEW j \in 1..n, NEW s \in Seq(T), <<j - 1, s>> \in G PROVE <<j, s \o ss[j]>> \in G
  <2>0. Good(j - 1, s)
    <3> HIDE DEF Good
    <3> QED BY <1>3
  <2>1. PICK at : Lists(s, at, Upto(j - 1), val)
    BY <2>0
  <2> SUFFICES s \o ss[j] \in Seq(T) /\ Good(j, s \o ss[j])
    <3>1. j \in Nat
      OBVIOUS
    <3> HIDE DEF Good
    <3> QED BY <3>1 DEF G
  <2>2. CASE j \in K
    <3>1. s \o ss[j] = Append(s, val[j]) /\ Append(s, val[j]) \in Seq(T)
      <4>1. ss[j] = <<val[j]>>
        BY <2>2
      <4> QED BY <4>1
    <3> DEFINE r == Append(s, val[j])
               new == [k \in 1 .. Len(r) |-> IF k <= Len(s) THEN at[k] ELSE j]
    <3>2. Len(r) = Len(s) + 1 /\ r[Len(s) + 1] = val[j] /\ \A k \in 1 .. Len(s) : r[k] = s[k]
      OBVIOUS
    <3> HIDE DEF r
    <3>3. Upto(j) = Upto(j - 1) \union {j}
      <4>1. \A i \in K : i <= j <=> i <= j - 1 \/ i = j
        BY <1>0
      <4> QED BY <2>2, <4>1
    <3>4. \A k \in 1 .. Len(s) : at[k] \in Upto(j - 1) /\ s[k] = val[at[k]]
      BY <2>1 DEF Lists
    <3>5. new \in [1 .. Len(r) -> Upto(j)]
      BY <3>2, <3>3, <3>4
    <3>6. \A k \in 1 .. Len(r) : r[k] = val[new[k]]
      BY <3>2, <3>4
    <3>7. \A i, k \in 1 .. Len(r) : i < k => new[i] < new[k]
      <4> TAKE i, k \in 1 .. Len(r)
      <4> SUFFICES ASSUME i < k PROVE new[i] < new[k]
        OBVIOUS
      <4>1. CASE k <= Len(s)
        <5>1. i \in 1 .. Len(s) /\ k \in 1 .. Len(s)
          BY <3>2, <4>1
        <5>2. at[i] < at[k]
          BY <2>1, <5>1 DEF Lists
        <5> QED BY <5>1, <5>2
      <4>2. CASE ~(k <= Len(s))
        <5>1. i \in 1 .. Len(s) /\ k = Len(s) + 1
          BY <3>2, <4>2
        <5>2. at[i] \in Upto(j - 1)
          BY <3>4, <5>1
        <5>3. at[i] \in Nat /\ at[i] <= j - 1
          BY <1>0, <5>2
        <5>4. new[i] = at[i] /\ new[k] = j
          BY <5>1
        <5> QED BY <5>3, <5>4
      <4> QED BY <4>1, <4>2
    <3>8. \A i \in Upto(j) : \E k \in 1 .. Len(r) : new[k] = i
      <4> TAKE i \in Upto(j)
      <4>1. CASE i = j
        <5>1. Len(s) + 1 \in 1 .. Len(r) /\ new[Len(s) + 1] = j
          BY <3>2
        <5> QED BY <4>1, <5>1
      <4>2. CASE i # j
        <5>1. PICK k \in 1 .. Len(s) : at[k] = i
          BY <2>1, <3>3, <4>2 DEF Lists
        <5> QED BY <3>2, <5>1
      <4> QED BY <4>1, <4>2
    <3>9. Lists(r, new, Upto(j), val)
      BY <3>5, <3>6, <3>7, <3>8 DEF Lists
    <3>10. Good(j, r)
      <4> HIDE DEF new, Upto
      <4> QED BY <3>9
    <3> HIDE DEF Good
    <3> QED BY <3>1, <3>10 DEF r
  <2>3. CASE j \notin K
    <3>1. s \o ss[j] = s
      <4>1. ss[j] = <<>>
        BY <2>3
      <4> QED BY <4>1
    <3>2. Upto(j) = Upto(j - 1)
      <4>1. \A i \in K : i <= j <=> i <= j - 1
        BY <1>0, <2>3
      <4> QED BY <4>1
    <3> HIDE DEF Upto
    <3> QED BY <2>1, <3>1, <3>2
  <2> QED BY <2>2, <2>3
<1> HIDE DEF G
<1>4. FlattenSeq(ss) \in Seq(T) /\ <<n, FlattenSeq(ss)>> \in G
  BY <1>1, <1>2, <1>3, FlattenBy
<1>5. Good(n, FlattenSeq(ss))
  <2> HIDE DEF Good
  <2> QED BY <1>4 DEF G
<1>6. Upto(n) = K
  BY <1>0
<1> QED BY <1>4, <1>5, <1>6

\* As many are kept as there are indexes to keep.
LEMMA KeptCount ==
  ASSUME NEW n \in Nat, NEW K \in SUBSET (1..n), NEW T, NEW kept \in Seq(T), NEW at, NEW val,
         Lists(kept, at, K, val)
  PROVE  Len(kept) = Cardinality(K)
<1> DEFINE D == 1 .. Len(kept)
<1>1. at \in [D -> K]
  BY DEF Lists
<1>2. \A i, j \in D : at[i] = at[j] => i = j
  <2> SUFFICES ASSUME NEW i \in D, NEW j \in D, at[i] = at[j] PROVE i = j
    OBVIOUS
  <2>1. at[i] \in Nat /\ at[j] \in Nat
    <3>1. at[i] \in K /\ at[j] \in K
      BY <1>1
    <3>2. \A k \in K : k \in 1..n
      OBVIOUS
    <3>3. \A k \in 1..n : k \in Nat
      OBVIOUS
    <3> HIDE DEF D
    <3> QED BY <3>1, <3>2, <3>3, Zenon
  <2>2. i < j => at[i] < at[j]
    BY DEF Lists
  <2>3. j < i => at[j] < at[i]
    BY DEF Lists
  <2> QED BY <2>1, <2>2, <2>3
<1>3. \A k \in K : \E i \in D : at[i] = k
  BY DEF Lists
<1>4. at \in Bijection(D, K)
  <2>1. at \in Injection(D, K)
    BY <1>1, <1>2, Zenon DEF Injection, IsInjective
  <2>2. at \in Surjection(D, K)
    BY <1>1, <1>3, Zenon DEF Surjection
  <2> QED BY <2>1, <2>2 DEF Bijection
<1>5. IsFiniteSet(D) /\ Cardinality(D) = Len(kept)
  <2>1. Len(kept) \in Nat
    OBVIOUS
  <2>2. Cardinality(1 .. Len(kept)) = IF 1 > Len(kept) THEN 0 ELSE Len(kept) - 1 + 1
    BY <2>1, FS_Interval
  <2> QED BY <2>1, <2>2, FS_Interval
<1>6. ExistsBijection(D, K)
  BY <1>4 DEF ExistsBijection
<1> QED BY <1>5, <1>6, FS_Bijection

\* Nothing filtered out is everything.
LEMMA AllKept ==
  ASSUME NEW T, NEW rows \in Seq(T), NEW ss, ss = [i \in 1 .. Len(rows) |-> <<rows[i]>>]
  PROVE  FlattenSeq(ss) = rows
<1> DEFINE n == Len(rows)
           Good(j, s) == Len(s) = j /\ \A i \in 1 .. j : s[i] = rows[i]
           G == {g \in Nat \X Seq(T) : Good(g[1], g[2])}
<1>1. ss \in Seq(Seq(T)) /\ Len(ss) = n
  <2>1. \A i \in 1..n : <<rows[i]>> \in Seq(T)
    OBVIOUS
  <2>2. ss \in [1..n -> Seq(T)]
    BY <2>1
  <2> QED BY <2>2
<1>2. <<0, <<>>>> \in G
  <2>1. Good(0, <<>>) /\ <<>> \in Seq(T)
    OBVIOUS
  <2> HIDE DEF Good
  <2> QED BY <2>1
<1>3. ASSUME NEW j \in 1..n, NEW s \in Seq(T), <<j - 1, s>> \in G PROVE <<j, s \o ss[j]>> \in G
  <2>1. ss[j] = <<rows[j]>> /\ rows[j] \in T
    OBVIOUS
  <2>2. Good(j - 1, s)
    <3> HIDE DEF Good
    <3> QED BY <1>3
  <2>3. s \o ss[j] = Append(s, rows[j])
    BY <2>1
  <2>4. Append(s, rows[j]) \in Seq(T) /\ Good(j, Append(s, rows[j]))
    BY <2>1, <2>2
  <2>5. j \in Nat
    OBVIOUS
  <2> HIDE DEF Good
  <2> QED BY <2>3, <2>4, <2>5
<1> HIDE DEF G
<1>4. FlattenSeq(ss) \in Seq(T) /\ <<n, FlattenSeq(ss)>> \in G
  BY <1>1, <1>2, <1>3, FlattenBy
<1>5. Good(n, FlattenSeq(ss))
  <2> HIDE DEF Good
  <2> QED BY <1>4 DEF G
<1>6. \A s \in Seq(T) : Good(n, s) => s = rows
  OBVIOUS
<1> HIDE DEF Good
<1> QED BY <1>4, <1>5, <1>6

-----------------------------------------------------------------------------
(* What an instance may answer, and what a probe may be given.             *)

ProbedSignals ==
  Counting \cup Listing
    \cup {"jobs", "slow_txn", "mid_ecc", "table_growth", "upgrade", "http_probe", "availability"}

ProbeRow ==
  [id : BOOLEAN, failed : BOOLEAN, age : Nat \cup {NoDate}, open : BOOLEAN, priority : STRING,
   up : BOOLEAN, validated : BOOLEAN]

Refusals == Outcomes \ {"ok"}

Counted(answer) ==
  \/ \E n \in Nat : answer = Answer("ok", n)
  \/ \E o \in Refusals : answer = Answer(o, 0)

Served(answer, rows, limit) ==
  \/ answer = Page("ok", rows, limit)
  \/ \E o \in Refusals : answer = Answer(o, <<>>)

\* The lists that are judged by what the instance holds are asked for by page;
\* a page of agents holds them all.
PageLimit(w) ==
  CASE w.signal = "sessions" -> SessionsPage
    [] w.signal = "mid_ecc"  -> Len(w.rows)
    [] w.signal \notin {"sessions", "mid_ecc"} -> RowListLimit

ProbeWorld(w) ==
  /\ w.kind = "probe" /\ w.signal \in ProbedSignals
  /\ Counted(w.count) /\ Counted(w.errorCount)
  /\ \A t \in WatchedTables : Counted(w.tables[t])
  /\ w.rows \in Seq(ProbeRow)
  /\ \E rows \in Seq(ProbeRow), limit \in Nat : Served(w.page, rows, limit)
  /\ \E rows \in Seq(ProbeRow), limit \in Nat : Served(w.errorPage, rows, limit)
  /\ w.signal \in Counting \cup {"sessions", "mid_ecc"} => Served(w.page, w.rows, PageLimit(w))
  /\ w.degradedAt \in Nat /\ w.errorAt \in Nat /\ w.readyAt \in Nat /\ w.rtt \in Nat
  /\ w.hibernating \in BOOLEAN /\ w.token \in BOOLEAN

LEMMA CountRead ==
  ASSUME NEW a, Counted(a)
  PROVE  /\ a.status \in {0, 200, 429, 403, 404, 400}
         /\ ~Unread(a) => FetchAggregateCount(a) = Ok(a.body) /\ a.body \in Nat
         /\ Unread(a) => \E e : FetchAggregateCount(a) = Err(e) /\ (a.status = 429 <=> e = "throttled")
<1>1. CASE \E n \in Nat : a = Answer("ok", n)
  BY <1>1 DEF Answer, StatusOf, Unread, FetchAggregateCount, IsRateLimited
<1>2. CASE \E o \in Refusals : a = Answer(o, 0)
  <2>1. PICK o \in Refusals : a = Answer(o, 0)
    BY <1>2
  <2>2. /\ a.status = StatusOf(o) /\ o \in {"malformed", "silent", "throttled", "denied", "missing", "bad_table"}
        /\ o = "malformed" => a.body = Malformed
    BY <2>1 DEF Answer, Refusals, Outcomes
  <2>3. Unread(a) /\ a.status \in {0, 200, 429, 403, 404, 400}
    BY <2>2 DEF Unread, StatusOf
  <2>4. CASE o = "malformed"
    <3>1. FetchAggregateCount(a) = Err("body") /\ a.status = 200
      BY <2>2, <2>4 DEF StatusOf, FetchAggregateCount, IsRateLimited
    <3> QED BY <2>3, <3>1
  <2>5. CASE o = "silent"
    <3>1. FetchAggregateCount(a) = Err("transport") /\ a.status = 0
      BY <2>2, <2>5 DEF StatusOf, FetchAggregateCount, IsRateLimited
    <3> QED BY <2>3, <3>1
  <2>6. CASE o = "throttled"
    <3>1. FetchAggregateCount(a) = Err("throttled") /\ a.status = 429
      BY <2>2, <2>6 DEF StatusOf, FetchAggregateCount, IsRateLimited
    <3> QED BY <2>3, <3>1
  <2>7. CASE o \in {"denied", "missing", "bad_table"}
    <3>1. FetchAggregateCount(a) = Err("http") /\ a.status # 429
      BY <2>2, <2>7 DEF StatusOf, FetchAggregateCount, IsRateLimited
    <3> QED BY <2>3, <3>1
  <2> QED BY <2>2, <2>4, <2>5, <2>6, <2>7
<1> QED BY <1>1, <1>2 DEF Counted

LEMMA PageRead ==
  ASSUME NEW a, NEW rows, NEW limit, Served(a, rows, limit)
  PROVE  /\ a.status \in {0, 200, 429, 403, 404, 400}
         /\ ~Unread(a) => a = Page("ok", rows, limit) /\ a.body = First(rows, limit)
<1>1. CASE a = Page("ok", rows, limit)
  BY <1>1 DEF Page, Answer, StatusOf
<1>2. CASE \E o \in Refusals : a = Answer(o, <<>>)
  BY <1>2 DEF Answer, StatusOf, Unread, Refusals, Outcomes
<1> QED BY <1>1, <1>2 DEF Served

LEMMA JudgedAs ==
  ASSUME NEW state, NEW counts, NEW shown, NEW truncated, NEW throttled, NEW sample
  PROVE  SnapshotOf(Observation(state, counts, shown, truncated, throttled, sample))
           = [state |-> state, counts |-> counts, shown |-> shown, truncated |-> truncated,
              throttled |-> throttled, sample |-> sample, detail |-> "none"]
BY DEF SnapshotOf, Observation, Ok

LEMMA FailedAs ==
  ASSUME NEW e
  PROVE  /\ SnapshotOf(Err(e)).state = "down" /\ SnapshotOf(Err(e)).detail = e
         /\ ~Err(e).ok
BY DEF SnapshotOf, Err

LEMMA Verdicts == ASSUME NEW n, NEW m PROVE EvaluateGe(n, m) \in {"degraded", "healthy"}
BY DEF EvaluateGe

\* The verdict of a Signal with one count.
LEMMA CountingVerdict ==
  ASSUME NEW a, Counted(a), NEW page, NEW at, NEW sampled
  PROVE  LET row == SnapshotOf(CountingProbe(a, page, at, sampled))
         IN  /\ Unread(a) => row.state = "down" /\ (row.detail = "throttled" <=> a.status = 429)
             /\ ~Unread(a) =>
                  LET list == IF a.body > 0 THEN FetchTableRowsWithThrottle(page) ELSE NoRows
                  IN  /\ row.state = EvaluateGe(a.body, at) /\ row.state \in {"degraded", "healthy"}
                      /\ row.shown = list.rows /\ row.truncated = list.truncated
                      /\ row.throttled = list.throttled
<1>1. CASE Unread(a)
  <2>1. PICK e : FetchAggregateCount(a) = Err(e) /\ (a.status = 429 <=> e = "throttled")
    BY <1>1, CountRead
  <2>2. CountingProbe(a, page, at, sampled) = Err(e)
    BY <2>1, FailedAs DEF CountingProbe
  <2> QED BY <1>1, <2>1, <2>2, FailedAs
<1>2. CASE ~Unread(a)
  <2> DEFINE list == IF a.body > 0 THEN FetchTableRowsWithThrottle(page) ELSE NoRows
  <2>1. FetchAggregateCount(a) = Ok(a.body)
    BY <1>2, CountRead
  <2>2. CountingProbe(a, page, at, sampled)
          = Observation(EvaluateGe(a.body, at), <<a.body>>, list.rows, list.truncated,
                        list.throttled, sampled)
    BY <2>1 DEF CountingProbe, Ok
  <2> HIDE DEF list
  <2> QED BY <1>2, <2>2, JudgedAs, Verdicts DEF list
<1> QED BY <1>1, <1>2

\* The verdict of the Signal with two.
LEMMA JobsVerdict ==
  ASSUME NEW w, Counted(w.count), Counted(w.errorCount)
  PROVE  LET row == SnapshotOf(JobsProbe(w))
         IN  /\ Unread(w.count) =>
                  row.state = "down" /\ (row.detail = "throttled" <=> w.count.status = 429)
             /\ ~Unread(w.count) /\ Unread(w.errorCount) =>
                  row.state = "down" /\ (row.detail = "throttled" <=> w.errorCount.status = 429)
             /\ ~Unread(w.count) /\ ~Unread(w.errorCount) =>
                  /\ row.state = JobsState(w.count.body, w.errorCount.body, w)
                  /\ row.state \in {"degraded", "healthy"}
                  /\ w.count.body > 0 /\ FetchTableRowsWithThrottle(w.page).throttled => row.throttled
                  /\ w.errorCount.body > 0 /\ FetchTableRowsWithThrottle(w.errorPage).throttled =>
                       row.throttled
<1>1. CASE Unread(w.count)
  <2>1. PICK e : FetchAggregateCount(w.count) = Err(e) /\ (w.count.status = 429 <=> e = "throttled")
    BY <1>1, CountRead
  <2>2. ~FetchAggregateCount(w.count).ok
    BY <2>1, FailedAs
  <2>3. JobsProbe(w) = FetchAggregateCount(w.count)
    BY <2>2 DEF JobsProbe
  <2> QED BY <1>1, <2>1, <2>3, FailedAs
<1>2. CASE ~Unread(w.count) /\ Unread(w.errorCount)
  <2>1. PICK e : /\ FetchAggregateCount(w.errorCount) = Err(e)
                 /\ w.errorCount.status = 429 <=> e = "throttled"
    BY <1>2, CountRead
  <2>2. FetchAggregateCount(w.count).ok /\ ~FetchAggregateCount(w.errorCount).ok
    <3>1. FetchAggregateCount(w.count).ok
      BY <1>2, CountRead DEF Ok
    <3> QED BY <2>1, <3>1, FailedAs
  <2>3. JobsProbe(w) = FetchAggregateCount(w.errorCount)
    BY <2>2 DEF JobsProbe
  <2> QED BY <1>2, <2>1, <2>3, FailedAs
<1>3. CASE ~Unread(w.count) /\ ~Unread(w.errorCount)
  <2> DEFINE overdue == FetchAggregateCount(w.count)
             error   == FetchAggregateCount(w.errorCount)
  <2>1. overdue.ok /\ overdue.value = w.count.body /\ error.ok /\ error.value = w.errorCount.body
    BY <1>3, CountRead DEF Ok
  <2>2. /\ SnapshotOf(JobsProbe(w)).state = JobsState(overdue.value, error.value, w)
        /\ overdue.value > 0 /\ FetchTableRowsWithThrottle(w.page).throttled
             => SnapshotOf(JobsProbe(w)).throttled
        /\ error.value > 0 /\ FetchTableRowsWithThrottle(w.errorPage).throttled
             => SnapshotOf(JobsProbe(w)).throttled
    BY <2>1 DEF JobsProbe, SnapshotOf, Observation, Ok
  <2>3. JobsState(w.count.body, w.errorCount.body, w) \in {"degraded", "healthy"}
    BY DEF JobsState
  <2> HIDE DEF overdue, error
  <2> QED BY <1>3, <2>1, <2>2, <2>3
<1> QED BY <1>1, <1>2, <1>3

\* A count, a list, a page of rows: whether it was read.
LEMMA Reads ==
  /\ \A a : Counted(a) => (FetchAggregateCount(a).ok <=> ~Unread(a))
  /\ \A a : /\ FetchList(a).ok <=> a.status = 200
            /\ a.status = 200 => FetchList(a).value = a.body
  /\ \A body : /\ ParseResultArrayRequired(body).ok <=> body # Malformed
               /\ body # Malformed => ParseResultArrayRequired(body).value = body
<1>1. \A a : Counted(a) => (FetchAggregateCount(a).ok <=> ~Unread(a))
  <2> SUFFICES ASSUME NEW a, Counted(a) PROVE FetchAggregateCount(a).ok <=> ~Unread(a)
    OBVIOUS
  <2>1. CASE Unread(a)
    BY <2>1, CountRead, FailedAs
  <2>2. CASE ~Unread(a)
    BY <2>2, CountRead DEF Ok
  <2> QED BY <2>1, <2>2
<1>2. ASSUME NEW a PROVE (FetchList(a).ok <=> a.status = 200) /\ (a.status = 200 => FetchList(a).value = a.body)
  BY DEF FetchList, Ok, Err
<1>3. ASSUME NEW body
      PROVE  /\ ParseResultArrayRequired(body).ok <=> body # Malformed
             /\ body # Malformed => ParseResultArrayRequired(body).value = body
  BY DEF ParseResultArrayRequired, Ok, Err
<1> QED BY <1>1, <1>2, <1>3

LEMMA Down == ASSUME NEW observed, ~observed.ok PROVE SnapshotOf(observed).state = "down"
BY DEF SnapshotOf

LEMMA SessionsVerdict == ASSUME NEW w PROVE SnapshotOf(SessionsProbe(w)).state = "down" <=> Unread(w.page)
<1>1. CASE w.page.status # 200
  <2>1. SessionsProbe(w) = FetchList(w.page)
    BY <1>1, Reads DEF SessionsProbe
  <2> QED BY <1>1, <2>1, Down, Reads DEF Unread
<1>2. CASE w.page.status = 200 /\ w.page.body = Malformed
  <2>1. SessionsProbe(w) = ParseResultArrayRequired(w.page.body)
    BY <1>2, Reads DEF SessionsProbe
  <2> QED BY <1>2, <2>1, Down, Reads DEF Unread
<1>3. CASE ~Unread(w.page)
  <2>1. FetchList(w.page).ok /\ ParseResultArrayRequired(FetchList(w.page).value).ok
    BY <1>3, Reads DEF Unread
  <2>2. SnapshotOf(SessionsProbe(w)).state = "healthy"
    BY <2>1 DEF SessionsProbe, SnapshotOf, Observation, Ok
  <2> QED BY <1>3, <2>2
<1> QED BY <1>1, <1>2, <1>3 DEF Unread

LEMMA ActionsVerdict ==
  ASSUME NEW w, w.token \in BOOLEAN
  PROVE  SnapshotOf(ActionsProbe(w)).state = "down" <=> Unread(w.page) \/ ~w.token
<1>0. CASE ~w.token
  <2>1. ActionsProbe(w) = Err("credential")
    BY <1>0 DEF ActionsProbe
  <2> QED BY <1>0, <2>1, FailedAs
<1>1. CASE w.token /\ w.page.status # 200
  <2>1. ActionsProbe(w) = FetchList(w.page)
    BY <1>1, Reads DEF ActionsProbe
  <2> QED BY <1>1, <2>1, Down, Reads DEF Unread
<1>2. CASE w.token /\ w.page.status = 200 /\ w.page.body = Malformed
  <2>1. ActionsProbe(w) = ParseResultArrayRequired(w.page.body)
    BY <1>2, Reads DEF ActionsProbe
  <2> QED BY <1>2, <2>1, Down, Reads DEF Unread
<1>3. CASE w.token /\ ~Unread(w.page)
  <2>1. FetchList(w.page).ok /\ ParseResultArrayRequired(FetchList(w.page).value).ok
    BY <1>3, Reads DEF Unread
  <2>2. SnapshotOf(ActionsProbe(w)).state \in {"healthy", "degraded"}
    BY <1>3, <2>1 DEF ActionsProbe, SnapshotOf, Observation, Ok, EvaluateGe
  <2> QED BY <1>3, <2>2
<1> QED BY <1>0, <1>1, <1>2, <1>3 DEF Unread

LEMMA UpdateSetsVerdict ==
  ASSUME NEW w, w.page.status \in {0, 200, 429, 403, 404, 400}
  PROVE  SnapshotOf(UpdateSetsProbe(w)).state = "down" <=> Unread(w.page)
<1>1. CASE Unread(w.page)
  <2>1. ~FetchTableRowsRequired(w.page).ok
    <3>1. CASE w.page.status = 200
      BY <1>1, <3>1, Reads DEF FetchTableRowsRequired, IsRateLimited, Unread
    <3>2. CASE w.page.status # 200
      BY <3>2 DEF FetchTableRowsRequired, IsRateLimited, Err
    <3> QED BY <3>1, <3>2
  <2>2. UpdateSetsProbe(w) = FetchTableRowsRequired(w.page)
    BY <2>1 DEF UpdateSetsProbe
  <2> QED BY <1>1, <2>1, <2>2, Down
<1>2. CASE ~Unread(w.page)
  <2>1. FetchTableRowsRequired(w.page).ok
    BY <1>2, Reads DEF FetchTableRowsRequired, IsRateLimited, Unread, Ok
  <2>2. SnapshotOf(UpdateSetsProbe(w)).state \in {"healthy", "degraded"}
    BY <2>1 DEF UpdateSetsProbe, SnapshotOf, Observation, Ok, EvaluateGe
  <2> QED BY <1>2, <2>2
<1> QED BY <1>1, <1>2

LEMMA ScanVerdict ==
  ASSUME NEW w
  PROVE  SnapshotOf(ScanProbe(w)).state = "down"
           <=> Unread(w.page) /\ w.page.status \notin {400, 404}
<1>1. CASE w.page.status \in {400, 404}
  <2>1. FetchFindings(w.page).ok
    BY <1>1 DEF FetchFindings, Ok
  <2>2. SnapshotOf(ScanProbe(w)).state = "skipped"
    BY <1>1, <2>1 DEF ScanProbe, SnapshotOf, Observation, Ok
  <2> QED BY <1>1, <2>2
<1>2. CASE Unread(w.page) /\ w.page.status \notin {400, 404}
  <2>1. ~FetchFindings(w.page).ok
    <3>1. CASE w.page.status # 200
      <4>1. FetchFindings(w.page) = FetchList(w.page)
        BY <1>2, <3>1, Reads DEF FetchFindings
      <4> QED BY <3>1, <4>1, Reads
    <3>2. CASE w.page.status = 200
      <4>1. w.page.body = Malformed
        BY <1>2, <3>2 DEF Unread
      <4>2. FetchFindings(w.page) = ParseResultArrayRequired(w.page.body)
        BY <3>2, <4>1, Reads DEF FetchFindings
      <4> QED BY <4>1, <4>2, Reads
    <3> QED BY <3>1, <3>2
  <2>2. ScanProbe(w) = FetchFindings(w.page)
    BY <2>1 DEF ScanProbe
  <2> QED BY <1>2, <2>1, <2>2, Down
<1>3. CASE ~Unread(w.page)
  <2>1. FetchFindings(w.page).ok
    BY <1>3, Reads DEF FetchFindings, Unread, Ok
  <2>2. SnapshotOf(ScanProbe(w)).state \in {"healthy", "degraded", "skipped"}
    BY <2>1 DEF ScanProbe, SnapshotOf, Observation, Ok, EvaluateGe
  <2> QED BY <1>3, <2>2
<1> QED BY <1>1, <1>2, <1>3

LEMMA UpgradeVerdict ==
  ASSUME NEW w PROVE SnapshotOf(UpgradeProbe(w)).state = "down" <=> w.page.status # 200
<1>1. CASE w.page.status # 200
  <2>1. UpgradeProbe(w) = FetchList(w.page)
    BY <1>1, Reads DEF UpgradeProbe
  <2> QED BY <1>1, <2>1, Down, Reads
<1>2. CASE w.page.status = 200
  <2>1. FetchList(w.page).ok
    BY <1>2, Reads
  <2>2. SnapshotOf(UpgradeProbe(w)).state \in {"healthy", "degraded"}
    BY <2>1 DEF UpgradeProbe, SnapshotOf, Observation, Ok, EvaluateGe
  <2> QED BY <1>2, <2>2
<1> QED BY <1>1, <1>2

LEMMA AgentsVerdict ==
  ASSUME NEW w, Counted(w.count), Counted(w.errorCount)
  PROVE  SnapshotOf(MidEccProbe(w)).state = "down"
           <=> Unread(w.count) \/ Unread(w.errorCount) \/ Unread(w.page)
<1> DEFINE list == FetchList(w.page)
<1>1. CASE w.page.status # 200
  <2>1. MidEccProbe(w) = list
    BY <1>1, Reads DEF MidEccProbe
  <2> QED BY <1>1, <2>1, Down, Reads DEF Unread
<1>2. CASE w.page.status = 200
  <2>1. list.ok /\ list.value = w.page.body
    BY <1>2, Reads
  <2>2. CASE w.page.body = Malformed
    <3>1. ~ClassifyMidAgents(list.value).ok
      BY <2>1, <2>2 DEF ClassifyMidAgents, Err
    <3>2. MidEccProbe(w) = ClassifyMidAgents(list.value)
      BY <2>1, <3>1 DEF MidEccProbe
    <3> QED BY <2>2, <3>1, <3>2, Down DEF Unread
  <2>3. CASE w.page.body # Malformed
    <3>1. ClassifyMidAgents(list.value).ok
      BY <2>1, <2>3 DEF ClassifyMidAgents, Ok
    <3>2. ~Unread(w.page)
      BY <1>2, <2>3 DEF Unread
    <3>3. CASE Unread(w.count)
      <4>1. MidEccProbe(w) = FetchAggregateCount(w.count) /\ ~FetchAggregateCount(w.count).ok
        BY <2>1, <3>1, <3>3, Reads DEF MidEccProbe
      <4> QED BY <3>3, <4>1, Down
    <3>4. CASE ~Unread(w.count) /\ Unread(w.errorCount)
      <4>1. MidEccProbe(w) = FetchAggregateCount(w.errorCount) /\ ~FetchAggregateCount(w.errorCount).ok
        BY <2>1, <3>1, <3>4, Reads DEF MidEccProbe
      <4> QED BY <3>4, <4>1, Down
    <3>5. CASE ~Unread(w.count) /\ ~Unread(w.errorCount)
      <4>1. FetchAggregateCount(w.count).ok /\ FetchAggregateCount(w.errorCount).ok
        BY <3>5, Reads
      <4>2. SnapshotOf(MidEccProbe(w)).state \in {"healthy", "degraded"}
        BY <2>1, <3>1, <4>1 DEF MidEccProbe, SnapshotOf, Observation, Ok, MidEccState
      <4> QED BY <3>2, <3>5, <4>2
    <3> QED BY <3>3, <3>4, <3>5
  <2> QED BY <2>2, <2>3
<1> QED BY <1>1, <1>2

LEMMA SlowVerdict ==
  ASSUME NEW w, Counted(w.count)
  PROVE  /\ SnapshotOf(TransactionProbe(w)).state = "down" <=> Unread(w.count)
         /\ ~Unread(w.count) =>
              SnapshotOf(TransactionProbe(w)).state = EvaluateGe(w.count.body, w.degradedAt)
<1>1. CASE Unread(w.count)
  <2>1. TransactionProbe(w) = FetchAggregateAvg(w.count) /\ ~FetchAggregateAvg(w.count).ok
    BY <1>1, Reads DEF TransactionProbe, FetchAggregateAvg
  <2> QED BY <1>1, <2>1, Down
<1>2. CASE ~Unread(w.count)
  <2>1. FetchAggregateAvg(w.count).ok /\ FetchAggregateAvg(w.count).value = w.count.body
    BY <1>2, CountRead DEF FetchAggregateAvg, Ok
  <2>2. SnapshotOf(TransactionProbe(w)).state = EvaluateGe(FetchAggregateAvg(w.count).value, w.degradedAt)
    BY <2>1 DEF TransactionProbe, SnapshotOf, Observation, Ok
  <2> QED BY <1>2, <2>1, <2>2, Verdicts
<1> QED BY <1>1, <1>2

LEMMA GrowthVerdict ==
  ASSUME NEW w, \A t \in WatchedTables : Counted(w.tables[t])
  PROVE  SnapshotOf(TableGrowthProbe(w)).state = "down" <=> \A t \in WatchedTables : Unread(w.tables[t])
<1>1. \A t \in WatchedTables : FetchAggregateCount(w.tables[t]).ok <=> ~Unread(w.tables[t])
  BY Reads
<1>2. CASE \A t \in WatchedTables : Unread(w.tables[t])
  <2>1. TableGrowthProbe(w) = Err("all")
    BY <1>1, <1>2 DEF TableGrowthProbe
  <2> QED BY <1>2, <2>1, FailedAs
<1>3. CASE \E t \in WatchedTables : ~Unread(w.tables[t])
  <2>1. SnapshotOf(TableGrowthProbe(w)).state = "healthy"
    BY <1>1, <1>3 DEF TableGrowthProbe, SnapshotOf, Observation, Ok
  <2> QED BY <1>3, <2>1
<1> QED BY <1>2, <1>3

LEMMA HttpVerdict ==
  ASSUME NEW w, w.page.status \in {0, 200, 429, 403, 404, 400}
  PROVE  SnapshotOf(HttpProbe(w)).state = "down" <=> w.page.status \notin 200..399
<1>1. CASE w.page.status = 0
  <2>1. HttpProbe(w) = Err("transport")
    BY <1>1 DEF HttpProbe
  <2> QED BY <1>1, <2>1, FailedAs
<1>2. CASE w.page.status # 0
  <2>1. SnapshotOf(HttpProbe(w)).state
          = IF w.page.status \in 200..399 THEN EvaluateGe(w.rtt, w.degradedAt) ELSE "down"
    BY <1>2 DEF HttpProbe, SnapshotOf, Observation, Ok, HttpProbeState
  <2> QED BY <2>1, Verdicts
<1> QED BY <1>1, <1>2

LEMMA AvailabilityVerdict ==
  ASSUME NEW w, w.hibernating \in BOOLEAN
  PROVE  SnapshotOf(AvailabilityProbe(w)).state = "down"
           <=> Unread(w.page) /\ ~(w.page.status # 0 /\ w.hibernating)
<1>1. SnapshotOf(AvailabilityProbe(w)).state
        = ApplyRttThreshold(ClassifyAvailability(w), w.rtt, w.degradedAt).state
  BY DEF AvailabilityProbe, SnapshotOf, Observation, Ok
<1>2. CASE w.page.status = 0
  BY <1>1, <1>2 DEF ApplyRttThreshold, ClassifyAvailability, Unread
<1>3. CASE w.page.status # 0 /\ w.hibernating
  BY <1>1, <1>3 DEF ApplyRttThreshold, ClassifyAvailability
<1>4. CASE ~Unread(w.page) /\ ~w.hibernating
  BY <1>1, <1>4 DEF ApplyRttThreshold, ClassifyAvailability, Unread
<1>5. CASE w.page.status # 0 /\ ~w.hibernating /\ Unread(w.page)
  BY <1>1, <1>5 DEF ApplyRttThreshold, ClassifyAvailability, Unread
<1> QED BY <1>2, <1>3, <1>4, <1>5 DEF Unread

LEMMA StatusesRead ==
  ASSUME NEW w, ProbeWorld(w)
  PROVE  /\ w.page.status \in {0, 200, 429, 403, 404, 400}
         /\ w.errorPage.status \in {0, 200, 429, 403, 404, 400}
<1>1. PICK rows \in Seq(ProbeRow), limit \in Nat : Served(w.page, rows, limit)
  BY DEF ProbeWorld
<1>2. PICK others \in Seq(ProbeRow), most \in Nat : Served(w.errorPage, others, most)
  BY DEF ProbeWorld
<1> QED BY <1>1, <1>2, PageRead

LEMMA UnreadableHolds ==
  ASSUME ProbeWorld(input), result = SnapshotOf(ProbeOf(input))
  PROVE  UnreadableIsDown
<1> DEFINE w == input
           s == input.signal
           unread == VerdictUnread(w) \/ (s = "actions" /\ ~w.token)
<1>1. /\ s \in ProbedSignals /\ Counted(w.count) /\ Counted(w.errorCount)
      /\ \A t \in WatchedTables : Counted(w.tables[t])
      /\ w.page.status \in {0, 200, 429, 403, 404, 400}
      /\ w.hibernating \in BOOLEAN /\ w.token \in BOOLEAN
  BY StatusesRead DEF ProbeWorld
<1> SUFFICES SnapshotOf(ProbeOf(w)).state = "down" <=> unread
  BY DEF UnreadableIsDown
<1> HIDE DEF w
<1>2. CASE s \in Counting
  <2>1. /\ unread <=> Unread(w.count)
        /\ ProbeOf(w) \in {CountingProbe(w.count, w.page, w.degradedAt, TRUE),
                           CountingProbe(w.count, w.page, w.degradedAt, FALSE)}
    BY <1>2 DEF Counting, Listing, VerdictUnread, ProbeOf, SyslogProbe, OutboundProbe, FlowProbe, EmailProbe, w
  <2>2. PICK b \in BOOLEAN : ProbeOf(w) = CountingProbe(w.count, w.page, w.degradedAt, b)
    BY <2>1
  <2>3. SnapshotOf(CountingProbe(w.count, w.page, w.degradedAt, b)).state = "down" <=> Unread(w.count)
    BY <1>1, CountingVerdict
  <2> HIDE DEF unread
  <2> QED BY <2>1, <2>2, <2>3
<1>3. CASE s = "slow_txn"
  <2>1. (unread <=> Unread(w.count)) /\ ProbeOf(w) = TransactionProbe(w)
    BY <1>3 DEF Counting, Listing, VerdictUnread, ProbeOf, w
  <2> QED BY <1>1, <2>1, SlowVerdict
<1>4. CASE s = "jobs"
  <2>1. (unread <=> Unread(w.count) \/ Unread(w.errorCount)) /\ ProbeOf(w) = JobsProbe(w)
    BY <1>4 DEF Counting, Listing, VerdictUnread, ProbeOf, w
  <2> QED BY <1>1, <2>1, JobsVerdict
<1>5. CASE s = "mid_ecc"
  <2>1. /\ unread <=> Unread(w.count) \/ Unread(w.errorCount) \/ Unread(w.page)
        /\ ProbeOf(w) = MidEccProbe(w)
    BY <1>5 DEF Counting, Listing, VerdictUnread, ProbeOf, w
  <2> QED BY <1>1, <2>1, AgentsVerdict
<1>6. CASE s = "table_growth"
  <2>1. /\ unread <=> \A t \in WatchedTables : Unread(w.tables[t])
        /\ ProbeOf(w) = TableGrowthProbe(w)
    BY <1>6 DEF Counting, Listing, VerdictUnread, ProbeOf, w
  <2> QED BY <1>1, <2>1, GrowthVerdict
<1>7. CASE s = "scan"
  <2>1. /\ unread <=> Unread(w.page) /\ w.page.status \notin {400, 404}
        /\ ProbeOf(w) = ScanProbe(w)
    BY <1>7 DEF Counting, Listing, VerdictUnread, ProbeOf, w
  <2> QED BY <2>1, ScanVerdict
<1>8. CASE s \in {"sessions", "update_sets"}
  <2>1. /\ unread <=> Unread(w.page)
        /\ ProbeOf(w) = IF s = "sessions" THEN SessionsProbe(w) ELSE UpdateSetsProbe(w)
    BY <1>8 DEF Counting, Listing, VerdictUnread, ProbeOf, w
  <2> QED BY <1>1, <2>1, SessionsVerdict, UpdateSetsVerdict
<1>9. CASE s = "actions"
  <2>1. /\ unread <=> Unread(w.page) \/ ~w.token
        /\ ProbeOf(w) = ActionsProbe(w)
    BY <1>9 DEF Counting, Listing, VerdictUnread, ProbeOf, w
  <2> QED BY <1>1, <2>1, ActionsVerdict
<1>10. CASE s = "upgrade"
  <2>1. (unread <=> w.page.status # 200) /\ ProbeOf(w) = UpgradeProbe(w)
    BY <1>10 DEF Counting, Listing, VerdictUnread, ProbeOf, w
  <2> QED BY <2>1, UpgradeVerdict
<1>11. CASE s = "http_probe"
  <2>1. (unread <=> w.page.status \notin 200..399) /\ ProbeOf(w) = HttpProbe(w)
    BY <1>11 DEF Counting, Listing, VerdictUnread, ProbeOf, w
  <2> QED BY <1>1, <2>1, HttpVerdict
<1>12. CASE s = "availability"
  <2>1. /\ unread <=> Unread(w.page) /\ ~(w.page.status # 0 /\ w.hibernating)
        /\ ProbeOf(w) = AvailabilityProbe(w)
    BY <1>12 DEF Counting, Listing, VerdictUnread, ProbeOf, w
  <2> QED BY <1>1, <2>1, AvailabilityVerdict
<1>13. s \in Counting \cup {"slow_txn", "jobs", "mid_ecc", "table_growth", "scan", "sessions",
                            "update_sets", "actions", "upgrade", "http_probe", "availability"}
  BY <1>1 DEF ProbedSignals, Listing
<1> QED BY <1>2, <1>3, <1>4, <1>5, <1>6, <1>7, <1>8, <1>9, <1>10, <1>11, <1>12, <1>13

LEMMA RowsHold ==
  ASSUME ProbeWorld(input), result = SnapshotOf(ProbeOf(input))
  PROVE  RowsNeverVote
<1> DEFINE w == input
           quiet == Answer("silent", <<>>)
           blind == [w EXCEPT !.page = quiet, !.errorPage = quiet]
<1> SUFFICES ASSUME w.signal \in Counting \cup {"jobs", "slow_txn"}
             PROVE  SnapshotOf(ProbeOf(w)).state = SnapshotOf(ProbeOf(blind)).state
  BY DEF RowsNeverVote
<1>1. Counted(w.count) /\ Counted(w.errorCount)
  BY DEF ProbeWorld
<1>2. /\ blind.signal = w.signal /\ blind.count = w.count /\ blind.errorCount = w.errorCount
      /\ blind.degradedAt = w.degradedAt /\ blind.errorAt = w.errorAt
  OBVIOUS
<1> HIDE DEF w, blind
<1>3. CASE w.signal \in Counting
  <2>1. /\ \E b \in BOOLEAN : ProbeOf(w) = CountingProbe(w.count, w.page, w.degradedAt, b)
        /\ \E b \in BOOLEAN : ProbeOf(blind) = CountingProbe(w.count, blind.page, w.degradedAt, b)
    BY <1>2, <1>3 DEF Counting, ProbeOf, SyslogProbe, OutboundProbe, FlowProbe, EmailProbe
  <2> QED BY <1>1, <2>1, CountingVerdict
<1>4. CASE w.signal = "jobs"
  <2>1. ProbeOf(w) = JobsProbe(w) /\ ProbeOf(blind) = JobsProbe(blind)
    BY <1>2, <1>4 DEF ProbeOf
  <2>2. JobsState(w.count.body, w.errorCount.body, w) = JobsState(w.count.body, w.errorCount.body, blind)
    BY <1>2 DEF JobsState
  <2> QED BY <1>1, <1>2, <2>1, <2>2, JobsVerdict
<1>5. CASE w.signal = "slow_txn"
  <2>1. ProbeOf(w) = TransactionProbe(w) /\ ProbeOf(blind) = TransactionProbe(blind)
    BY <1>2, <1>5 DEF ProbeOf
  <2> QED BY <1>1, <1>2, <2>1, SlowVerdict
<1> QED BY <1>3, <1>4, <1>5

\* A counting Signal's rows, when its page was rate-limited, or was read.
LEMMA ThrottledRead ==
  ASSUME NEW a, a.status = 429
  PROVE  FetchTableRowsWithThrottle(a).throttled
<1>1. FetchTableRowsWithThrottle(a) = [NoRows EXCEPT !.throttled = TRUE]
  BY DEF FetchTableRowsWithThrottle, IsRateLimited
<1> QED BY <1>1 DEF NoRows

LEMMA TableRead ==
  ASSUME NEW a, a.status = 200
  PROVE  LET kept == TakeBounded(Identified(ParseResultArray(a.body)))
         IN  /\ FetchTableRowsWithThrottle(a).rows = kept.rows
             /\ FetchTableRowsWithThrottle(a).truncated = kept.truncated
BY DEF FetchTableRowsWithThrottle, IsRateLimited

LEMMA ThrottlingHolds ==
  ASSUME ProbeWorld(input), result = SnapshotOf(ProbeOf(input))
  PROVE  ThrottlingIsVisible
<1> DEFINE w == input
           asked(count, page) ==
             \/ count.status = 429
             \/ ~Unread(count) /\ count.body > 0 /\ page.status = 429
           first == w.signal \in Counting \/ ~Unread(w.errorCount)
           said  == result.throttled \/ result.detail = "throttled"
<1> SUFFICES ASSUME w.signal \in Counting \cup {"jobs"}
             PROVE  /\ asked(w.count, w.page) /\ first => said
                    /\ w.signal = "jobs" /\ ~Unread(w.count) /\ asked(w.errorCount, w.errorPage) => said
  BY DEF ThrottlingIsVisible
<1>1. /\ Counted(w.count) /\ Counted(w.errorCount)
      /\ w.page.status \in {0, 200, 429, 403, 404, 400}
      /\ w.errorPage.status \in {0, 200, 429, 403, 404, 400}
  <2>1. Counted(w.count) /\ Counted(w.errorCount)
    BY DEF ProbeWorld
  <2> QED BY <2>1, StatusesRead
<1>2. /\ w.count.status = 429 => Unread(w.count)
      /\ w.errorCount.status = 429 => Unread(w.errorCount)
  BY DEF Unread
<1>3. CASE w.signal \in Counting
  <2>1. \E b \in BOOLEAN : ProbeOf(w) = CountingProbe(w.count, w.page, w.degradedAt, b)
    BY <1>3 DEF Counting, ProbeOf, SyslogProbe, OutboundProbe, FlowProbe, EmailProbe
  <2>2. asked(w.count, w.page) => said
    <3>1. CASE Unread(w.count)
      BY <1>1, <2>1, <3>1, CountingVerdict
    <3>2. CASE ~Unread(w.count) /\ w.count.body > 0 /\ w.page.status = 429
      <4>1. FetchTableRowsWithThrottle(w.page).throttled
        BY <3>2, ThrottledRead
      <4>2. result.throttled = FetchTableRowsWithThrottle(w.page).throttled
        BY <1>1, <2>1, <3>2, CountingVerdict
      <4> QED BY <4>1, <4>2
    <3> QED BY <1>2, <3>1, <3>2
  <2>3. w.signal # "jobs"
    BY <1>3 DEF Counting
  <2> QED BY <2>2, <2>3
<1>4. CASE w.signal = "jobs"
  <2>1. ProbeOf(w) = JobsProbe(w)
    BY <1>4 DEF ProbeOf
  <2>2. w.signal \notin Counting
    BY <1>4 DEF Counting
  <2>3. asked(w.count, w.page) /\ ~Unread(w.errorCount) => said
    <3>1. CASE Unread(w.count)
      BY <1>1, <2>1, <3>1, JobsVerdict
    <3>2. CASE ~Unread(w.count) /\ ~Unread(w.errorCount) /\ w.count.body > 0 /\ w.page.status = 429
      <4>1. FetchTableRowsWithThrottle(w.page).throttled
        BY <3>2, ThrottledRead
      <4>2. result.throttled
        BY <1>1, <2>1, <3>2, <4>1, JobsVerdict
      <4> QED BY <4>2
    <3> QED BY <1>2, <3>1, <3>2
  <2>4. ~Unread(w.count) /\ asked(w.errorCount, w.errorPage) => said
    <3>1. CASE ~Unread(w.count) /\ Unread(w.errorCount)
      BY <1>1, <2>1, <3>1, JobsVerdict
    <3>2. CASE ~Unread(w.count) /\ ~Unread(w.errorCount) /\ w.errorCount.body > 0 /\ w.errorPage.status = 429
      <4>1. FetchTableRowsWithThrottle(w.errorPage).throttled
        BY <3>2, ThrottledRead
      <4>2. result.throttled
        BY <1>1, <2>1, <3>2, <4>1, JobsVerdict
      <4> QED BY <4>2
    <3> QED BY <1>2, <3>1, <3>2
  <2> HIDE DEF said, asked
  <2> QED BY <2>2, <2>3, <2>4
<1> QED BY <1>3, <1>4

LEMMA FirstOf ==
  ASSUME NEW T, NEW rows \in Seq(T), NEW n \in Nat
  PROVE  /\ First(rows, n) \in Seq(T)
         /\ Len(First(rows, n)) = IF Len(rows) < n THEN Len(rows) ELSE n
         /\ Len(rows) <= n => First(rows, n) = rows
<1>1. CASE Len(rows) < n
  <2>1. First(rows, n) = SubSeq(rows, 1, Len(rows))
    BY <1>1 DEF First
  <2>2. SubSeq(rows, 1, Len(rows)) = rows
    OBVIOUS
  <2> QED BY <1>1, <2>1, <2>2
<1>2. CASE ~(Len(rows) < n)
  <2>1. First(rows, n) = SubSeq(rows, 1, n)
    BY <1>2 DEF First
  <2>2. Len(rows) = n => SubSeq(rows, 1, n) = rows
    OBVIOUS
  <2>3. SubSeq(rows, 1, n) \in Seq(T) /\ Len(SubSeq(rows, 1, n)) = n
    <3>1. n <= Len(rows) /\ Len(rows) \in Nat
      BY <1>2
    <3> QED BY <3>1
  <2> QED BY <1>2, <2>1, <2>2, <2>3
<1> QED BY <1>1, <1>2

LEMMA AllIdentified ==
  ASSUME NEW rows \in Seq(ProbeRow), \A i \in DOMAIN rows : rows[i].id
  PROVE  Identified(rows) = rows
<1> DEFINE ss == [i \in DOMAIN rows |-> IF rows[i].id THEN <<rows[i]>> ELSE <<>>]
<1>1. DOMAIN rows = 1 .. Len(rows)
  OBVIOUS
<1>2. ss = [i \in 1 .. Len(rows) |-> <<rows[i]>>]
  BY <1>1
<1>3. Identified(rows) = FlattenSeq(ss)
  BY DEF Identified
<1> HIDE DEF ss
<1> QED BY <1>2, <1>3, AllKept

LEMMA UnhealthyCount ==
  ASSUME NEW rows \in Seq(ProbeRow)
  PROVE  /\ Unhealthy(rows) \in Seq(ProbeRow)
         /\ Len(Unhealthy(rows))
              = Cardinality({i \in DOMAIN rows : ~(rows[i].up /\ rows[i].validated)})
<1> DEFINE n == Len(rows)
           K == {i \in DOMAIN rows : ~(rows[i].up /\ rows[i].validated)}
           ss == [i \in DOMAIN rows |-> IF MidAgentHealthy(rows[i]) THEN <<>> ELSE <<rows[i]>>]
<1>1. n \in Nat /\ DOMAIN rows = 1..n /\ rows \in [1..n -> ProbeRow] /\ K \in SUBSET (1..n)
  OBVIOUS
<1>2. ss = [i \in 1..n |-> IF i \in K THEN <<rows[i]>> ELSE <<>>]
  BY <1>1 DEF MidAgentHealthy
<1>3. Unhealthy(rows) = FlattenSeq(ss)
  BY DEF Unhealthy
<1> HIDE DEF ss, K, n
<1>4. FlattenSeq(ss) \in Seq(ProbeRow) /\ \E at : Lists(FlattenSeq(ss), at, K, rows)
  BY <1>1, <1>2, Filtered
<1>5. Len(FlattenSeq(ss)) = Cardinality(K)
  BY <1>1, <1>4, KeptCount
<1> QED BY <1>3, <1>4, <1>5 DEF K

\* A page of rows that were all identified, and was not full, is shown whole.
LEMMA ShownWhole ==
  ASSUME NEW rows \in Seq(ProbeRow), \A i \in DOMAIN rows : rows[i].id,
         ~TakeBounded(Identified(rows)).truncated
  PROVE  TakeBounded(Identified(rows)).rows = rows /\ Len(rows) < RowListLimit
<1>1. Identified(rows) = rows
  BY AllIdentified
<1>2. TakeBounded(rows).rows = First(rows, RowListLimit)
  BY DEF TakeBounded
<1>3. TakeBounded(rows).truncated <=> Len(rows) >= RowListLimit
  BY DEF TakeBounded
<1>4. ~(Len(rows) >= RowListLimit)
  BY <1>1, <1>3
<1>5. Len(rows) < RowListLimit
  BY <1>4, ProbesAssumption
<1> QED BY <1>1, <1>2, <1>5, FirstOf, ProbesAssumption

LEMMA NotCut ==
  ASSUME NEW rows \in Seq(ProbeRow), NEW n \in Nat, Len(First(rows, n)) < n
  PROVE  First(rows, n) = rows
BY FirstOf

LEMMA PartialHolds ==
  ASSUME ProbeWorld(input), result = SnapshotOf(ProbeOf(input))
  PROVE  PartialListsAreMarked
<1> DEFINE w == input
           s == input.signal
           page == First(w.rows, PageLimit(w))
<1> SUFFICES ASSUME s \in Counting \cup {"sessions", "mid_ecc"},
                    \A i \in DOMAIN w.rows : w.rows[i].id,
                    ~Unread(w.page), result.state # "down", ~result.truncated,
                    ~(s \in Counting /\ w.count.body = 0)
             PROVE  \/ s # "mid_ecc" /\ result.shown = w.rows
                    \/ /\ s = "mid_ecc"
                       /\ Len(result.shown)
                            = Cardinality({i \in DOMAIN w.rows : ~(w.rows[i].up /\ w.rows[i].validated)})
  BY DEF PartialListsAreMarked
<1>1. /\ Counted(w.count) /\ Counted(w.errorCount) /\ w.rows \in Seq(ProbeRow)
      /\ w.page.body = page /\ w.page.status = 200 /\ w.page.body # Malformed
  <2>1. Served(w.page, w.rows, PageLimit(w))
    BY DEF ProbeWorld
  <2>2. w.page = Page("ok", w.rows, PageLimit(w)) /\ w.page.body = page
    BY <2>1, PageRead
  <2> QED BY <2>2 DEF ProbeWorld, Unread
<1>2. /\ ParseResultArray(w.page.body) = page
      /\ RowListLimit \in Nat \ {0} /\ SessionsPage \in Nat \ {0}
  BY <1>1, ProbesAssumption DEF ParseResultArray
<1>3. PageLimit(w) \in Nat
  BY <1>1, <1>2 DEF PageLimit
<1>4. page \in Seq(ProbeRow) /\ \A i \in DOMAIN page : page[i].id
  <2>1. DOMAIN page \subseteq DOMAIN w.rows /\ \A i \in DOMAIN page : page[i] = w.rows[i]
    BY <1>1, <1>3 DEF First
  <2> QED BY <1>1, <1>3, <2>1, FirstOf
<1> HIDE DEF page
<1>5. CASE s \in Counting
  <2>1. PICK b \in BOOLEAN : ProbeOf(w) = CountingProbe(w.count, w.page, w.degradedAt, b)
    BY <1>5 DEF Counting, ProbeOf, SyslogProbe, OutboundProbe, FlowProbe, EmailProbe
  <2>2. ~Unread(w.count)
    BY <1>1, <2>1, CountingVerdict
  <2>3. w.count.body > 0
    <3>1. w.count.body \in Nat
      BY <1>1, <2>2, CountRead
    <3> QED BY <1>5, <3>1
  <2>4. /\ result.shown = FetchTableRowsWithThrottle(w.page).rows
        /\ result.truncated = FetchTableRowsWithThrottle(w.page).truncated
    BY <1>1, <2>1, <2>2, <2>3, CountingVerdict
  <2>5. /\ result.shown = TakeBounded(Identified(page)).rows
        /\ result.truncated = TakeBounded(Identified(page)).truncated
    BY <1>1, <1>2, <2>4, TableRead
  <2>6. result.shown = page /\ Len(page) < RowListLimit
    BY <1>4, <2>5, ShownWhole
  <2>7. PageLimit(w) = RowListLimit /\ s # "mid_ecc"
    BY <1>5 DEF PageLimit, Counting
  <2>8. page = w.rows
    BY <1>1, <1>2, <2>6, <2>7, NotCut DEF page
  <2> QED BY <2>6, <2>7, <2>8
<1>6. CASE s = "sessions"
  <2>1. ProbeOf(w) = SessionsProbe(w)
    BY <1>6 DEF ProbeOf
  <2>2. /\ FetchList(w.page).ok /\ FetchList(w.page).value = page
        /\ ParseResultArrayRequired(page).ok /\ ParseResultArrayRequired(page).value = page
    BY <1>1, Reads
  <2>3. /\ result.shown = TakeBounded(Identified(page)).rows
        /\ ~(Len(page) >= SessionsPage) /\ ~TakeBounded(Identified(page)).truncated
    <3> DEFINE row == SnapshotOf(SessionsProbe(w))
    <3>1. row.shown = TakeBounded(Identified(page)).rows
      BY <2>2 DEF SessionsProbe, SnapshotOf, Observation, Ok
    <3>2. row.truncated <=> Len(page) >= SessionsPage \/ TakeBounded(Identified(page)).truncated
      BY <2>2 DEF SessionsProbe, SnapshotOf, Observation, Ok
    <3>3. result = row
      BY <2>1
    <3> HIDE DEF row
    <3> QED BY <3>1, <3>2, <3>3
  <2>4. result.shown = page
    BY <1>4, <2>3, ShownWhole
  <2>5. PageLimit(w) = SessionsPage
    BY <1>6 DEF PageLimit
  <2>6. page = w.rows
    BY <1>1, <1>2, <1>4, <2>3, <2>5, NotCut DEF page
  <2> QED BY <1>6, <2>4, <2>6
<1>7. CASE s = "mid_ecc"
  <2>1. ProbeOf(w) = MidEccProbe(w) /\ PageLimit(w) = Len(w.rows)
    BY <1>7 DEF ProbeOf, PageLimit
  <2>2. page = w.rows
    BY <1>1, <1>3, <2>1, FirstOf DEF page
  <2>3. ~Unread(w.count) /\ ~Unread(w.errorCount)
    BY <1>1, <2>1, AgentsVerdict
  <2>4. /\ FetchList(w.page).ok /\ FetchList(w.page).value = page
        /\ FetchAggregateCount(w.count).ok /\ FetchAggregateCount(w.errorCount).ok
        /\ ClassifyMidAgents(page).ok /\ ClassifyMidAgents(page).value.unhealthy = Unhealthy(page)
    BY <1>1, <2>3, Reads DEF ClassifyMidAgents, Ok
  <2>5. /\ result.shown = First(Unhealthy(page), RowListLimit)
        /\ ~(Len(Unhealthy(page)) > RowListLimit)
    <3> DEFINE row == SnapshotOf(MidEccProbe(w))
    <3>1. row.shown = First(Unhealthy(page), RowListLimit)
      BY <2>4 DEF MidEccProbe, SnapshotOf, Observation, Ok
    <3>2. row.truncated <=> Len(Unhealthy(page)) > RowListLimit
      BY <2>4 DEF MidEccProbe, SnapshotOf, Observation, Ok
    <3>3. result = row
      BY <2>1
    <3> HIDE DEF row
    <3> QED BY <3>1, <3>2, <3>3
  <2>6. Unhealthy(page) \in Seq(ProbeRow)
    BY <1>4, UnhealthyCount
  <2>7. result.shown = Unhealthy(page)
    BY <1>2, <2>5, <2>6, FirstOf
  <2> QED BY <1>1, <1>7, <2>2, <2>7, UnhealthyCount
<1> QED BY <1>5, <1>6, <1>7

-----------------------------------------------------------------------------
(* The ages of dates.                                                      *)

\* The days before a day of a year that starts in March.
Civil(y, doy) ==
  LET yoe == y - (y \div 400) * 400
  IN  (y \div 400) * 146097 + (yoe * 365 + yoe \div 4 - yoe \div 100 + doy) - 719468

LEMMA Eras == ASSUME NEW y \in Int PROVE \E e \in Int, r \in 0 .. 399 : y = 400 * e + r /\ y \div 400 = e
<1>1. y \div 400 \in Int /\ y % 400 \in 0 .. 399 /\ y = 400 * (y \div 400) + (y % 400)
  OBVIOUS
<1> QED BY <1>1

LEMMA Leaps ==
  ASSUME NEW e \in Int, NEW r \in 0 .. 399
  PROVE  LeapYear(400 * e + r) <=> r % 4 = 0 /\ (r % 100 # 0 \/ r = 0)
<1>1. (400 * e + r) % 4 = r % 4
  OBVIOUS
<1>2. (400 * e + r) % 100 = r % 100
  OBVIOUS
<1>3. (400 * e + r) % 400 = r
  OBVIOUS
<1> QED BY <1>1, <1>2, <1>3 DEF LeapYear

\* A year is 365 days long, and a day longer when its February is.
LEMMA YearStep ==
  ASSUME NEW y \in Int
  PROVE  Civil(y, 0) = Civil(y - 1, IF LeapYear(y) THEN 366 ELSE 365)
<1>1. PICK e \in Int, r \in 0 .. 399 : y = 400 * e + r /\ y \div 400 = e
  BY Eras
<1>2. LeapYear(y) <=> r % 4 = 0 /\ (r % 100 # 0 \/ r = 0)
  BY <1>1, Leaps
<1>3. CASE r = 0
  <2>1. (y - 1) \div 400 = e - 1
    BY <1>1, <1>3
  <2>2. LeapYear(y)
    BY <1>2, <1>3
  <2> QED BY <1>1, <1>3, <2>1, <2>2 DEF Civil
<1>4. CASE r # 0
  <2>1. (y - 1) \div 400 = e
    BY <1>1, <1>4
  <2>2. /\ r \div 4 = (r - 1) \div 4 + (IF r % 4 = 0 THEN 1 ELSE 0)
        /\ r \div 100 = (r - 1) \div 100 + (IF r % 100 = 0 THEN 1 ELSE 0)
        /\ r % 100 = 0 => r % 4 = 0
    OBVIOUS
  <2>3. LeapYear(y) <=> r % 4 = 0 /\ r % 100 # 0
    BY <1>2, <1>4
  <2>4. Civil(y, 0) = e * 146097 + (r * 365 + r \div 4 - r \div 100) - 719468
    BY <1>1 DEF Civil
  <2>5. \A doy \in Int : Civil(y - 1, doy)
          = e * 146097 + ((r - 1) * 365 + (r - 1) \div 4 - (r - 1) \div 100 + doy) - 719468
    BY <1>1, <2>1 DEF Civil
  <2> QED BY <2>2, <2>3, <2>4, <2>5
<1> QED BY <1>3, <1>4

Before(month) ==
  CASE month = 3 -> 0   [] month = 4 -> 31   [] month = 5 -> 61   [] month = 6 -> 92
    [] month = 7 -> 122 [] month = 8 -> 153  [] month = 9 -> 184  [] month = 10 -> 214
    [] month = 11 -> 245 [] month = 12 -> 275 [] month = 1 -> 306 [] month = 2 -> 337

LEMMA DaysAre ==
  ASSUME NEW d, d.year \in Nat, d.month \in 1 .. 12, d.day \in Int
  PROVE  DaysFromCivil(d) = Civil(IF d.month <= 2 THEN d.year - 1 ELSE d.year,
                                  Before(d.month) + d.day - 1)
BY DEF DaysFromCivil, Civil, Before

NextDay(d) ==
  CASE d.day < DaysInMonth(d.year, d.month) -> [d EXCEPT !.day = @ + 1]
    [] d.day >= DaysInMonth(d.year, d.month) /\ d.month < 12 -> [d EXCEPT !.day = 1, !.month = @ + 1]
    [] d.day >= DaysInMonth(d.year, d.month) /\ d.month = 12 ->
         [year |-> d.year + 1, month |-> 1, day |-> 1]

Dates == [year : Nat, month : Nat, day : Nat]

\* The day after a real date is a real date, and a day later.
LEMMA DayAfter ==
  ASSUME NEW d \in Dates, RealDate(d)
  PROVE  /\ NextDay(d) \in Dates /\ RealDate(NextDay(d))
         /\ DaysFromCivil(NextDay(d)) = DaysFromCivil(d) + 1
<1> DEFINE e == NextDay(d)
           last == DaysInMonth(d.year, d.month)
<1>1. /\ d.year \in Nat /\ d.month \in 1 .. 12 /\ d.day \in 1 .. last
      /\ last \in 28 .. 31
  BY DEF Dates, RealDate, DaysInMonth
<1>2. \A y, doy \in Int : Civil(y, doy + 1) = Civil(y, doy) + 1
  BY DEF Civil
<1>3. CASE d.day < last
  <2>1. e = [d EXCEPT !.day = d.day + 1]
    BY <1>1, <1>3 DEF NextDay
  <2>2. e \in Dates /\ e.year = d.year /\ e.month = d.month /\ e.day = d.day + 1
    BY <2>1 DEF Dates
  <2>3. RealDate(e)
    BY <1>1, <1>3, <2>2 DEF RealDate
  <2>4. DaysFromCivil(e) = DaysFromCivil(d) + 1
    <3>1. DaysFromCivil(e) = Civil(IF d.month <= 2 THEN d.year - 1 ELSE d.year,
                                   Before(d.month) + (d.day + 1) - 1)
      BY <1>1, <2>2, DaysAre
    <3>2. Before(d.month) \in Int
      BY <1>1 DEF Before
    <3> QED BY <1>1, <1>2, <3>1, <3>2, DaysAre
  <2> QED BY <2>2, <2>3, <2>4
<1>4. CASE d.day = last /\ d.month < 12
  <2>1. e = [d EXCEPT !.day = 1, !.month = d.month + 1]
    BY <1>1, <1>4 DEF NextDay
  <2>2. e \in Dates /\ e.year = d.year /\ e.month = d.month + 1 /\ e.day = 1
    <3>1. d.month + 1 \in Nat /\ 1 \in Nat
      BY <1>1
    <3> HIDE DEF e
    <3> QED BY <2>1, <3>1 DEF Dates
  <2>3. RealDate(e)
    BY <1>1, <1>4, <2>2 DEF RealDate, DaysInMonth
  <2>4. DaysFromCivil(e) = DaysFromCivil(d) + 1
    <3>1. CASE d.month = 2
      <4>1. d.day = IF LeapYear(d.year) THEN 29 ELSE 28
        BY <1>4, <3>1 DEF DaysInMonth
      <4>2. DaysFromCivil(d) = Civil(d.year - 1, IF LeapYear(d.year) THEN 365 ELSE 364)
        BY <1>1, <3>1, <4>1, DaysAre DEF Before
      <4>3. DaysFromCivil(e) = Civil(d.year, 0)
        BY <1>1, <2>2, <3>1, DaysAre DEF Before
      <4>4. Civil(d.year, 0) = Civil(d.year - 1, IF LeapYear(d.year) THEN 366 ELSE 365)
        BY <1>1, YearStep
      <4>5. d.year - 1 \in Int /\ 365 = 364 + 1 /\ 366 = 365 + 1
        BY <1>1
      <4> QED BY <1>2, <4>2, <4>3, <4>4, <4>5
    <3>2. CASE d.month # 2
      <4>1. last = (CASE d.month \in {1, 3, 5, 7, 8, 10, 12} -> 31 [] d.month \in {4, 6, 9, 11} -> 30)
        BY <1>1, <3>2 DEF DaysInMonth
      <4>2. Before(d.month) \in Int /\ Before(d.month + 1) = Before(d.month) + last
        BY <1>1, <1>4, <3>2, <4>1 DEF Before
      <4> DEFINE y == IF d.month <= 2 THEN d.year - 1 ELSE d.year
      <4>3. y \in Int /\ y = IF d.month + 1 <= 2 THEN d.year - 1 ELSE d.year
        BY <1>1, <3>2
      <4>4. DaysFromCivil(e) = Civil(y, Before(d.month + 1) + 1 - 1)
        BY <1>1, <1>4, <2>2, <4>3, DaysAre
      <4>5. DaysFromCivil(d) = Civil(y, Before(d.month) + last - 1)
        BY <1>1, <1>4, DaysAre
      <4> HIDE DEF y, last, e
      <4>6. Before(d.month + 1) + 1 - 1 = (Before(d.month) + last - 1) + 1
        BY <1>1, <4>2
      <4>7. Before(d.month) + last - 1 \in Int
        BY <1>1, <4>2
      <4> QED BY <1>2, <4>3, <4>4, <4>5, <4>6, <4>7
    <3> QED BY <3>1, <3>2
  <2> QED BY <2>2, <2>3, <2>4
<1>5. CASE d.day = last /\ d.month = 12
  <2>1. e = [year |-> d.year + 1, month |-> 1, day |-> 1]
    BY <1>1, <1>5 DEF NextDay
  <2>2. e \in Dates /\ RealDate(e)
    BY <1>1, <2>1 DEF Dates, RealDate, DaysInMonth
  <2>3. d.day = 31 /\ (d.year + 1) - 1 = d.year
    BY <1>1, <1>5 DEF DaysInMonth
  <2>4. DaysFromCivil(e) = DaysFromCivil(d) + 1
    BY <1>1, <1>5, <2>1, <2>3 DEF DaysFromCivil
  <2> QED BY <2>2, <2>4
<1> QED BY <1>1, <1>3, <1>4, <1>5

LEMMA DatesHold ==
  ASSUME NEW d \in Dates, NEW today \in Nat, input.date = d, input.today = today,
         result = AgeDays(d, today)
  PROVE  AgeCountsDays
<1> DEFINE next == NextDay(d)
<1>0. /\ Judged("date") => result = AgeDays(d, today)
      /\ AgeCountsDays <=> (Judged("date") =>
           IF ~RealDate(d) THEN result = Absent
           ELSE /\ result \in Nat
                /\ result > 0 => AgeDays(next, today) = result - 1
                /\ d = [year |-> 1970, month |-> 1, day |-> 1] => result = today)
  BY DEF AgeCountsDays, NextDay
<1>1. CASE ~RealDate(d)
  BY <1>0, <1>1 DEF AgeDays
<1>2. CASE RealDate(d)
  <2>1. /\ next \in Dates /\ RealDate(next) /\ DaysFromCivil(next) = DaysFromCivil(d) + 1
        /\ DaysFromCivil(d) \in Int
    BY <1>2, DayAfter DEF Dates, DaysFromCivil
  <2>2. result = IF today > DaysFromCivil(d) THEN today - DaysFromCivil(d) ELSE 0
    BY <1>2 DEF AgeDays
  <2>3. AgeDays(next, today) = IF today > DaysFromCivil(next) THEN today - DaysFromCivil(next) ELSE 0
    BY <2>1 DEF AgeDays
  <2>4. result \in Nat /\ (result > 0 => AgeDays(next, today) = result - 1)
    BY <2>1, <2>2, <2>3
  <2>5. d = [year |-> 1970, month |-> 1, day |-> 1] => result = today
    <3>1. d = [year |-> 1970, month |-> 1, day |-> 1] => DaysFromCivil(d) = 0
      BY DEF DaysFromCivil
    <3> QED BY <2>2, <3>1
  <2> HIDE DEF next
  <2> QED BY <1>0, <1>2, <2>4, <2>5
<1> QED BY <1>1, <1>2

-----------------------------------------------------------------------------
(* The clone of an Environment.                                            *)

CloneRow == [target : Seq(STRING), completed : Int \cup {Absent}]

LEMMA DatedRows ==
  ASSUME NEW rows \in Seq(CloneRow)
  PROVE  /\ Dated(rows) \in Seq(CloneRow)
         /\ \E at : Lists(Dated(rows), at,
                          {i \in DOMAIN rows : rows[i].target # <<>> /\ rows[i].completed # Absent}, rows)
<1> DEFINE n == Len(rows)
           K == {i \in DOMAIN rows : rows[i].target # <<>> /\ rows[i].completed # Absent}
           ss == [i \in DOMAIN rows |->
                    IF rows[i].target = <<>> \/ rows[i].completed = Absent THEN <<>> ELSE <<rows[i]>>]
<1>1. n \in Nat /\ DOMAIN rows = 1..n /\ rows \in [1..n -> CloneRow] /\ K \in SUBSET (1..n)
  OBVIOUS
<1>2. ss = [i \in 1..n |-> IF i \in K THEN <<rows[i]>> ELSE <<>>]
  BY <1>1
<1>3. Dated(rows) = FlattenSeq(ss)
  BY DEF Dated
<1> HIDE DEF ss, K, n
<1> QED BY <1>1, <1>2, <1>3, Filtered DEF K

LEMMA NewestRows ==
  ASSUME NEW rows \in Seq(CloneRow)
  PROVE  /\ NewestPerTarget(rows) \in Seq(CloneRow)
         /\ \E at : Lists(NewestPerTarget(rows), at,
                          {i \in DOMAIN rows : \A j \in 1 .. i - 1 : rows[j].target # rows[i].target}, rows)
<1> DEFINE n == Len(rows)
           K == {i \in DOMAIN rows : \A j \in 1 .. i - 1 : rows[j].target # rows[i].target}
           ss == [i \in DOMAIN rows |->
                    IF \E j \in 1 .. i - 1 : rows[j].target = rows[i].target THEN <<>> ELSE <<rows[i]>>]
<1>1. n \in Nat /\ DOMAIN rows = 1..n /\ rows \in [1..n -> CloneRow] /\ K \in SUBSET (1..n)
  OBVIOUS
<1>2. ss = [i \in 1..n |-> IF i \in K THEN <<rows[i]>> ELSE <<>>]
  BY <1>1
<1>3. NewestPerTarget(rows) = FlattenSeq(ss)
  BY DEF NewestPerTarget
<1> HIDE DEF ss, K, n
<1>4. FlattenSeq(ss) \in Seq(CloneRow) /\ \E at : Lists(FlattenSeq(ss), at, K, rows)
  BY <1>1, <1>2, Filtered
<1> QED BY <1>3, <1>4 DEF K

LEMMA CloneHolds ==
  ASSUME NEW rows \in Seq(CloneRow), NEW environment, input.rows = rows,
         input.environment = environment, result = CloneOf(rows, environment)
  PROVE  NewestCloneIsShown
<1> DEFINE Fits(row) == TargetMatches(row.target, environment)
           D == {i \in DOMAIN rows : rows[i].target # <<>> /\ rows[i].completed # Absent}
           dated == Dated(rows)
           E == {i \in DOMAIN dated : \A j \in 1 .. i - 1 : dated[j].target # dated[i].target}
           kept == NewestPerTarget(dated)
           mine == {i \in DOMAIN rows : Fits(rows[i]) /\ rows[i].completed # Absent}
           matching == {i \in DOMAIN kept : Fits(kept[i])}
<1>1. dated \in Seq(CloneRow) /\ \E at : Lists(dated, at, D, rows)
  BY DatedRows
<1> HIDE DEF dated
<1>2. kept \in Seq(CloneRow) /\ \E at : Lists(kept, at, E, dated)
  BY <1>1, NewestRows
<1> HIDE DEF kept
<1>3. PICK a : Lists(dated, a, D, rows)
  BY <1>1
<1>4. PICK b : Lists(kept, b, E, dated)
  BY <1>2
<1>5. /\ DOMAIN rows = 1 .. Len(rows) /\ DOMAIN dated = 1 .. Len(dated) /\ DOMAIN kept = 1 .. Len(kept)
      /\ Len(rows) \in Nat /\ Len(dated) \in Nat /\ Len(kept) \in Nat
  BY <1>1, <1>2
<1>6. ASSUME NEW i \in DOMAIN dated
      PROVE  a[i] \in D /\ dated[i] = rows[a[i]] /\ a[i] \in DOMAIN rows
  BY <1>3, <1>5 DEF Lists
<1>7. ASSUME NEW i \in DOMAIN kept
      PROVE  b[i] \in DOMAIN dated /\ kept[i] = dated[b[i]]
  BY <1>4, <1>5 DEF Lists
<1>8. \A i \in DOMAIN rows : Fits(rows[i]) => rows[i].target # <<>>
  BY DEF TargetMatches
<1>9. mine \subseteq D
  BY <1>8
<1>10. ASSUME NEW k \in matching
       PROVE  /\ a[b[k]] \in mine /\ kept[k] = rows[a[b[k]]] /\ k \in DOMAIN kept
  <2>1. k \in DOMAIN kept /\ Fits(kept[k])
    OBVIOUS
  <2>2. b[k] \in DOMAIN dated /\ kept[k] = dated[b[k]]
    BY <1>7, <2>1
  <2>3. a[b[k]] \in D /\ dated[b[k]] = rows[a[b[k]]]
    BY <1>6, <2>2
  <2> HIDE DEF Fits
  <2> QED BY <2>1, <2>2, <2>3
<1> HIDE DEF matching, mine, E, D
<1>11. result = IF matching = {} THEN Absent ELSE kept[Min(matching)].completed
  BY DEF CloneOf, ParseLastClones, matching, kept, dated
<1>12. NewestCloneIsShown <=> (Judged("clone") =>
          result = IF mine = {} THEN Absent ELSE rows[Min(mine)].completed)
  BY DEF NewestCloneIsShown, mine
<1> HIDE DEF Fits
<1>13. CASE mine = {}
  <2>1. matching = {}
    BY <1>10, <1>13
  <2> QED BY <1>11, <1>12, <1>13, <2>1
<1>14. CASE mine # {}
  <2> DEFINE m == Min(mine)
  <2>1. m \in mine /\ \A i \in mine : m <= i
    <3>1. mine \in SUBSET (Nat \ {0})
      BY <1>5 DEF mine
    <3> QED BY <1>14, <3>1, MinIs
  <2> HIDE DEF m
  <2>2. m \in D /\ m \in Nat /\ Fits(rows[m])
    BY <1>5, <1>9, <2>1 DEF mine
  <2>3. PICK i \in DOMAIN dated : a[i] = m
    BY <1>3, <1>5, <2>2 DEF Lists
  <2>4. i \in E
    <3> SUFFICES ASSUME NEW j \in 1 .. i - 1, dated[j].target = dated[i].target PROVE FALSE
      BY <2>3 DEF E
    <3>1. j \in DOMAIN dated /\ j < i
      BY <1>5, <2>3
    <3>2. a[j] < a[i] /\ a[j] \in Nat
      <4>1. a[j] < a[i]
        BY <1>3, <1>5, <2>3, <3>1 DEF Lists
      <4> QED BY <1>5, <1>6, <3>1, <4>1
    <3>3. a[j] \in mine
      <4>1. dated[j] = rows[a[j]] /\ a[j] \in D /\ dated[i] = rows[m]
        BY <1>6, <2>3, <3>1
      <4>2. Fits(rows[a[j]])
        BY <2>2, <4>1 DEF Fits
      <4> QED BY <4>1, <4>2 DEF D, mine
    <3> QED BY <2>1, <2>2, <2>3, <3>2, <3>3
  <2>5. PICK k \in DOMAIN kept : b[k] = i
    BY <1>4, <1>5, <2>4 DEF Lists
  <2>6. kept[k] = rows[m]
    BY <1>6, <1>7, <2>3, <2>5
  <2>7. k \in matching
    BY <2>2, <2>6 DEF matching
  <2>8. \A l \in matching : k <= l
    <3> SUFFICES ASSUME NEW l \in matching, l < k PROVE FALSE
      BY <1>5, <2>5, <2>7 DEF matching
    <3>1. l \in DOMAIN kept /\ a[b[l]] \in mine
      BY <1>10
    <3>2. b[l] < b[k]
      BY <1>4, <1>5, <2>5, <3>1 DEF Lists
    <3>3. b[l] \in DOMAIN dated /\ b[k] \in DOMAIN dated
      BY <1>7, <2>5, <3>1
    <3>4. a[b[l]] < a[b[k]]
      BY <1>3, <1>5, <3>2, <3>3 DEF Lists
    <3>5. a[b[l]] \in Nat
      BY <1>5, <3>1 DEF mine
    <3> QED BY <2>1, <2>2, <2>3, <2>5, <3>1, <3>4, <3>5
  <2>9. Min(matching) = k
    <3>1. matching \in SUBSET (Nat \ {0}) /\ matching # {}
      BY <1>5, <2>7 DEF matching
    <3>2. Min(matching) \in matching /\ Min(matching) <= k
      BY <2>7, <3>1, MinIs
    <3> DEFINE first == Min(matching)
    <3>3. first \in matching /\ first <= k
      BY <3>2
    <3> HIDE DEF first
    <3>4. k <= first
      BY <2>8, <3>3
    <3>5. first \in Nat /\ k \in Nat
      BY <1>5, <2>5, <3>1, <3>3
    <3>6. first = k
      BY <3>3, <3>4, <3>5
    <3> QED BY <3>6 DEF first
  <2> QED BY <1>11, <1>12, <1>14, <2>6, <2>7, <2>9 DEF m
<1> QED BY <1>13, <1>14

-----------------------------------------------------------------------------
(* The difference of two inventories.                                      *)

LEMMA Recorded ==
  ASSUME NEW S, NEW rows \in Seq(S)
  PROVE  LET all == [i \in DOMAIN rows |-> PluginRecord(rows[i])]
         IN  /\ PluginRecords(rows) \in Seq({all[i] : i \in DOMAIN rows})
             /\ \E at : Lists(PluginRecords(rows), at, {i \in DOMAIN rows : PluginId(rows[i]) # NoId}, all)
<1> DEFINE n == Len(rows)
           K == {i \in DOMAIN rows : PluginId(rows[i]) # NoId}
           all == [i \in DOMAIN rows |-> PluginRecord(rows[i])]
           T == {all[i] : i \in DOMAIN rows}
           ss == [i \in DOMAIN rows |-> IF PluginId(rows[i]) = NoId THEN <<>> ELSE <<PluginRecord(rows[i])>>]
<1>1. n \in Nat /\ DOMAIN rows = 1..n /\ K \in SUBSET (1..n)
  OBVIOUS
<1>2. all \in [1..n -> T]
  BY <1>1
<1>3. ss = [i \in 1..n |-> IF i \in K THEN <<all[i]>> ELSE <<>>]
  BY <1>1
<1>4. PluginRecords(rows) = FlattenSeq(ss)
  BY DEF PluginRecords
<1> HIDE DEF ss, K, n, all, T
<1>5. FlattenSeq(ss) \in Seq(T) /\ \E at : Lists(FlattenSeq(ss), at, K, all)
  BY <1>1, <1>2, <1>3, Filtered
<1> QED BY <1>4, <1>5 DEF K, T, all

\* The row that stands for an id is the last that has it.
IsLast(rows, i) ==
  PluginId(rows[i]) # NoId /\ \A j \in i + 1 .. Len(rows) : PluginId(rows[j]) # PluginId(rows[i])

Held(rows) == LastById(PluginRecords(rows))

LEMMA HeldRows ==
  ASSUME NEW S, NEW rows \in Seq(S)
  PROVE  /\ DOMAIN Held(rows) = {PluginId(rows[i]) : i \in DOMAIN rows} \ {NoId}
         /\ IsFiniteSet(DOMAIN Held(rows))
         /\ \A i \in DOMAIN rows : IsLast(rows, i) => Held(rows)[PluginId(rows[i])] = PluginRecord(rows[i])
         /\ \A id \in DOMAIN Held(rows) : \E i \in DOMAIN rows : PluginId(rows[i]) = id /\ IsLast(rows, i)
<1> DEFINE K == {i \in DOMAIN rows : PluginId(rows[i]) # NoId}
           all == [i \in DOMAIN rows |-> PluginRecord(rows[i])]
           recs == PluginRecords(rows)
           held == Held(rows)
           M(id) == {k \in DOMAIN recs : recs[k].id = id}
<1>1. recs \in Seq({all[i] : i \in DOMAIN rows}) /\ \E at : Lists(recs, at, K, all)
  BY Recorded
<1> HIDE DEF recs
<1>2. PICK at : Lists(recs, at, K, all)
  BY <1>1
<1>3. /\ DOMAIN recs = 1 .. Len(recs) /\ Len(recs) \in Nat /\ DOMAIN rows = 1 .. Len(rows)
      /\ Len(rows) \in Nat
  BY <1>1
<1>4. ASSUME NEW k \in DOMAIN recs
      PROVE  at[k] \in K /\ at[k] \in DOMAIN rows /\ recs[k] = PluginRecord(rows[at[k]])
             /\ recs[k].id = PluginId(rows[at[k]])
  <2>1. at[k] \in K /\ recs[k] = all[at[k]]
    BY <1>2, <1>3 DEF Lists
  <2> QED BY <2>1 DEF PluginRecord
<1>5. held = [id \in {recs[k].id : k \in DOMAIN recs} |-> recs[Max(M(id))]]
  BY DEF Held, LastById, recs
<1> HIDE DEF held, all
<1>6. ASSUME NEW i \in K PROVE \E k \in DOMAIN recs : at[k] = i
  BY <1>2, <1>3 DEF Lists
<1>7. DOMAIN held = {PluginId(rows[i]) : i \in DOMAIN rows} \ {NoId}
  <2>1. ASSUME NEW id \in DOMAIN held PROVE id \in {PluginId(rows[i]) : i \in DOMAIN rows} \ {NoId}
    <3>1. PICK k \in DOMAIN recs : recs[k].id = id
      BY <1>5
    <3> QED BY <1>4, <3>1
  <2>2. ASSUME NEW i \in DOMAIN rows, PluginId(rows[i]) # NoId PROVE PluginId(rows[i]) \in DOMAIN held
    <3>1. PICK k \in DOMAIN recs : at[k] = i
      BY <1>6, <2>2
    <3> QED BY <1>4, <1>5, <3>1
  <2> QED BY <2>1, <2>2
<1>8. IsFiniteSet(DOMAIN held)
  <2> DEFINE f == [k \in DOMAIN recs |-> recs[k].id]
  <2>1. f \in Surjection(DOMAIN recs, DOMAIN held)
    BY <1>5 DEF Surjection
  <2>2. IsFiniteSet(DOMAIN recs)
    BY <1>3, FS_Interval
  <2> QED BY <2>1, <2>2, FS_Surjection
<1>9. ASSUME NEW id \in DOMAIN held
      PROVE  /\ Max(M(id)) \in M(id) /\ \A k \in M(id) : Max(M(id)) >= k
             /\ held[id] = recs[Max(M(id))]
  <2>1. M(id) \in SUBSET (1 .. Len(recs)) /\ M(id) # {}
    BY <1>3, <1>5
  <2>2. held[id] = recs[Max(M(id))]
    BY <1>5
  <2> HIDE DEF M
  <2> QED BY <1>3, <2>1, <2>2, MaxIs
<1>10. ASSUME NEW id \in DOMAIN held, NEW k, k = Max(M(id))
       PROVE  /\ at[k] \in DOMAIN rows /\ PluginId(rows[at[k]]) = id /\ IsLast(rows, at[k])
              /\ held[id] = PluginRecord(rows[at[k]])
  <2>1. k \in DOMAIN recs /\ recs[k].id = id /\ held[id] = recs[k] /\ \A l \in M(id) : k >= l
    BY <1>9, <1>10
  <2>2. /\ at[k] \in K /\ at[k] \in DOMAIN rows /\ recs[k] = PluginRecord(rows[at[k]])
        /\ PluginId(rows[at[k]]) = id
    BY <1>4, <2>1
  <2>3. ASSUME NEW j \in at[k] + 1 .. Len(rows), PluginId(rows[j]) = id PROVE FALSE
    <3>1. j \in DOMAIN rows /\ j > at[k]
      BY <1>3, <2>2
    <3>2. PICK l \in DOMAIN recs : at[l] = j
      BY <1>6, <2>2, <2>3, <3>1
    <3>3. l \in M(id)
      BY <1>4, <2>3, <3>2
    <3>4. k >= l
      BY <2>1, <3>3
    <3>5. k = l \/ at[l] < at[k]
      BY <1>2, <1>3, <2>1, <3>2, <3>4 DEF Lists
    <3> QED BY <1>3, <2>2, <3>1, <3>2, <3>5
  <2> QED BY <2>1, <2>2, <2>3 DEF IsLast
<1>11. ASSUME NEW i \in DOMAIN rows, IsLast(rows, i) PROVE held[PluginId(rows[i])] = PluginRecord(rows[i])
  <2> DEFINE id == PluginId(rows[i])
             m == at[Max(M(id))]
  <2>1. id \in DOMAIN held
    BY <1>7, <1>11 DEF IsLast
  <2>2. m \in DOMAIN rows /\ PluginId(rows[m]) = id /\ IsLast(rows, m) /\ held[id] = PluginRecord(rows[m])
    BY <1>10, <2>1
  <2> HIDE DEF m
  <2>3. ~(m < i) /\ ~(i < m)
    <3>1. m < i => i \in m + 1 .. Len(rows)
      BY <1>3, <2>2
    <3>2. i < m => m \in i + 1 .. Len(rows)
      BY <1>3, <2>2
    <3> QED BY <1>11, <2>2, <3>1, <3>2 DEF IsLast
  <2>4. m = i
    BY <1>3, <2>2, <2>3
  <2> QED BY <2>2, <2>4
<1>12. ASSUME NEW id \in DOMAIN held
       PROVE  \E i \in DOMAIN rows : PluginId(rows[i]) = id /\ IsLast(rows, i)
  BY <1>10
<1> QED BY <1>7, <1>8, <1>11, <1>12 DEF held

\* The ids two inventories differ in.
Differing(here, there) ==
  {id \in DOMAIN here \cup DOMAIN there : MismatchVersion(here, id) # MismatchVersion(there, id)}

Mismatch(here, there, id) ==
  [id |-> id, source |-> MismatchVersion(here, id), other |-> MismatchVersion(there, id)]

LEMMA SameNumber ==
  ASSUME NEW D, IsFiniteSet(D), NEW f, \A i, j \in D : f[i] = f[j] => i = j
  PROVE  IsFiniteSet({f[i] : i \in D}) /\ Cardinality({f[i] : i \in D}) = Cardinality(D)
<1> DEFINE E == {f[i] : i \in D}
           g == [i \in D |-> f[i]]
<1>1. g \in [D -> E] /\ \A i, j \in D : g[i] = g[j] => i = j
  OBVIOUS
<1>2. \A e \in E : \E i \in D : g[i] = e
  OBVIOUS
<1> HIDE DEF E, g
<1>3. g \in Bijection(D, E)
  <2>1. g \in Injection(D, E)
    BY <1>1, Zenon DEF Injection, IsInjective
  <2>2. g \in Surjection(D, E)
    BY <1>1, <1>2, Zenon DEF Surjection
  <2> QED BY <2>1, <2>2 DEF Bijection
<1>4. ExistsBijection(D, E)
  BY <1>3 DEF ExistsBijection
<1> QED BY <1>4, FS_Bijection DEF E

LEMMA Counts ==
  ASSUME NEW S, NEW T, NEW a \in Seq(S), NEW b \in Seq(T)
  PROVE  /\ IsFiniteSet(Differing(Held(a), Held(b)))
         /\ Cardinality(DiffPluginInventory(PluginRecords(a), PluginRecords(b)))
              = Cardinality(Differing(Held(a), Held(b)))
         /\ \A x : Cardinality(UnexpectedMismatches(
                                DiffPluginInventory(PluginRecords(a), PluginRecords(b)), x))
                     = Cardinality(Differing(Held(a), Held(b)) \ x)
<1> DEFINE here == Held(a)
           there == Held(b)
           ids == Differing(here, there)
           f == [id \in ids |-> Mismatch(here, there, id)]
           full == DiffPluginInventory(PluginRecords(a), PluginRecords(b))
<1>1. IsFiniteSet(ids)
  <2>1. IsFiniteSet(DOMAIN here \cup DOMAIN there)
    BY HeldRows, FS_Union
  <2> QED BY <2>1, FS_Subset DEF Differing
<1>2. full = {Mismatch(here, there, id) : id \in ids}
  BY DEF DiffPluginInventory, Differing, Mismatch, Held
<1> HIDE DEF ids, full
<1>3. \A id \in ids : f[id] = Mismatch(here, there, id) /\ f[id].id = id
  BY DEF Mismatch
<1>4. full = {f[id] : id \in ids}
  BY <1>2, <1>3
<1> HIDE DEF f
<1>5. \A i, j \in ids : f[i] = f[j] => i = j
  BY <1>3
<1>6. Cardinality(full) = Cardinality(ids)
  BY <1>1, <1>4, <1>5, SameNumber
<1>7. ASSUME NEW x PROVE Cardinality(UnexpectedMismatches(full, x)) = Cardinality(ids \ x)
  <2>1. UnexpectedMismatches(full, x) = {f[id] : id \in ids \ x}
    BY <1>3, <1>4 DEF UnexpectedMismatches
  <2>2. IsFiniteSet(ids \ x)
    BY <1>1, FS_Subset
  <2>3. \A i, j \in ids \ x : f[i] = f[j] => i = j
    BY <1>5
  <2> QED BY <2>1, <2>2, <2>3, SameNumber
<1> QED BY <1>1, <1>6, <1>7 DEF ids, full

\* What a comparison counts and how it judges.
LEMMA Compared ==
  ASSUME NEW c, NEW S, NEW T, c.source.rows \in Seq(S), c.other.rows \in Seq(T)
  PROVE  LET ids == Differing(Held(c.source.rows), Held(c.other.rows))
             d   == DriftCompare(c)
         IN  /\ d.mismatches = Cardinality(ids \ c.expected)
             /\ d.expected = Cardinality(ids) - Cardinality(ids \ c.expected)
             /\ d.state = DriftState(BuildMatches(c.source.build, c.other.build), d.mismatches, c.degradedAt)
             /\ d.mismatches + d.expected = Cardinality(ids)
             /\ IsFiniteSet(ids)
<1> DEFINE full == DiffPluginInventory(PluginRecords(c.source.rows), PluginRecords(c.other.rows))
           ids == Differing(Held(c.source.rows), Held(c.other.rows))
           d == DriftCompare(c)
<1>1. /\ d.mismatches = Cardinality(UnexpectedMismatches(full, c.expected))
      /\ d.expected = Cardinality(full) - Cardinality(UnexpectedMismatches(full, c.expected))
      /\ d.state = DriftState(BuildMatches(c.source.build, c.other.build),
                              Cardinality(UnexpectedMismatches(full, c.expected)), c.degradedAt)
  BY DEF DriftCompare
<1> HIDE DEF full, ids, d
<1>2. /\ IsFiniteSet(ids) /\ Cardinality(full) = Cardinality(ids)
      /\ Cardinality(UnexpectedMismatches(full, c.expected)) = Cardinality(ids \ c.expected)
  BY Counts DEF full, ids
<1>3. Cardinality(ids) \in Nat /\ Cardinality(ids \ c.expected) \in Nat
  BY <1>2, FS_Subset, FS_CardinalityType
<1>4. d.mismatches + d.expected = Cardinality(ids)
  BY <1>1, <1>2, <1>3
<1> QED BY <1>1, <1>2, <1>4 DEF d, ids

Inventory(side) ==
  \E S : side.rows \in Seq(S) /\ \A row \in S : <<row.version, row.active>> # Absent

LEMMA Versions ==
  ASSUME NEW S, NEW rows \in Seq(S), \A row \in S : <<row.version, row.active>> # Absent,
         NEW id
  PROVE  MismatchVersion(Held(rows), id) = Absent <=> id \notin DOMAIN Held(rows)
<1>1. CASE id \in DOMAIN Held(rows)
  <2>1. PICK i \in DOMAIN rows : PluginId(rows[i]) = id /\ IsLast(rows, i)
    BY <1>1, HeldRows
  <2>2. Held(rows)[id] = PluginRecord(rows[i])
    BY <2>1, HeldRows
  <2>3. rows[i] \in S
    OBVIOUS
  <2> QED BY <1>1, <2>2, <2>3 DEF MismatchVersion, PluginRecord
<1>2. CASE id \notin DOMAIN Held(rows)
  BY <1>2 DEF MismatchVersion
<1> QED BY <1>1, <1>2

LEMMA SymmetryHolds ==
  ASSUME NEW c, input = c, Inventory(c.source), Inventory(c.other), result = DriftCompare(c),
         c = [kind |-> "drift", source |-> c.source, other |-> c.other, expected |-> c.expected,
              degradedAt |-> c.degradedAt]
  PROVE  DriftIsSymmetric
<1> DEFINE e == [c EXCEPT !.source = c.other, !.other = c.source]
           turned == DriftCompare(e)
           IdsOf(side) == {PluginId(r) : r \in Range(side.rows)} \ {NoId}
           ids == Differing(Held(c.source.rows), Held(c.other.rows))
           flipped == Differing(Held(c.other.rows), Held(c.source.rows))
<1>1. PICK S : c.source.rows \in Seq(S) /\ \A row \in S : <<row.version, row.active>> # Absent
  BY DEF Inventory
<1>2. PICK T : c.other.rows \in Seq(T) /\ \A row \in T : <<row.version, row.active>> # Absent
  BY DEF Inventory
<1>3. /\ e.source = c.other /\ e.other = c.source /\ e.expected = c.expected
      /\ e.degradedAt = c.degradedAt
  OBVIOUS
<1> HIDE DEF e
<1>4. ids = flipped
  BY DEF Differing
<1>5. /\ result.mismatches = Cardinality(ids \ c.expected)
      /\ result.expected = Cardinality(ids) - Cardinality(ids \ c.expected)
      /\ result.state = DriftState(BuildMatches(c.source.build, c.other.build), result.mismatches, c.degradedAt)
      /\ result.mismatches + result.expected = Cardinality(ids)
      /\ IsFiniteSet(ids)
  BY <1>1, <1>2, Compared
<1>6. /\ turned.mismatches = Cardinality(flipped \ c.expected)
      /\ turned.expected = Cardinality(flipped) - Cardinality(flipped \ c.expected)
      /\ turned.state = DriftState(BuildMatches(c.other.build, c.source.build), turned.mismatches, c.degradedAt)
  BY <1>1, <1>2, <1>3, Compared
<1>7. BuildMatches(c.source.build, c.other.build) = BuildMatches(c.other.build, c.source.build)
  BY DEF BuildMatches
<1>8. <<result.state, result.mismatches, result.expected>>
        = <<turned.state, turned.mismatches, turned.expected>>
  <2> HIDE DEF turned, ids, flipped
  <2> QED BY <1>4, <1>5, <1>6, <1>7
<1>9. result.mismatches + result.expected
        >= Cardinality(IdsOf(c.source) \ IdsOf(c.other)) + Cardinality(IdsOf(c.other) \ IdsOf(c.source))
  <2> DEFINE A == IdsOf(c.source) \ IdsOf(c.other)
             B == IdsOf(c.other) \ IdsOf(c.source)
  <2>1. /\ IdsOf(c.source) = DOMAIN Held(c.source.rows) /\ IsFiniteSet(IdsOf(c.source))
        /\ IdsOf(c.other) = DOMAIN Held(c.other.rows) /\ IsFiniteSet(IdsOf(c.other))
    <3>1. ASSUME NEW side, NEW R, side.rows \in Seq(R)
          PROVE  IdsOf(side) = {PluginId(side.rows[i]) : i \in DOMAIN side.rows} \ {NoId}
      BY DEF Range
    <3>2. /\ IdsOf(c.source) = {PluginId(c.source.rows[i]) : i \in DOMAIN c.source.rows} \ {NoId}
          /\ IdsOf(c.other) = {PluginId(c.other.rows[i]) : i \in DOMAIN c.other.rows} \ {NoId}
      BY <1>1, <1>2, <3>1
    <3> HIDE DEF Ids
    <3>3. IdsOf(c.source) = DOMAIN Held(c.source.rows) /\ IsFiniteSet(DOMAIN Held(c.source.rows))
      BY <1>1, <3>2, HeldRows
    <3>4. IdsOf(c.other) = DOMAIN Held(c.other.rows) /\ IsFiniteSet(DOMAIN Held(c.other.rows))
      BY <1>2, <3>2, HeldRows
    <3> QED BY <3>3, <3>4
  <2>2. A \subseteq ids /\ B \subseteq ids
    BY <1>1, <1>2, <2>1, Versions DEF Differing
  <2>3. IsFiniteSet(A) /\ IsFiniteSet(B) /\ A \cap B = {}
    BY <2>1, FS_Subset
  <2> HIDE DEF A, B, ids
  <2>4. Cardinality(A \cup B) = Cardinality(A) + Cardinality(B) - Cardinality(A \cap B)
    BY <2>3, FS_Union
  <2>5. Cardinality(A \cap B) = 0
    BY <2>3, FS_EmptySet
  <2>6. Cardinality(A \cup B) <= Cardinality(ids)
    BY <1>5, <2>2, FS_Subset
  <2>7. Cardinality(A) \in Nat /\ Cardinality(B) \in Nat /\ Cardinality(ids) \in Nat
    BY <1>5, <2>3, FS_CardinalityType
  <2>8. Cardinality(A) + Cardinality(B) <= Cardinality(ids)
    BY <2>4, <2>5, <2>6, <2>7
  <2> QED BY <1>5, <2>7, <2>8 DEF A, B
<1>10. Absent \in {c.source.build, c.other.build} /\ result.mismatches < c.degradedAt
         => result.state = "healthy"
  BY <1>5 DEF BuildMatches, DriftState
<1> HIDE DEF turned, ids, flipped, Ids
<1> QED BY <1>8, <1>9, <1>10 DEF DriftIsSymmetric, turned, Ids, e

LEMMA LastRecordHolds ==
  ASSUME NEW c, input = c, Inventory(c.source), Inventory(c.other), result = DriftCompare(c)
  PROVE  LastRecordCounts
<1> DEFINE Stands(side, r) == /\ r \in Range(side.rows)
                              /\ \E i \in DOMAIN side.rows :
                                   /\ side.rows[i] = r
                                   /\ \A j \in i + 1 .. Len(side.rows) :
                                        PluginId(side.rows[j]) # PluginId(r)
           Visible(side) == {<<PluginId(r), r.version, r.active>> :
                               r \in {x \in Range(side.rows) : PluginId(x) # NoId /\ Stands(side, x)}}
           here == Held(c.source.rows)
           there == Held(c.other.rows)
           ids == Differing(here, there)
           Triples(held) == {<<id, held[id].version, held[id].active>> : id \in DOMAIN held}
<1>1. PICK S : c.source.rows \in Seq(S) /\ \A row \in S : <<row.version, row.active>> # Absent
  BY DEF Inventory
<1>2. PICK T : c.other.rows \in Seq(T) /\ \A row \in T : <<row.version, row.active>> # Absent
  BY DEF Inventory
<1>3. ASSUME NEW side, NEW R, side.rows \in Seq(R) PROVE Visible(side) = Triples(Held(side.rows))
  <2> DEFINE rows == side.rows
             held == Held(rows)
  <2>1. ASSUME NEW r \in Range(rows), PluginId(r) # NoId, Stands(side, r)
        PROVE  <<PluginId(r), r.version, r.active>> \in Triples(held)
    <3>1. PICK i \in DOMAIN rows : rows[i] = r /\ IsLast(rows, i)
      BY <2>1 DEF IsLast
    <3>2. held[PluginId(r)] = PluginRecord(r) /\ PluginId(r) \in DOMAIN held
      BY <1>3, <2>1, <3>1, HeldRows
    <3> QED BY <3>2 DEF PluginRecord
  <2>2. ASSUME NEW id \in DOMAIN held
        PROVE  <<id, held[id].version, held[id].active>> \in Visible(side)
    <3>1. PICK i \in DOMAIN rows : PluginId(rows[i]) = id /\ IsLast(rows, i)
      BY <1>3, HeldRows
    <3>2. held[id] = PluginRecord(rows[i])
      BY <1>3, <3>1, HeldRows
    <3>3. rows[i] \in Range(rows) /\ PluginId(rows[i]) # NoId /\ Stands(side, rows[i])
      BY <3>1 DEF Range, IsLast
    <3> HIDE DEF Stands
    <3> QED BY <3>1, <3>2, <3>3 DEF PluginRecord
  <2> HIDE DEF Stands
  <2> QED BY <2>1, <2>2
<1>4. Visible(c.source) = Triples(here) /\ Visible(c.other) = Triples(there)
  BY <1>1, <1>2, <1>3
<1>5. /\ result.mismatches + result.expected = Cardinality(ids) /\ IsFiniteSet(ids)
  BY <1>1, <1>2, Compared
<1>6. Cardinality(ids) = 0 <=> ids = {}
  BY <1>5, FS_EmptySet
<1>7. \A id : /\ MismatchVersion(here, id) = Absent <=> id \notin DOMAIN here
              /\ MismatchVersion(there, id) = Absent <=> id \notin DOMAIN there
  BY <1>1, <1>2, Versions
<1> HIDE DEF here, there
<1>8. ids = {} <=> Triples(here) = Triples(there)
  <2>1. ASSUME ids = {} PROVE Triples(here) = Triples(there)
    <3>1. \A id \in DOMAIN here \cup DOMAIN there : MismatchVersion(here, id) = MismatchVersion(there, id)
      BY <2>1 DEF Differing
    <3>2. DOMAIN here = DOMAIN there
      BY <1>7, <3>1
    <3>3. \A id \in DOMAIN here : here[id].version = there[id].version /\ here[id].active = there[id].active
      BY <3>1, <3>2 DEF MismatchVersion
    <3> QED BY <3>2, <3>3
  <2>2. ASSUME Triples(here) = Triples(there) PROVE ids = {}
    <3>1. ASSUME NEW id \in DOMAIN here
          PROVE  /\ id \in DOMAIN there /\ here[id].version = there[id].version
                 /\ here[id].active = there[id].active
      <4>1. <<id, here[id].version, here[id].active>> \in Triples(there)
        BY <2>2
      <4> QED BY <4>1
    <3>2. ASSUME NEW id \in DOMAIN there PROVE id \in DOMAIN here
      <4>1. <<id, there[id].version, there[id].active>> \in Triples(here)
        BY <2>2
      <4> QED BY <4>1
    <3> QED BY <3>1, <3>2 DEF Differing, MismatchVersion
  <2> QED BY <2>1, <2>2
<1> HIDE DEF ids, Triples, Visible
<1>9. (result.mismatches + result.expected = 0) <=> Visible(c.source) = Visible(c.other)
  BY <1>4, <1>5, <1>6, <1>8
<1> QED BY <1>9 DEF LastRecordCounts, Visible

-----------------------------------------------------------------------------
(* One input of any of the four kinds, judged once.                        *)

DriftWorld(c) ==
  /\ c = [kind |-> "drift", source |-> c.source, other |-> c.other, expected |-> c.expected,
          degradedAt |-> c.degradedAt]
  /\ Inventory(c.source) /\ Inventory(c.other)

CloneWorld(c) == c.kind = "clone" /\ c.rows \in Seq(CloneRow)

DateWorld(c) == c.kind = "date" /\ c.date \in Dates /\ c.today \in Nat

World(w) == ProbeWorld(w) \/ DriftWorld(w) \/ CloneWorld(w) \/ DateWorld(w)

MeasuresInit == World(input) /\ result = Pending
MeasuresNext == CollectProbe \/ Compare \/ FindClone \/ DateClone
MeasuresSpec == MeasuresInit /\ [][MeasuresNext]_<<input, result>>

Verdict(w) ==
  CASE w.kind = "probe" -> SnapshotOf(ProbeOf(w))
    [] w.kind = "drift" -> DriftCompare(w)
    [] w.kind = "clone" -> CloneOf(w.rows, w.environment)
    [] w.kind = "date"  -> AgeDays(w.date, w.today)

MeasuresInv == World(input) /\ (result # Pending => result = Verdict(input))

LEMMA Kinds == ASSUME NEW w, World(w)
               PROVE  /\ w.kind \in {"probe", "drift", "clone", "date"}
                      /\ w.kind = "probe" => ProbeWorld(w)
                      /\ w.kind = "drift" => DriftWorld(w)
                      /\ w.kind = "clone" => CloneWorld(w)
                      /\ w.kind = "date" => DateWorld(w)
<1>1. /\ ProbeWorld(w) => w.kind = "probe"
      /\ CloneWorld(w) => w.kind = "clone"
      /\ DateWorld(w) => w.kind = "date"
  BY DEF ProbeWorld, CloneWorld, DateWorld
<1>2. DriftWorld(w) => w.kind = "drift"
  BY DEF DriftWorld
<1> QED BY <1>1, <1>2 DEF World

LEMMA MeasuresHold == MeasuresInv => MeasuresAreHonest
<1> SUFFICES ASSUME MeasuresInv PROVE MeasuresAreHonest
  OBVIOUS
<1>1. ASSUME NEW k, input.kind # k PROVE ~Judged(k)
  BY <1>1 DEF Judged
<1>2. CASE result = Pending
  <2>1. \A k : ~Judged(k)
    BY <1>2 DEF Judged
  <2> QED BY <2>1 DEF MeasuresAreHonest, ProbesAreHonest, ComparisonsAreExact, UnreadableIsDown,
                      RowsNeverVote, PartialListsAreMarked, ThrottlingIsVisible, DriftIsSymmetric,
                      LastRecordCounts, NewestCloneIsShown, AgeCountsDays
<1>3. CASE result # Pending
  <2>1. result = Verdict(input)
    BY <1>3 DEF MeasuresInv
  <2>2. ProbesAreHonest
    <3>1. CASE input.kind = "probe"
      <4>1. ProbeWorld(input) /\ result = SnapshotOf(ProbeOf(input))
        BY <2>1, <3>1, Kinds DEF MeasuresInv, Verdict
      <4> QED BY <4>1, UnreadableHolds, RowsHold, PartialHolds, ThrottlingHolds DEF ProbesAreHonest
    <3>2. CASE input.kind # "probe"
      BY <1>1, <3>2 DEF ProbesAreHonest, UnreadableIsDown, RowsNeverVote, PartialListsAreMarked,
                        ThrottlingIsVisible
    <3> QED BY <3>1, <3>2
  <2>3. DriftIsSymmetric /\ LastRecordCounts
    <3>1. CASE input.kind = "drift"
      <4>1. DriftWorld(input) /\ result = DriftCompare(input)
        BY <2>1, <3>1, Kinds DEF MeasuresInv, Verdict
      <4> QED BY <4>1, SymmetryHolds, LastRecordHolds DEF DriftWorld
    <3>2. CASE input.kind # "drift"
      BY <1>1, <3>2 DEF DriftIsSymmetric, LastRecordCounts
    <3> QED BY <3>1, <3>2
  <2>4. NewestCloneIsShown
    <3>1. CASE input.kind = "clone"
      <4>1. input.rows \in Seq(CloneRow) /\ result = CloneOf(input.rows, input.environment)
        BY <2>1, <3>1, Kinds DEF MeasuresInv, Verdict, CloneWorld
      <4> QED BY <4>1, CloneHolds
    <3>2. CASE input.kind # "clone"
      BY <1>1, <3>2 DEF NewestCloneIsShown
    <3> QED BY <3>1, <3>2
  <2>5. AgeCountsDays
    <3>1. CASE input.kind = "date"
      <4>1. input.date \in Dates /\ input.today \in Nat /\ result = AgeDays(input.date, input.today)
        BY <2>1, <3>1, Kinds DEF MeasuresInv, Verdict, DateWorld
      <4> QED BY <4>1, DatesHold
    <3>2. CASE input.kind # "date"
      BY <1>1, <3>2 DEF AgeCountsDays
    <3> QED BY <3>1, <3>2
  <2> QED BY <2>2, <2>3, <2>4, <2>5 DEF MeasuresAreHonest, ComparisonsAreExact
<1> QED BY <1>2, <1>3

LEMMA MeasuresStep == MeasuresInv /\ [MeasuresNext]_<<input, result>> => MeasuresInv'
<1> SUFFICES ASSUME MeasuresInv, [MeasuresNext]_<<input, result>> PROVE MeasuresInv'
  OBVIOUS
<1>1. CASE CollectProbe
  <2>1. input' = input /\ input.kind = "probe" /\ result' = SnapshotOf(ProbeOf(input))
    BY <1>1 DEF CollectProbe, Judge
  <2> QED BY <2>1 DEF MeasuresInv, Verdict
<1>2. CASE Compare
  <2>1. input' = input /\ input.kind = "drift" /\ result' = DriftCompare(input)
    BY <1>2 DEF Compare, Judge
  <2> QED BY <2>1 DEF MeasuresInv, Verdict
<1>3. CASE FindClone
  <2>1. input' = input /\ input.kind = "clone" /\ result' = CloneOf(input.rows, input.environment)
    BY <1>3 DEF FindClone, Judge
  <2> QED BY <2>1 DEF MeasuresInv, Verdict
<1>4. CASE DateClone
  <2>1. input' = input /\ input.kind = "date" /\ result' = AgeDays(input.date, input.today)
    BY <1>4 DEF DateClone, Judge
  <2> QED BY <2>1 DEF MeasuresInv, Verdict
<1>5. CASE UNCHANGED <<input, result>>
  BY <1>5 DEF MeasuresInv, Verdict
<1> QED BY <1>1, <1>2, <1>3, <1>4, <1>5 DEF MeasuresNext

\* Of any answers of an instance, any two inventories, any list of clones and
\* any date: a row says no more and no less than what was read, a comparison
\* counts exactly what differs, the newest clone under any of an Environment's
\* names is found, and its age counts days (collector.rs, drift.rs,
\* last_clone.rs).
THEOREM HonestMeasures == MeasuresSpec => []MeasuresAreHonest
<1>1. MeasuresInit => MeasuresInv
  BY DEF MeasuresInit, MeasuresInv
<1>2. MeasuresSpec => []MeasuresInv
  BY <1>1, MeasuresStep, PTL DEF MeasuresSpec
<1> QED BY <1>2, MeasuresHold, PTL

-----------------------------------------------------------------------------
(* What is kept of a sequence, and a sequence in the order of time.        *)

LEMMA FlattenType ==
  ASSUME NEW S, NEW ss \in Seq(Seq(S)) PROVE FlattenSeq(ss) \in Seq(S)
<1> DEFINE G == Nat \X Seq(S)
<1>1. <<0, <<>>>> \in G
  <2>1. <<>> \in Seq(S)
    OBVIOUS
  <2> QED BY <2>1
<1>2. ASSUME NEW j \in 1 .. Len(ss), NEW s \in Seq(S) PROVE <<j, s \o ss[j]>> \in G
  <2>1. ss[j] \in Seq(S) /\ j \in Nat
    OBVIOUS
  <2>2. s \o ss[j] \in Seq(S)
    BY <2>1
  <2> QED BY <2>1, <2>2
<1> HIDE DEF G
<1> QED BY <1>1, <1>2, FlattenBy

\* What is appended comes last.
LEMMA FlattenAppend ==
  ASSUME NEW S, NEW ss \in Seq(Seq(S)), NEW t \in Seq(S)
  PROVE  FlattenSeq(Append(ss, t)) = FlattenSeq(ss) \o t
<1> DEFINE r == Append(ss, t)
           n == Len(ss)
<1>1. r \in Seq(Seq(S)) /\ Len(r) = n + 1 /\ r[n + 1] = t /\ n \in Nat /\ \A i \in 1..n : r[i] = ss[i]
  OBVIOUS
<1> HIDE DEF r
<1>2. PICK g : /\ FlattenSeq(r) = g[n + 1]
               /\ \A i \in 1 .. n + 1 : g[i] = IF i = 1 THEN r[i] ELSE g[i - 1] \o r[i]
  <2>1. Len(r) # 0 /\ Len(r) = n + 1
    BY <1>1
  <2>2. \E g : /\ FlattenSeq(r) = g[Len(r)]
               /\ \A i \in 1 .. Len(r) : g[i] = IF i = 1 THEN r[i] ELSE g[i - 1] \o r[i]
    BY <1>1, <2>1, Unfolded
  <2> QED BY <2>1, <2>2
<1>3. CASE n = 0
  <2>1. FlattenSeq(ss) = <<>>
    BY <1>3 DEF FlattenSeq
  <2>2. g[1] = r[1] /\ r[1] = t
    BY <1>1, <1>2, <1>3
  <2> QED BY <1>2, <1>3, <2>1, <2>2 DEF r
<1>4. CASE n # 0
  <2>1. PICK f : /\ FlattenSeq(ss) = f[n]
                 /\ \A i \in 1..n : f[i] = IF i = 1 THEN ss[i] ELSE f[i - 1] \o ss[i]
    BY <1>4, Unfolded
  <2> DEFINE U == {m \in Nat : m + 1 <= n => g[m + 1] = f[m + 1]}
  <2>2. 0 \in U
    <3>1. 1 \in 1..n => g[1] = r[1] /\ f[1] = ss[1] /\ r[1] = ss[1]
      BY <1>1, <1>2, <2>1
    <3> QED BY <1>1, <3>1
  <2>3. ASSUME NEW m \in Nat, m \in U PROVE m + 1 \in U
    <3> SUFFICES ASSUME m + 2 <= n PROVE g[m + 2] = f[m + 2]
      OBVIOUS
    <3>1. m + 2 \in 1..n /\ m + 2 \in 1 .. n + 1 /\ m + 2 # 1 /\ (m + 2) - 1 = m + 1 /\ m + 1 <= n
      BY <1>1
    <3>2. g[m + 2] = g[m + 1] \o r[m + 2] /\ f[m + 2] = f[m + 1] \o ss[m + 2]
      BY <1>2, <2>1, <3>1
    <3> QED BY <1>1, <2>3, <3>1, <3>2
  <2> HIDE DEF U
  <2>4. n - 1 \in U
    <3>1. n - 1 \in Nat
      BY <1>1, <1>4
    <3> QED BY <2>2, <2>3, <3>1, NatInd
  <2>5. g[n] = f[n]
    <3>1. (n - 1) + 1 = n /\ n <= n
      BY <1>1
    <3> QED BY <2>4, <3>1 DEF U
  <2>6. g[n + 1] = g[n] \o r[n + 1]
    <3>1. n + 1 \in 1 .. n + 1 /\ n + 1 # 1 /\ (n + 1) - 1 = n
      BY <1>1, <1>4
    <3> QED BY <1>2, <3>1
  <2> QED BY <1>1, <1>2, <2>1, <2>5, <2>6 DEF r
<1> QED BY <1>3, <1>4

LEMMA KeptLists ==
  ASSUME NEW T, NEW s \in Seq(T), NEW K \in SUBSET DOMAIN s
  PROVE  /\ Kept(s, K) \in Seq(T) /\ Len(Kept(s, K)) = Cardinality(K)
         /\ \E at : Lists(Kept(s, K), at, K, s)
<1> DEFINE ss == [i \in 1 .. Len(s) |-> IF i \in K THEN <<s[i]>> ELSE <<>>]
<1>1. DOMAIN s = 1 .. Len(s) /\ Len(s) \in Nat /\ s \in [1 .. Len(s) -> T]
  OBVIOUS
<1>2. Kept(s, K) = FlattenSeq(ss)
  BY <1>1 DEF Kept
<1>3. K \in SUBSET (1 .. Len(s))
  BY <1>1
<1>4. FlattenSeq(ss) \in Seq(T) /\ \E at : Lists(FlattenSeq(ss), at, K, s)
  <2> DEFINE tt == ss
  <2>1. tt = [i \in 1 .. Len(s) |-> IF i \in K THEN <<s[i]>> ELSE <<>>]
    OBVIOUS
  <2> HIDE DEF tt
  <2>2. FlattenSeq(tt) \in Seq(T) /\ \E at : Lists(FlattenSeq(tt), at, K, s)
    BY <1>1, <1>3, <2>1, Filtered
  <2> QED BY <2>2 DEF tt
<1> HIDE DEF ss
<1> QED BY <1>1, <1>2, <1>3, <1>4, KeptCount

LEMMA KeptAppend ==
  ASSUME NEW T, NEW s \in Seq(T), NEW v \in T, NEW K \in SUBSET (1 .. Len(s) + 1)
  PROVE  Kept(Append(s, v), K)
           = IF Len(s) + 1 \in K THEN Append(Kept(s, K \ {Len(s) + 1}), v)
             ELSE Kept(s, K \ {Len(s) + 1})
<1> DEFINE n == Len(s)
           J == K \ {n + 1}
           ss == [i \in 1..n |-> IF i \in J THEN <<s[i]>> ELSE <<>>]
           t  == IF n + 1 \in K THEN <<v>> ELSE <<>>
<1>1. ss \in Seq(Seq(T)) /\ t \in Seq(T)
  <2>1. \A i \in 1..n : (IF i \in J THEN <<s[i]>> ELSE <<>>) \in Seq(T)
    OBVIOUS
  <2>2. ss \in [1..n -> Seq(T)] /\ n \in Nat
    BY <2>1
  <2> QED BY <2>2
<1>2. Kept(s, J) = FlattenSeq(ss)
  BY DEF Kept
<1>3. [i \in DOMAIN Append(s, v) |-> IF i \in K THEN <<Append(s, v)[i]>> ELSE <<>>] = Append(ss, t)
  <2> DEFINE g == [i \in DOMAIN Append(s, v) |-> IF i \in K THEN <<Append(s, v)[i]>> ELSE <<>>]
  <2>1. DOMAIN g = 1 .. n + 1 /\ DOMAIN Append(ss, t) = 1 .. n + 1
    OBVIOUS
  <2>2. ASSUME NEW i \in 1 .. n + 1 PROVE g[i] = Append(ss, t)[i]
    <3>1. CASE i = n + 1
      BY <3>1
    <3>2. CASE i # n + 1
      <4>1. i \in 1..n /\ Append(s, v)[i] = s[i] /\ Append(ss, t)[i] = ss[i]
        BY <3>2
      <4> QED BY <4>1
    <3> QED BY <3>1, <3>2
  <2>3. Append(ss, t) \in Seq(Seq(T))
    BY <1>1
  <2>4. g = [i \in DOMAIN g |-> g[i]] /\ Append(ss, t) = [i \in DOMAIN Append(ss, t) |-> Append(ss, t)[i]]
    BY <2>3
  <2> HIDE DEF g
  <2> QED BY <2>1, <2>2, <2>4 DEF g
<1>4. FlattenSeq(Append(ss, t)) = FlattenSeq(ss) \o t /\ FlattenSeq(ss) \in Seq(T)
  <2> HIDE DEF ss, t
  <2> QED BY <1>1, FlattenAppend, FlattenType
<1>5. Kept(Append(s, v), K) = Kept(s, J) \o t
  BY <1>2, <1>3, <1>4 DEF Kept
<1>6. Kept(s, J) \in Seq(T)
  BY <1>2, <1>4
<1>7. Kept(s, J) \o t = IF n + 1 \in K THEN Append(Kept(s, J), v) ELSE Kept(s, J)
  <2> DEFINE r == Kept(s, J)
  <2>1. r \in Seq(T)
    BY <1>6
  <2> HIDE DEF r
  <2>2. r \o <<v>> = Append(r, v) /\ r \o <<>> = r
    BY <2>1
  <2> QED BY <2>2 DEF r
<1> HIDE DEF ss, t
<1> QED BY <1>5, <1>7

\* r is s in another order, that of the keys.
OrderedBy(r, s, from, key) ==
  /\ from \in [1 .. Len(s) -> 1 .. Len(s)]
  /\ \A k \in 1 .. Len(s) : r[k] = s[from[k]]
  /\ \A i \in 1 .. Len(s) : \E k \in 1 .. Len(s) : from[k] = i
  /\ \A j, k \in 1 .. Len(s) : from[j] = from[k] => j = k
  /\ \A j, k \in 1 .. Len(s) : j <= k => key[from[j]] <= key[from[k]]

LEMMA Ordered ==
  ASSUME NEW T, NEW points \in Seq(T), NEW key, \A i \in 1 .. Len(points) : key[i] \in Int
  PROVE  /\ ByKey(points, key) \in Seq(T) /\ Len(ByKey(points, key)) = Len(points)
         /\ \E from : OrderedBy(ByKey(points, key), points, from, key)
<1> DEFINE n == Len(points)
           D == 1..n
           before(i, j) == key[i] < key[j] \/ (key[i] = key[j] /\ i <= j)
           UpTo(j) == {i \in D : before(i, j)}
           place == [j \in D |-> Cardinality(UpTo(j))]
           from(k) == CHOOSE j \in D : place[j] = k
<1>1. n \in Nat /\ DOMAIN points = D /\ \A i \in D : points[i] \in T /\ key[i] \in Int
  OBVIOUS
<1>2. IsFiniteSet(D) /\ Cardinality(D) = n
  <2>1. 1 \in Int /\ n \in Int
    BY <1>1
  <2>2. IsFiniteSet(1..n) /\ Cardinality(1..n) = IF 1 > n THEN 0 ELSE n - 1 + 1
    BY <2>1, FS_Interval
  <2> QED BY <1>1, <2>2
<1>3. ByKey(points, key) = [k \in D |-> points[from(k)]]
  BY <1>1 DEF ByKey
<1>4. \A j \in D : IsFiniteSet(UpTo(j)) /\ place[j] \in D
  <2> TAKE j \in D
  <2>1. UpTo(j) \in SUBSET D /\ j \in UpTo(j)
    BY <1>1
  <2>2. IsFiniteSet(UpTo(j)) /\ Cardinality(UpTo(j)) <= n /\ Cardinality(UpTo(j)) \in Nat
    <3> HIDE DEF UpTo, D
    <3> QED BY <1>2, <2>1, FS_Subset, FS_CardinalityType
  <2>3. Cardinality(UpTo(j)) # 0
    <3> HIDE DEF UpTo, D
    <3> QED BY <2>1, <2>2, FS_EmptySet
  <2>4. place[j] = Cardinality(UpTo(j))
    OBVIOUS
  <2> HIDE DEF place, UpTo
  <2> QED BY <2>2, <2>3, <2>4
<1>5. ASSUME NEW i \in D, NEW j \in D, i # j, before(i, j) PROVE place[i] < place[j]
  <2>1. UpTo(i) \in SUBSET UpTo(j)
    BY <1>1, <1>5
  <2>2. j \in UpTo(j) /\ j \notin UpTo(i)
    BY <1>1, <1>5
  <2>3. place[i] = Cardinality(UpTo(i)) /\ place[j] = Cardinality(UpTo(j)) /\ place[i] \in Nat /\ place[j] \in Nat
    <3>1. place[i] = Cardinality(UpTo(i)) /\ place[j] = Cardinality(UpTo(j))
      OBVIOUS
    <3>2. place[i] \in D /\ place[j] \in D
      BY <1>4
    <3> HIDE DEF place, UpTo
    <3> QED BY <3>1, <3>2
  <2>4. IsFiniteSet(UpTo(j))
    BY <1>4
  <2> HIDE DEF place, UpTo, D
  <2>5. /\ Cardinality(UpTo(i)) <= Cardinality(UpTo(j))
        /\ Cardinality(UpTo(j)) = Cardinality(UpTo(i)) => UpTo(j) = UpTo(i)
    BY <2>1, <2>4, FS_Subset
  <2> QED BY <2>2, <2>3, <2>5
<1>6. \A i, j \in D : i # j => before(i, j) \/ before(j, i)
  BY <1>1
<1>7. place \in Injection(D, D)
  <2>1. place \in [D -> D]
    <3>1. \A j \in D : place[j] \in D
      BY <1>4
    <3>2. place = [j \in D |-> place[j]]
      OBVIOUS
    <3> HIDE DEF place, D
    <3> QED BY <3>1, <3>2
  <2>2. ASSUME NEW i \in D, NEW j \in D, place[i] = place[j] PROVE i = j
    <3> SUFFICES ASSUME i # j PROVE FALSE
      OBVIOUS
    <3>1. place[i] < place[j] \/ place[j] < place[i]
      <4> HIDE DEF place, before, D
      <4> QED BY <1>5, <1>6
    <3>2. place[i] \in Int /\ place[j] \in Int
      <4>1. place[i] \in D /\ place[j] \in D
        BY <2>1
      <4> HIDE DEF place
      <4> QED BY <4>1
    <3> HIDE DEF place
    <3> QED BY <2>2, <3>1, <3>2
  <2> HIDE DEF place, D
  <2> QED BY <2>1, <2>2, Zenon DEF Injection, IsInjective
<1>8. \A k \in D : \E j \in D : place[j] = k
  <2>1. place \in Surjection(D, D)
    <3> HIDE DEF place, D
    <3> QED BY <1>2, <1>7, FS_Injection
  <2> HIDE DEF place, D
  <2> QED BY <2>1, Zenon DEF Surjection
<1>9. \A k \in D : from(k) \in D /\ place[from(k)] = k
  <2> HIDE DEF place, D
  <2> QED BY <1>8
<1>10. \A i \in D : place[i] \in D /\ from(place[i]) = i
  <2> TAKE i \in D
  <2>1. place[i] \in D
    BY <1>4
  <2>2. \A j \in D : place[j] = place[i] => j = i
    <3> HIDE DEF place, D
    <3> QED BY <1>7, Zenon DEF Injection, IsInjective
  <2> HIDE DEF place, D, from
  <2> QED BY <1>9, <2>1, <2>2
<1>11. \A j, k \in D : j <= k => key[from(j)] <= key[from(k)]
  <2> TAKE j, k \in D
  <2> SUFFICES ASSUME j <= k, ~(key[from(j)] <= key[from(k)]) PROVE FALSE
    OBVIOUS
  <2>1. from(j) \in D /\ from(k) \in D /\ place[from(j)] = j /\ place[from(k)] = k
    <3> HIDE DEF place, D, from
    <3> QED BY <1>9
  <2> HIDE DEF from
  <2>2. key[from(j)] \in Int /\ key[from(k)] \in Int
    BY <1>1, <2>1
  <2>3. before(from(k), from(j)) /\ from(k) # from(j)
    BY <2>2
  <2>4. place[from(k)] < place[from(j)]
    <3> HIDE DEF place, D, before
    <3> QED BY <1>5, <2>1, <2>3
  <2>5. j \in Int /\ k \in Int
    OBVIOUS
  <2> HIDE DEF place
  <2> QED BY <2>1, <2>4, <2>5
<1>12. ByKey(points, key) \in Seq(T) /\ Len(ByKey(points, key)) = n
  <2>1. \A k \in D : points[from(k)] \in T
    <3> HIDE DEF D, from
    <3> QED BY <1>1, <1>9
  <2> HIDE DEF from
  <2> QED BY <1>1, <1>3, <2>1
<1>13. \A k \in D : ByKey(points, key)[k] = points[from(k)]
  <2> HIDE DEF from, D
  <2> QED BY <1>3
<1> HIDE DEF from, place, before, UpTo
<1>14. \A i \in D : \E k \in D : from(k) = i
  <2> HIDE DEF D
  <2> QED BY <1>10
<1>15. \A j, k \in D : from(j) = from(k) => j = k
  <2> HIDE DEF D
  <2> QED BY <1>9
<1> DEFINE f == [k \in D |-> from(k)]
<1>16. f \in [D -> D] /\ \A k \in D : f[k] = from(k)
  <2> HIDE DEF D
  <2> QED BY <1>9
<1> HIDE DEF f, D, from
<1>17. /\ \A k \in D : ByKey(points, key)[k] = points[f[k]]
       /\ \A i \in D : \E k \in D : f[k] = i
       /\ \A j, k \in D : f[j] = f[k] => j = k
       /\ \A j, k \in D : j <= k => key[f[j]] <= key[f[k]]
  <2>1. \A k \in D : ByKey(points, key)[k] = points[f[k]]
    BY <1>13, <1>16
  <2>2. \A i \in D : \E k \in D : f[k] = i
    BY <1>14, <1>16
  <2>3. \A j, k \in D : f[j] = f[k] => j = k
    BY <1>15, <1>16
  <2>4. \A j, k \in D : j <= k => key[f[j]] <= key[f[k]]
    BY <1>11, <1>16
  <2> QED BY <2>1, <2>2, <2>3, <2>4
<1>18. \E g \in [D -> D] :
         /\ \A k \in D : ByKey(points, key)[k] = points[g[k]]
         /\ \A i \in D : \E k \in D : g[k] = i
         /\ \A j, k \in D : g[j] = g[k] => j = k
         /\ \A j, k \in D : j <= k => key[g[j]] <= key[g[k]]
  <2>1. f \in [D -> D]
    BY <1>16
  <2> QED BY <1>17, <2>1, Zenon
<1>19. \E g : OrderedBy(ByKey(points, key), points, g, key)
  BY <1>18 DEF OrderedBy, D
<1> QED BY <1>12, <1>19

\* A sorted sequence is the sequence in another order, which is that of time.
LEMMA Sorted ==
  ASSUME NEW T, NEW points \in Seq(T), \A x \in T : x.at \in Int
  PROVE  /\ InOrder(points) \in Seq(T) /\ Len(InOrder(points)) = Len(points)
         /\ \A i \in 1 .. Len(points) : \E k \in 1 .. Len(points) : InOrder(points)[k] = points[i]
         /\ \A j, k \in 1 .. Len(points) : j <= k => InOrder(points)[j].at <= InOrder(points)[k].at
<1> DEFINE key == [i \in DOMAIN points |-> points[i].at]
           n == Len(points)
<1>1. /\ DOMAIN points = 1..n /\ InOrder(points) = ByKey(points, key)
      /\ \A i \in 1..n : key[i] = points[i].at /\ key[i] \in Int
  BY DEF InOrder
<1> HIDE DEF key
<1>2. PICK from \in [1..n -> 1..n] :
        /\ \A k \in 1..n : ByKey(points, key)[k] = points[from[k]]
        /\ \A i \in 1..n : \E k \in 1..n : from[k] = i
        /\ \A j, k \in 1..n : from[j] = from[k] => j = k
        /\ \A j, k \in 1..n : j <= k => key[from[j]] <= key[from[k]]
  <2>1. PICK from : OrderedBy(ByKey(points, key), points, from, key)
    BY <1>1, Ordered
  <2> QED BY <2>1 DEF OrderedBy
<1>3. ByKey(points, key) \in Seq(T) /\ Len(ByKey(points, key)) = n
  BY <1>1, Ordered
<1>4. \A j, k \in 1..n : j <= k => InOrder(points)[j].at <= InOrder(points)[k].at
  <2> TAKE j, k \in 1..n
  <2> HIDE DEF n
  <2>1. from[j] \in 1..n /\ from[k] \in 1..n
    OBVIOUS
  <2>2. InOrder(points)[j].at = key[from[j]] /\ InOrder(points)[k].at = key[from[k]]
    <3>1. InOrder(points)[j] = points[from[j]] /\ InOrder(points)[k] = points[from[k]]
      BY <1>1, <1>2
    <3> QED BY <1>1, <2>1, <3>1
  <2>3. j <= k => key[from[j]] <= key[from[k]]
    BY <1>2
  <2> QED BY <2>2, <2>3
<1>5. \A i \in 1..n : \E k \in 1..n : InOrder(points)[k] = points[i]
  <2> TAKE i \in 1..n
  <2> HIDE DEF n
  <2>1. PICK k \in 1..n : from[k] = i
    BY <1>2
  <2> QED BY <1>1, <1>2, <2>1
<1> QED BY <1>1, <1>3, <1>4, <1>5

-----------------------------------------------------------------------------
(* Trends and timelines.                                                   *)

\* Points and events each have a time.
Timed(s) == \E E : s \in Seq(E) /\ \A e \in E : e.at \in Int

\* How many of the first k values are there, and the breaks after m of them.
Filled(s, k) == Cardinality({i \in 1..k : s[i] # Null})
Breaks(s, m) == {k \in DOMAIN s : s[k] = Null /\ Filled(s, k) = m}

LEMMA FilledType ==
  ASSUME NEW s, NEW k \in Nat
  PROVE  /\ IsFiniteSet({i \in 1..k : s[i] # Null}) /\ Filled(s, k) \in Nat
         /\ Filled(s, k) > 0 <=> \E i \in 1..k : s[i] # Null
<1> DEFINE F == {i \in 1..k : s[i] # Null}
<1>1. IsFiniteSet(1..k)
  <2>1. 1 \in Int /\ k \in Int
    OBVIOUS
  <2> QED BY <2>1, FS_Interval
<1>2. F \in SUBSET (1..k)
  OBVIOUS
<1>3. IsFiniteSet(F) /\ Cardinality(F) \in Nat /\ (Cardinality(F) = 0 <=> F = {})
  <2> HIDE DEF F
  <2> QED BY <1>1, <1>2, FS_Subset, FS_CardinalityType, FS_EmptySet
<1>4. Cardinality(F) > 0 <=> F # {}
  <2> HIDE DEF F
  <2> QED BY <1>3
<1> QED BY <1>3, <1>4 DEF Filled

LEMMA FilledStep ==
  ASSUME NEW s, NEW k \in Nat
  PROVE  Filled(s, k + 1) = IF s[k + 1] = Null THEN Filled(s, k) ELSE Filled(s, k) + 1
<1> DEFINE F == {i \in 1..k : s[i] # Null}
<1>1. IsFiniteSet(F) /\ Filled(s, k) = Cardinality(F)
  BY FilledType DEF Filled
<1>2. Filled(s, k + 1) = Cardinality({i \in 1 .. k + 1 : s[i] # Null})
  BY DEF Filled
<1>3. CASE s[k + 1] = Null
  <2>1. {i \in 1 .. k + 1 : s[i] # Null} = F
    BY <1>3
  <2> QED BY <1>1, <1>2, <1>3, <2>1
<1>4. CASE s[k + 1] # Null
  <2>1. {i \in 1 .. k + 1 : s[i] # Null} = F \cup {k + 1} /\ k + 1 \notin F
    BY <1>4
  <2> HIDE DEF F
  <2>2. Cardinality(F \cup {k + 1}) = Cardinality(F) + 1
    BY <1>1, <2>1, FS_AddElement
  <2> QED BY <1>1, <1>2, <1>4, <2>1, <2>2
<1> QED BY <1>3, <1>4

LEMMA FilledSame ==
  ASSUME NEW s, NEW t, NEW k \in Nat, \A i \in 1..k : s[i] = t[i]
  PROVE  Filled(s, k) = Filled(t, k)
<1>1. {i \in 1..k : s[i] # Null} = {i \in 1..k : t[i] # Null}
  OBVIOUS
<1> QED BY <1>1 DEF Filled

LEMMA ValuedAppend ==
  ASSUME NEW T, NEW s \in Seq(T), NEW v \in T
  PROVE  Valued(Append(s, v)) = IF v = Null THEN Valued(s) ELSE Append(Valued(s), v)
<1> DEFINE r == Append(s, v)
           K == {i \in DOMAIN r : r[i] # Null}
           J == {i \in DOMAIN s : s[i] # Null}
           n == Len(s)
<1>1. /\ DOMAIN r = 1 .. n + 1 /\ r[n + 1] = v /\ DOMAIN s = 1..n /\ n \in Nat
      /\ \A i \in 1..n : r[i] = s[i]
  OBVIOUS
<1>2. K \in SUBSET (1 .. n + 1) /\ (n + 1 \in K <=> v # Null) /\ K \ {n + 1} = J
  <2> HIDE DEF r
  <2>1. K \in SUBSET (1 .. n + 1) /\ (n + 1 \in K <=> v # Null)
    BY <1>1
  <2>2. \A i : i \in K \ {n + 1} <=> i \in 1..n /\ r[i] # Null
    BY <1>1
  <2>3. \A i : i \in J <=> i \in 1..n /\ r[i] # Null
    BY <1>1
  <2> HIDE DEF K, J
  <2>4. K \ {n + 1} = J
    BY <2>2, <2>3
  <2> QED BY <2>1, <2>4
<1>3. Kept(r, K) = IF n + 1 \in K THEN Append(Kept(s, K \ {n + 1}), v) ELSE Kept(s, K \ {n + 1})
  <2> HIDE DEF K
  <2> QED BY <1>2, KeptAppend
<1>4. Valued(r) = Kept(r, K) /\ Valued(s) = Kept(s, J)
  BY DEF Valued
<1> HIDE DEF K, J, r
<1> QED BY <1>2, <1>3, <1>4 DEF r

\* A value or a gap at the end of a line.
LEMMA FilledAppend ==
  ASSUME NEW T, NEW s \in Seq(T), NEW v \in T
  PROVE  /\ Filled(Append(s, v), Len(s) + 1) = IF v = Null THEN Filled(s, Len(s)) ELSE Filled(s, Len(s)) + 1
         /\ \A k \in 1 .. Len(s) : Filled(Append(s, v), k) = Filled(s, k)
<1> DEFINE r == Append(s, v)
           n == Len(s)
<1>1. r[n + 1] = v /\ n \in Nat /\ \A i \in 1..n : r[i] = s[i]
  OBVIOUS
<1> HIDE DEF r
<1>2. \A k \in 1..n : Filled(r, k) = Filled(s, k)
  <2> TAKE k \in 1..n
  <2>1. k \in Nat /\ \A i \in 1..k : r[i] = s[i]
    BY <1>1
  <2> QED BY <2>1, FilledSame
<1>3. Filled(r, n) = Filled(s, n)
  BY <1>1, FilledSame
<1>4. Filled(r, n + 1) = IF v = Null THEN Filled(s, n) ELSE Filled(s, n) + 1
  BY <1>1, <1>3, FilledStep
<1> QED BY <1>2, <1>4 DEF r

LEMMA BreaksAppend ==
  ASSUME NEW T, NEW s \in Seq(T), NEW v \in T, NEW m
  PROVE  /\ IsFiniteSet(Breaks(s, m)) /\ Len(s) + 1 \notin Breaks(s, m)
         /\ Breaks(Append(s, v), m)
              = Breaks(s, m) \cup (IF v = Null /\ Filled(s, Len(s)) = m THEN {Len(s) + 1} ELSE {})
<1> DEFINE r == Append(s, v)
           n == Len(s)
<1>1. /\ DOMAIN r = 1 .. n + 1 /\ r[n + 1] = v /\ DOMAIN s = 1..n /\ n \in Nat
      /\ \A i \in 1..n : r[i] = s[i]
  OBVIOUS
<1>2. IsFiniteSet(Breaks(s, m)) /\ n + 1 \notin Breaks(s, m)
  <2>1. 1 \in Int /\ n \in Int
    BY <1>1
  <2>2. IsFiniteSet(1..n)
    BY <2>1, FS_Interval
  <2>3. Breaks(s, m) \in SUBSET (1..n)
    BY <1>1 DEF Breaks
  <2>4. n + 1 \notin 1..n
    BY <1>1
  <2> QED BY <2>2, <2>3, <2>4, FS_Subset
<1> HIDE DEF r
<1>3. \A k \in 1..n : Filled(r, k) = Filled(s, k)
  BY FilledAppend DEF r
<1>5. Filled(r, n + 1) = IF v = Null THEN Filled(s, n) ELSE Filled(s, n) + 1
  BY FilledAppend DEF r
<1>6. \A k : k \in Breaks(r, m) <=> \/ k \in Breaks(s, m)
                                    \/ k = n + 1 /\ v = Null /\ Filled(s, n) = m
  <2> TAKE k
  <2>1. k \in 1 .. n + 1 <=> k \in 1..n \/ k = n + 1
    BY <1>1
  <2>2. k \in 1..n => k # n + 1
    BY <1>1
  <2> QED BY <1>1, <1>3, <1>5, <2>1, <2>2 DEF Breaks
<1>7. Breaks(r, m) = Breaks(s, m) \cup (IF v = Null /\ Filled(s, n) = m THEN {n + 1} ELSE {})
  BY <1>6
<1> QED BY <1>2, <1>7 DEF r

TrendWorld(c) == c.kind = "trend" /\ Timed(c.points)

LEMMA LineHolds ==
  ASSUME TrendWorld(input), result = SparklineWithGaps(input.points)
  PROVE  LineBreaksAtGaps
<1> DEFINE p == InOrder(input.points)
           n == Len(p)
           V == [i \in DOMAIN p |-> p[i].value]
           far(i) == p[i].at - p[i-1].at > GapThreshold
           begun(i) == \E j \in 1 .. i - 1 : p[j].value # Null
           gap(i) == i > 1 /\ begun(i) /\ far(i)
           g(i) == IF gap(i) THEN <<Null>> ELSE <<>>
           v(i) == IF p[i].value # Null THEN <<p[i].value>> ELSE <<>>
           ss == [i \in DOMAIN p |-> g(i) \o v(i)]
           Gaps(j, m) == {i \in 2..j : Filled(V, i - 1) > 0 /\ far(i) /\ Filled(V, i - 1) = m}
<1>1. PICK E : p \in Seq(E)
  <2>1. PICK E : input.points \in Seq(E) /\ \A e \in E : e.at \in Int
    BY DEF TrendWorld, Timed
  <2> QED BY <2>1, Sorted
<1>2. result = FlattenSeq(ss)
  BY DEF SparklineWithGaps
<1> DEFINE S == {e.value : e \in E} \cup {Null}
<1> HIDE DEF p
<1>3. /\ n \in Nat /\ DOMAIN p = 1..n /\ V \in Seq(S) /\ Len(V) = n
      /\ \A i \in 1..n : V[i] = p[i].value /\ V[i] \in S
  <2>1. n \in Nat /\ DOMAIN p = 1..n
    BY <1>1
  <2>2. \A i \in 1..n : p[i].value \in S
    <3>1. \A i \in 1..n : p[i] \in E
      BY <1>1
    <3> HIDE DEF n
    <3> QED BY <3>1
  <2> HIDE DEF S
  <2> QED BY <2>1, <2>2
<1>4. Null \in S
  OBVIOUS
<1> HIDE DEF S
<1>5. \A i \in 1..n : begun(i) <=> Filled(V, i - 1) > 0
  <2> TAKE i \in 1..n
  <2>1. i - 1 \in Nat /\ \A j \in 1 .. i - 1 : j \in 1..n
    BY <1>3
  <2>2. \A j \in 1 .. i - 1 : V[j] = p[j].value
    BY <1>3, <2>1
  <2>3. Filled(V, i - 1) > 0 <=> \E j \in 1 .. i - 1 : V[j] # Null
    <3> HIDE DEF V
    <3> QED BY <2>1, FilledType
  <2> HIDE DEF V, n
  <2> QED BY <2>2, <2>3
<1>6. ss \in Seq(Seq(S)) /\ Len(ss) = n /\ \A i \in 1..n : ss[i] = g(i) \o v(i) /\ g(i) \in Seq(S) /\ v(i) \in Seq(S)
  <2>1. \A i \in 1..n : g(i) \in Seq(S) /\ v(i) \in Seq(S)
    <3> TAKE i \in 1..n
    <3>1. <<Null>> \in Seq(S) /\ <<>> \in Seq(S)
      BY <1>4
    <3>2. <<p[i].value>> \in Seq(S)
      BY <1>3
    <3> HIDE DEF gap, n, V
    <3> QED BY <3>1, <3>2
  <2>2. \A i \in 1..n : g(i) \o v(i) \in Seq(S)
    <3> HIDE DEF g, v, n
    <3> QED BY <2>1
  <2> HIDE DEF g, v, n
  <2>3. DOMAIN p = 1..n /\ n \in Nat
    BY <1>3 DEF n
  <2> QED BY <2>1, <2>2, <2>3
<1> DEFINE Good(j, s) == /\ Valued(s) = Valued(SubSeq(V, 1, j))
                         /\ Filled(s, Len(s)) = Filled(V, j)
                         /\ \A m : Cardinality(Breaks(s, m)) = Cardinality(Gaps(j, m))
           G == {x \in Nat \X Seq(S) : Good(x[1], x[2])}
<1>7. Good(0, <<>>)
  <2>1. SubSeq(V, 1, 0) = <<>> /\ Len(<<>>) = 0
    BY <1>3
  <2>2. Filled(<<>>, 0) = Filled(V, 0)
    BY FilledSame
  <2>3. \A m : Breaks(<<>>, m) = {} /\ Gaps(0, m) = {}
    BY DEF Breaks
  <2> HIDE DEF V, Gaps
  <2> QED BY <2>1, <2>2, <2>3
<1>8. ASSUME NEW j \in 1..n, NEW s \in Seq(S), Good(j - 1, s) PROVE Good(j, s \o ss[j])
  <2> DEFINE s1 == s \o g(j)
             s2 == s1 \o v(j)
             w == p[j].value
  <2>1. j \in Nat /\ j - 1 \in Nat /\ (j - 1) + 1 = j /\ w \in S /\ V[j] = w
    BY <1>3
  <2>2. s1 \in Seq(S) /\ s2 \in Seq(S) /\ s2 = s \o ss[j]
    <3>1. g(j) \in Seq(S) /\ v(j) \in Seq(S) /\ ss[j] = g(j) \o v(j)
      BY <1>6
    <3> HIDE DEF g, v, ss
    <3> QED BY <3>1
  <2>3. s1 = (IF gap(j) THEN Append(s, Null) ELSE s) /\ s2 = IF w = Null THEN s1 ELSE Append(s1, w)
    <3>1. s \o <<Null>> = Append(s, Null) /\ s \o <<>> = s
      BY <1>4
    <3>2. s1 \o <<w>> = Append(s1, w) /\ s1 \o <<>> = s1
      <4> HIDE DEF s1, w
      <4> QED BY <2>1, <2>2
    <3>3. s1 = IF gap(j) THEN Append(s, Null) ELSE s
      <4> HIDE DEF gap
      <4> QED BY <3>1
    <3>4. s2 = IF w = Null THEN s1 ELSE Append(s1, w)
      <4> HIDE DEF s1
      <4> QED BY <3>2
    <3> QED BY <3>3, <3>4
  <2>4. gap(j) <=> j > 1 /\ Filled(V, j - 1) > 0 /\ far(j)
    <3> HIDE DEF V, far, begun, n
    <3> QED BY <1>5
  <2>5. /\ Valued(s1) = Valued(s) /\ Filled(s1, Len(s1)) = Filled(s, Len(s))
        /\ \A m : Cardinality(Breaks(s1, m))
                    = Cardinality(Breaks(s, m)) + (IF gap(j) /\ Filled(s, Len(s)) = m THEN 1 ELSE 0)
    <3>1. CASE ~gap(j)
      <4>1. s1 = s
        BY <2>3, <3>1
      <4>2. \A m : Cardinality(Breaks(s, m)) \in Nat
        BY <1>4, BreaksAppend, FS_CardinalityType
      <4> HIDE DEF gap, s1
      <4> QED BY <3>1, <4>1, <4>2
    <3>2. CASE gap(j)
      <4>1. s1 = Append(s, Null) /\ Len(s1) = Len(s) + 1
        <5>1. s1 = Append(s, Null)
          BY <2>3, <3>2
        <5> HIDE DEF s1
        <5> QED BY <1>4, <5>1
      <4> HIDE DEF s1
      <4>2. Valued(s1) = Valued(s)
        BY <1>4, <4>1, ValuedAppend
      <4>3. Filled(s1, Len(s1)) = Filled(s, Len(s))
        BY <1>4, <4>1, FilledAppend
      <4>4. ASSUME NEW m
            PROVE  Cardinality(Breaks(s1, m))
                     = Cardinality(Breaks(s, m)) + (IF gap(j) /\ Filled(s, Len(s)) = m THEN 1 ELSE 0)
        <5>1. /\ IsFiniteSet(Breaks(s, m)) /\ Len(s) + 1 \notin Breaks(s, m)
              /\ Breaks(s1, m) = Breaks(s, m) \cup (IF Filled(s, Len(s)) = m THEN {Len(s) + 1} ELSE {})
          BY <1>4, <4>1, BreaksAppend
        <5>2. Cardinality(Breaks(s, m)) \in Nat
          BY <5>1, FS_CardinalityType
        <5>3. CASE Filled(s, Len(s)) = m
          <6>1. Breaks(s1, m) = Breaks(s, m) \cup {Len(s) + 1}
            BY <5>1, <5>3
          <6>2. Cardinality(Breaks(s, m) \cup {Len(s) + 1}) = Cardinality(Breaks(s, m)) + 1
            BY <5>1, FS_AddElement
          <6> QED BY <3>2, <5>3, <6>1, <6>2
        <5>4. CASE Filled(s, Len(s)) # m
          <6>1. Breaks(s1, m) = Breaks(s, m)
            BY <5>1, <5>4
          <6> QED BY <5>2, <5>4, <6>1
        <5> QED BY <5>3, <5>4
      <4> QED BY <4>2, <4>3, <4>4
    <3> QED BY <3>1, <3>2
  <2>6. /\ Valued(s2) = IF w = Null THEN Valued(s1) ELSE Append(Valued(s1), w)
        /\ Filled(s2, Len(s2)) = IF w = Null THEN Filled(s1, Len(s1)) ELSE Filled(s1, Len(s1)) + 1
        /\ \A m : Breaks(s2, m) = Breaks(s1, m)
    <3>1. CASE w = Null
      <4>1. s2 = s1
        BY <2>3, <3>1
      <4> QED BY <3>1, <4>1
    <3>2. CASE w # Null
      <4>1. s2 = Append(s1, w)
        BY <2>3, <3>2
      <4> HIDE DEF s1, s2, w
      <4>2. Len(s2) = Len(s1) + 1
        BY <2>1, <2>2, <4>1
      <4>3. Valued(s2) = Append(Valued(s1), w)
        BY <2>1, <2>2, <3>2, <4>1, ValuedAppend
      <4>4. Filled(s2, Len(s2)) = Filled(s1, Len(s1)) + 1
        <5>1. Filled(Append(s1, w), Len(s1) + 1)
                = IF w = Null THEN Filled(s1, Len(s1)) ELSE Filled(s1, Len(s1)) + 1
          BY <2>1, <2>2, FilledAppend
        <5> QED BY <3>2, <4>1, <4>2, <5>1
      <4>5. ASSUME NEW m PROVE Breaks(s2, m) = Breaks(s1, m)
        <5>1. Breaks(Append(s1, w), m)
                = Breaks(s1, m) \cup (IF w = Null /\ Filled(s1, Len(s1)) = m THEN {Len(s1) + 1} ELSE {})
          BY <2>1, <2>2, BreaksAppend
        <5> QED BY <3>2, <4>1, <5>1
      <4> QED BY <3>2, <4>3, <4>4, <4>5
    <3> QED BY <3>1, <3>2
  <2>7. Filled(V, j) = IF w = Null THEN Filled(V, j - 1) ELSE Filled(V, j - 1) + 1
    <3> HIDE DEF V, w
    <3> QED BY <2>1, FilledStep
  <2>8. Valued(SubSeq(V, 1, j)) = IF w = Null THEN Valued(SubSeq(V, 1, j - 1)) ELSE Append(Valued(SubSeq(V, 1, j - 1)), w)
    <3> HIDE DEF V, w, n
    <3>1. V \in Seq(S) /\ Len(V) = n /\ n \in Nat
      BY <1>3
    <3>2. SubSeq(V, 1, j) = Append(SubSeq(V, 1, j - 1), w) /\ SubSeq(V, 1, j - 1) \in Seq(S)
      BY <2>1, <3>1
    <3> QED BY <2>1, <3>2, ValuedAppend
  <2>9. ASSUME NEW m
        PROVE  Cardinality(Gaps(j, m)) = Cardinality(Gaps(j - 1, m)) + (IF gap(j) /\ Filled(V, j - 1) = m THEN 1 ELSE 0)
    <3>1. IsFiniteSet(Gaps(j - 1, m)) /\ j \notin Gaps(j - 1, m)
      <4>1. 2 \in Int /\ j - 1 \in Int
        BY <2>1
      <4>2. IsFiniteSet(2 .. j - 1) /\ j \notin 2 .. j - 1
        BY <4>1, FS_Interval
      <4>3. Gaps(j - 1, m) \in SUBSET (2 .. j - 1)
        OBVIOUS
      <4> HIDE DEF Gaps
      <4> QED BY <4>2, <4>3, FS_Subset
    <3>2. Cardinality(Gaps(j - 1, m)) \in Nat
      BY <3>1, FS_CardinalityType
    <3>3. Gaps(j, m) = Gaps(j - 1, m) \cup (IF gap(j) /\ Filled(V, j - 1) = m THEN {j} ELSE {})
      <4>1. \A i : i \in 2..j <=> i \in 2 .. j - 1 \/ (i = j /\ j > 1)
        BY <2>1
      <4> HIDE DEF V, far, gap
      <4> QED BY <2>4, <4>1
    <3>4. CASE gap(j) /\ Filled(V, j - 1) = m
      <4> HIDE DEF Gaps, gap, V
      <4>1. Gaps(j, m) = Gaps(j - 1, m) \cup {j}
        BY <3>3, <3>4
      <4>2. Cardinality(Gaps(j - 1, m) \cup {j}) = Cardinality(Gaps(j - 1, m)) + 1
        BY <3>1, FS_AddElement
      <4> QED BY <3>4, <4>1, <4>2
    <3>5. CASE ~(gap(j) /\ Filled(V, j - 1) = m)
      <4> HIDE DEF Gaps, gap, V
      <4>1. Gaps(j, m) = Gaps(j - 1, m)
        BY <3>3, <3>5
      <4> QED BY <3>2, <3>5, <4>1
    <3> QED BY <3>4, <3>5
  <2> HIDE DEF V, Gaps, gap, s1, s2, w, ss, g, v
  <2>10. Valued(s2) = Valued(SubSeq(V, 1, j))
    BY <1>8, <2>5, <2>6, <2>8
  <2>11. Filled(s2, Len(s2)) = Filled(V, j)
    BY <1>8, <2>5, <2>6, <2>7
  <2>12. \A m : Cardinality(Breaks(s2, m)) = Cardinality(Gaps(j, m))
    BY <1>8, <2>5, <2>6, <2>9
  <2> QED BY <2>2, <2>10, <2>11, <2>12
<1>9. FlattenSeq(ss) \in Seq(S) /\ Good(n, FlattenSeq(ss))
  <2>1. <<0, <<>>>> \in G
    <3>1. <<0, <<>>>> \in Nat \X Seq(S) /\ <<0, <<>>>>[1] = 0 /\ <<0, <<>>>>[2] = <<>>
      <4>1. <<>> \in Seq(S)
        OBVIOUS
      <4> QED BY <4>1
    <3> HIDE DEF Good
    <3> QED BY <1>7, <3>1
  <2>2. ASSUME NEW j \in 1 .. Len(ss), NEW s \in Seq(S), <<j - 1, s>> \in G PROVE <<j, s \o ss[j]>> \in G
    <3>1. j \in 1..n /\ j \in Nat /\ j - 1 \in Nat
      BY <1>3, <1>6
    <3>2. <<j - 1, s>>[1] = j - 1 /\ <<j - 1, s>>[2] = s
      OBVIOUS
    <3>3. Good(j - 1, s)
      <4> HIDE DEF Good
      <4> QED BY <2>2, <3>2
    <3>4. Good(j, s \o ss[j])
      <4> HIDE DEF Good, n, ss
      <4> QED BY <1>8, <3>1, <3>3
    <3>5. s \o ss[j] \in Seq(S)
      <4> HIDE DEF ss, n
      <4>1. ss[j] \in Seq(S)
        BY <1>6, <3>1
      <4> QED BY <4>1
    <3> DEFINE r == s \o ss[j]
    <3>6. <<j, r>> \in Nat \X Seq(S) /\ <<j, r>>[1] = j /\ <<j, r>>[2] = r
      <4>1. r \in Seq(S)
        BY <3>5
      <4> HIDE DEF r, S, ss
      <4> QED BY <3>1, <4>1
    <3> HIDE DEF Good, ss
    <3> QED BY <3>4, <3>6
  <2> HIDE DEF G, ss
  <2>3. FlattenSeq(ss) \in Seq(S) /\ <<Len(ss), FlattenSeq(ss)>> \in G
    BY <1>6, <2>1, <2>2, FlattenBy
  <2>4. <<Len(ss), FlattenSeq(ss)>>[1] = n /\ <<Len(ss), FlattenSeq(ss)>>[2] = FlattenSeq(ss)
    BY <1>6
  <2> HIDE DEF Good
  <2> QED BY <2>3, <2>4 DEF G
<1>10. SubSeq(V, 1, n) = V
  <2> HIDE DEF V
  <2> QED BY <1>3
<1> DEFINE valued(k) == Cardinality({i \in 1..k : p[i].value # Null})
<1>11. \A k \in 0..n : valued(k) = Filled(V, k)
  <2> TAKE k \in 0..n
  <2>1. \A i \in 1..k : V[i] = p[i].value
    BY <1>3
  <2>2. {i \in 1..k : p[i].value # Null} = {i \in 1..k : V[i] # Null}
    <3> HIDE DEF V
    <3> QED BY <2>1
  <2> QED BY <2>2 DEF Filled
<1> DEFINE shown(k) == Cardinality({i \in 1..k : result[i] # Null})
           gaps == {i \in 2 .. Len(p) : valued(i - 1) > 0 /\ p[i].at - p[i-1].at > GapThreshold}
<1>12. \A m \in 0 .. Len(p) : /\ {k \in DOMAIN result : result[k] = Null /\ shown(k) = m} = Breaks(result, m)
                              /\ {i \in gaps : valued(i - 1) = m} = Gaps(n, m)
  <2> TAKE m \in 0 .. Len(p)
  <2>1. {k \in DOMAIN result : result[k] = Null /\ shown(k) = m} = Breaks(result, m)
    BY DEF Breaks, Filled
  <2>2. \A i \in 2..n : i - 1 \in 0..n
    BY <1>3
  <2>3. {i \in gaps : valued(i - 1) = m} = Gaps(n, m)
    <3> HIDE DEF valued, V
    <3> QED BY <1>11, <2>2
  <2> QED BY <2>1, <2>3
<1>13. /\ Valued(result) = Valued([i \in DOMAIN p |-> p[i].value])
       /\ \A m \in 0 .. Len(p) : Cardinality({k \in DOMAIN result : result[k] = Null /\ shown(k) = m})
                                   = Cardinality({i \in gaps : valued(i - 1) = m})
  <2>1. Valued(result) = Valued(V) /\ \A m : Cardinality(Breaks(result, m)) = Cardinality(Gaps(n, m))
    <3> HIDE DEF V, Gaps, ss, n
    <3> QED BY <1>2, <1>9, <1>10
  <2> HIDE DEF Gaps, shown, gaps, valued
  <2> QED BY <1>12, <2>1
<1> QED BY <1>13 DEF LineBreaksAtGaps, p

WeekWorld(c) ==
  /\ c.kind = "weeks" /\ c.now \in Int
  /\ Timed(Lookup(c.d.rollups, <<c.d.selected, c.signal>>, <<>>))

LEMMA WeeksHold ==
  ASSUME WeekWorld(input), result = WeekOverWeek(input.d, input.signal, input.now)
  PROVE  WeeksShareNoHour
<1> DEFINE hours == Lookup(input.d.rollups, <<input.d.selected, input.signal>>, <<>>)
           In(from, to) == {i \in DOMAIN hours : hours[i].value # Null /\ input.now - hours[i].at \in from .. to - 1}
           A == In(0, WeekSecs)
           B == In(WeekSecs, 2 * WeekSecs)
           C == {i \in DOMAIN hours : hours[i].value # Null /\ input.now - hours[i].at \in 0 .. 2 * WeekSecs - 1}
<1> SUFFICES ASSUME result # Null PROVE result[2] + result[4] = Cardinality(C)
  BY DEF WeeksShareNoHour
<1>1. PICK E : hours \in Seq(E) /\ \A e \in E : e.at \in Int
  BY DEF WeekWorld, Timed
<1>2. /\ \A i \in DOMAIN hours : hours[i].at \in Int /\ input.now \in Int
      /\ DOMAIN hours = 1 .. Len(hours) /\ Len(hours) \in Nat
  <2> HIDE DEF hours
  <2> QED BY <1>1 DEF WeekWorld
<1>3. result = <<Sum(Buckets(hours, input.now, 0, WeekSecs)), Len(Buckets(hours, input.now, 0, WeekSecs)),
                 Sum(Buckets(hours, input.now, WeekSecs, 2 * WeekSecs)),
                 Len(Buckets(hours, input.now, WeekSecs, 2 * WeekSecs))>>
  BY DEF WeekOverWeek
<1>4. /\ result[2] = Len(Buckets(hours, input.now, 0, WeekSecs))
      /\ result[4] = Len(Buckets(hours, input.now, WeekSecs, 2 * WeekSecs))
  <2> HIDE DEF hours
  <2> QED BY <1>3
<1>5. /\ Buckets(hours, input.now, 0, WeekSecs) = Kept(hours, A)
      /\ Buckets(hours, input.now, WeekSecs, 2 * WeekSecs) = Kept(hours, B)
  <2> HIDE DEF hours
  <2> QED BY DEF Buckets
<1> HIDE DEF hours
<1>6. A \in SUBSET DOMAIN hours /\ B \in SUBSET DOMAIN hours
  OBVIOUS
<1>7. Len(Kept(hours, A)) = Cardinality(A) /\ Len(Kept(hours, B)) = Cardinality(B)
  <2> HIDE DEF A, B
  <2> QED BY <1>1, <1>6, KeptLists
<1>8. A \cap B = {} /\ A \cup B = C
  <2>1. \A i \in DOMAIN hours :
          LET x == input.now - hours[i].at
          IN  /\ ~(x \in 0 .. WeekSecs - 1 /\ x \in WeekSecs .. 2 * WeekSecs - 1)
              /\ x \in 0 .. WeekSecs - 1 \/ x \in WeekSecs .. 2 * WeekSecs - 1 <=> x \in 0 .. 2 * WeekSecs - 1
    BY <1>2, DashboardAssumption
  <2> QED BY <2>1
<1>9. IsFiniteSet(A) /\ IsFiniteSet(B)
  <2>1. IsFiniteSet(DOMAIN hours)
    <3>1. 1 \in Int /\ Len(hours) \in Int
      BY <1>2
    <3> QED BY <1>2, <3>1, FS_Interval
  <2> HIDE DEF A, B
  <2> QED BY <1>6, <2>1, FS_Subset
<1>10. Cardinality(C) = Cardinality(A) + Cardinality(B)
  <2> HIDE DEF A, B, C
  <2>1. Cardinality(A \cup B) = Cardinality(A) + Cardinality(B) - Cardinality(A \cap B)
    BY <1>9, FS_Union
  <2>2. Cardinality({}) = 0 /\ Cardinality(A) \in Nat /\ Cardinality(B) \in Nat
    BY <1>9, FS_EmptySet, FS_CardinalityType
  <2>3. Cardinality(A \cap B) = 0 /\ Cardinality(A \cup B) = Cardinality(C)
    BY <1>8, <2>2, Zenon
  <2> QED BY <2>1, <2>2, <2>3
<1> HIDE DEF A, B, C
<1> QED BY <1>4, <1>5, <1>7, <1>10

TimelineWorld(c) ==
  /\ c.kind = "timeline" /\ c.limit \in Nat
  /\ c.d.selected \in DOMAIN c.d.healthEvents /\ c.d.selected \in DOMAIN c.d.signalEvents
  /\ Timed(c.d.healthEvents[c.d.selected]) /\ Timed(c.d.signalEvents[c.d.selected])

LEMMA Concatenated ==
  ASSUME NEW T, NEW a \in Seq(T), NEW b \in Seq(T)
  PROVE  /\ a \o b \in Seq(T) /\ Len(a \o b) = Len(a) + Len(b)
         /\ \A i \in 1 .. Len(a) : (a \o b)[i] = a[i]
         /\ \A i \in 1 .. Len(b) : (a \o b)[Len(a) + i] = b[i]
OBVIOUS

LEMMA Suffix ==
  ASSUME NEW T, NEW s \in Seq(T), NEW a \in 1 .. Len(s) + 1
  PROVE  Range(SubSeq(s, a, Len(s))) = {s[k] : k \in a .. Len(s)}
<1> DEFINE r == SubSeq(s, a, Len(s))
<1>1. r \in Seq(T) /\ Len(r) = Len(s) - a + 1 /\ DOMAIN r = 1 .. Len(r)
  OBVIOUS
<1>2. \A i \in 1 .. Len(r) : r[i] = s[a + i - 1] /\ a + i - 1 \in a .. Len(s)
  BY <1>1
<1>3. \A k \in a .. Len(s) : k - a + 1 \in 1 .. Len(r) /\ r[k - a + 1] = s[k]
  <2> TAKE k \in a .. Len(s)
  <2>1. k - a + 1 \in 1 .. Len(r) /\ a + (k - a + 1) - 1 = k
    BY <1>1
  <2> HIDE DEF r
  <2> QED BY <1>2, <2>1
<1> HIDE DEF r
<1>4. Range(r) = {s[k] : k \in a .. Len(s)}
  <2>1. ASSUME NEW x \in Range(r) PROVE x \in {s[k] : k \in a .. Len(s)}
    <3>1. PICK i \in 1 .. Len(r) : x = r[i]
      BY <1>1, <2>1 DEF Range
    <3> QED BY <1>2, <3>1
  <2>2. ASSUME NEW k \in a .. Len(s) PROVE s[k] \in Range(r)
    <3>1. k - a + 1 \in DOMAIN r /\ r[k - a + 1] = s[k]
      BY <1>1, <1>3
    <3> QED BY <3>1, Zenon DEF Range
  <2> QED BY <2>1, <2>2
<1> QED BY <1>4 DEF r

LEMMA TimelineHolds ==
  ASSUME TimelineWorld(input), result = Timeline(input.d, input.limit, input.matching)
  PROVE  NewestEventsAreShown
<1> DEFINE hs == input.d.healthEvents[input.d.selected]
           es == input.d.signalEvents[input.d.selected]
           l == input.limit
           m == input.matching
<1>1. PICK H : hs \in Seq(H) /\ \A e \in H : e.at \in Int
  BY DEF TimelineWorld, Timed
<1>2. PICK E : es \in Seq(E) /\ \A e \in E : e.at \in Int
  BY DEF TimelineWorld, Timed
<1> DEFINE A == [i \in DOMAIN hs |-> [at |-> hs[i].at, key |-> <<hs[i].at, hs[i].kind>>]]
           B == [i \in DOMAIN es |-> [at |-> es[i].at, key |-> Null]]
           T == {[at |-> e.at, key |-> <<e.at, e.kind>>] : e \in H}
                  \cup {[at |-> e.at, key |-> Null] : e \in E}
           rows == A \o B
           sorted == InOrder(rows)
           K == {i \in DOMAIN sorted : sorted[i].at \in m}
           kept == Kept(sorted, K)
<1>3. result = LastRows(kept, l)
  <2>1. RecentEvents(input.d, Len(hs)) = hs
    <3>1. RecentEvents(input.d, Len(hs)) = SubSeq(hs, IF Len(hs) > Len(hs) THEN Len(hs) - Len(hs) + 1 ELSE 1, Len(hs))
      <4> HIDE DEF hs
      <4> QED BY DEF RecentEvents, Lookup, TimelineWorld, hs
    <3> HIDE DEF hs
    <3>2. ~(Len(hs) > Len(hs)) /\ SubSeq(hs, 1, Len(hs)) = hs
      BY <1>1
    <3> QED BY <3>1, <3>2
  <2>2. /\ Lookup(input.d.healthEvents, input.d.selected, <<>>) = hs
        /\ Lookup(input.d.signalEvents, input.d.selected, <<>>) = es
    BY DEF Lookup, TimelineWorld
  <2> HIDE DEF RecentEvents
  <2> QED BY <2>1, <2>2 DEF Timeline
<1> HIDE DEF hs, es
<1>4. A \in Seq(T) /\ B \in Seq(T) /\ Len(A) = Len(hs) /\ Len(B) = Len(es)
  <2>1. ASSUME NEW i \in 1 .. Len(hs) PROVE [at |-> hs[i].at, key |-> <<hs[i].at, hs[i].kind>>] \in T
    <3>1. hs[i] \in H
      BY <1>1
    <3> QED BY <3>1, Zenon
  <2>2. ASSUME NEW i \in 1 .. Len(es) PROVE [at |-> es[i].at, key |-> Null] \in T
    <3>1. es[i] \in E
      BY <1>2
    <3> QED BY <3>1, Zenon
  <2>3. DOMAIN hs = 1 .. Len(hs) /\ DOMAIN es = 1 .. Len(es) /\ Len(hs) \in Nat /\ Len(es) \in Nat
    BY <1>1, <1>2
  <2> HIDE DEF T
  <2> QED BY <2>1, <2>2, <2>3
<1>5. \A x \in T : x.at \in Int
  <2>1. \A e \in H : [at |-> e.at, key |-> <<e.at, e.kind>>].at \in Int
    BY <1>1
  <2>2. \A e \in E : [at |-> e.at, key |-> Null].at \in Int
    BY <1>2
  <2> QED BY <2>1, <2>2
<1>6. /\ rows \in Seq(T) /\ Len(rows) = Len(A) + Len(B)
      /\ \A i \in 1 .. Len(A) : rows[i] = A[i]
      /\ \A i \in 1 .. Len(B) : rows[Len(A) + i] = B[i]
      /\ Len(A) \in Nat /\ Len(B) \in Nat
  <2>1. Len(A) \in Nat /\ Len(B) \in Nat
    BY <1>1, <1>2, <1>4
  <2>2. A \in Seq(T) /\ B \in Seq(T)
    BY <1>4
  <2> HIDE DEF A, B, T
  <2>3. /\ A \o B \in Seq(T) /\ Len(A \o B) = Len(A) + Len(B)
        /\ \A i \in 1 .. Len(A) : (A \o B)[i] = A[i]
        /\ \A i \in 1 .. Len(B) : (A \o B)[Len(A) + i] = B[i]
    <3> DEFINE r == A \o B
    <3> QED BY <2>2, Concatenated
  <2>4. rows = A \o B
    OBVIOUS
  <2> HIDE DEF rows
  <2> QED BY <2>1, <2>3, <2>4
<1>7. \A x \in {e.at : e \in Range(hs)} \cup {e.at : e \in Range(es)} : \E i \in 1 .. Len(rows) : rows[i].at = x
  <2> TAKE x \in {e.at : e \in Range(hs)} \cup {e.at : e \in Range(es)}
  <2>1. DOMAIN hs = 1 .. Len(hs) /\ DOMAIN es = 1 .. Len(es)
    BY <1>1, <1>2
  <2>2. CASE \E e \in Range(hs) : e.at = x
    <3>1. PICK i \in 1 .. Len(hs) : hs[i].at = x
      BY <2>1, <2>2 DEF Range
    <3>2. A[i].at = x
      BY <2>1, <3>1
    <3> HIDE DEF A, B, rows
    <3>3. i \in 1 .. Len(rows) /\ rows[i] = A[i]
      BY <1>4, <1>6
    <3> QED BY <3>2, <3>3
  <2>3. CASE \E e \in Range(es) : e.at = x
    <3>1. PICK i \in 1 .. Len(es) : es[i].at = x
      BY <2>1, <2>3 DEF Range
    <3>2. B[i].at = x
      BY <2>1, <3>1
    <3> HIDE DEF A, B, rows
    <3>3. Len(A) + i \in 1 .. Len(rows) /\ rows[Len(A) + i] = B[i]
      BY <1>4, <1>6
    <3> QED BY <3>2, <3>3
  <2> QED BY <2>2, <2>3
<1> HIDE DEF A, B, rows, T
<1>8. /\ sorted \in Seq(T) /\ Len(sorted) = Len(rows)
      /\ \A i \in 1 .. Len(rows) : \E k \in 1 .. Len(rows) : sorted[k] = rows[i]
      /\ \A j, k \in 1 .. Len(rows) : j <= k => sorted[j].at <= sorted[k].at
  BY <1>5, <1>6, Sorted
<1> HIDE DEF sorted
<1>9. K \in SUBSET DOMAIN sorted
  OBVIOUS
<1>10. kept \in Seq(T) /\ \E at : Lists(kept, at, K, sorted)
  <2> HIDE DEF K
  <2> QED BY <1>8, <1>9, KeptLists
<1>11. PICK at : Lists(kept, at, K, sorted)
  BY <1>10
<1> HIDE DEF kept
<1>12. \A j, k \in 1 .. Len(kept) : j <= k => kept[j].at <= kept[k].at
  <2> TAKE j, k \in 1 .. Len(kept)
  <2> SUFFICES ASSUME j <= k PROVE kept[j].at <= kept[k].at
    OBVIOUS
  <2>1. at[j] \in K /\ at[k] \in K /\ kept[j] = sorted[at[j]] /\ kept[k] = sorted[at[k]]
    BY <1>11 DEF Lists
  <2>2. at[j] \in 1 .. Len(rows) /\ at[k] \in 1 .. Len(rows)
    <3>1. DOMAIN sorted = 1 .. Len(rows)
      BY <1>8
    <3> QED BY <2>1, <3>1
  <2>3. at[j] <= at[k]
    <3>1. j < k => at[j] < at[k]
      BY <1>11 DEF Lists
    <3>2. j = k => at[j] = at[k]
      OBVIOUS
    <3>3. j < k \/ j = k
      BY <1>10
    <3> QED BY <2>2, <3>1, <3>2, <3>3
  <2> QED BY <1>8, <2>1, <2>2, <2>3
<1>13. \A x \in m : (\E i \in 1 .. Len(rows) : rows[i].at = x) => \E k \in 1 .. Len(kept) : kept[k].at = x
  <2> TAKE x \in m
  <2> SUFFICES ASSUME NEW i \in 1 .. Len(rows), rows[i].at = x PROVE \E k \in 1 .. Len(kept) : kept[k].at = x
    OBVIOUS
  <2>1. PICK j \in 1 .. Len(rows) : sorted[j] = rows[i]
    BY <1>8
  <2>2. j \in K
    <3>1. DOMAIN sorted = 1 .. Len(rows)
      BY <1>8
    <3> QED BY <2>1, <3>1
  <2>3. PICK k \in 1 .. Len(kept) : at[k] = j
    BY <1>11, <2>2 DEF Lists
  <2>4. kept[k] = sorted[j]
    BY <1>11, <2>3 DEF Lists
  <2> QED BY <2>1, <2>4
<1> HIDE DEF K
<1>14. /\ l \in Nat /\ Len(kept) \in Nat
       /\ result = SubSeq(kept, IF Len(kept) > l THEN Len(kept) - l + 1 ELSE 1, Len(kept))
  BY <1>3, <1>10 DEF LastRows, TimelineWorld
<1> DEFINE first == IF Len(kept) > l THEN Len(kept) - l + 1 ELSE 1
<1>15. Range(result) = {kept[k] : k \in first .. Len(kept)}
  <2>1. first \in 1 .. Len(kept) + 1
    BY <1>14
  <2> HIDE DEF first
  <2>2. result = SubSeq(kept, first, Len(kept))
    BY <1>14 DEF first
  <2> QED BY <1>10, <2>1, <2>2, Suffix
<1>16. first \in Nat /\ first >= 1
  BY <1>14
<1> HIDE DEF first
<1> DEFINE times == {e.at : e \in Range(hs)} \cup {e.at : e \in Range(es)}
           shown == {row.at : row \in Range(result)}
<1>17. ASSUME NEW x \in (times \cap m) \ shown, NEW s \in shown PROVE x <= s
  <2>1. \E i \in 1 .. Len(rows) : rows[i].at = x
    <3> HIDE DEF shown
    <3> QED BY <1>7
  <2>2. PICK k \in 1 .. Len(kept) : kept[k].at = x
    <3> HIDE DEF shown, times
    <3> QED BY <1>13, <2>1
  <2>3. PICK j \in first .. Len(kept) : kept[j].at = s
    BY <1>15
  <2>4. ~(k \in first .. Len(kept))
    BY <1>15, <2>2
  <2>5. k <= j /\ j \in 1 .. Len(kept)
    BY <1>14, <1>16, <2>2, <2>3, <2>4
  <2> HIDE DEF shown, times
  <2> QED BY <1>12, <2>2, <2>3, <2>5
<1>18. \A x \in (times \cap m) \ shown : \A s \in shown : x <= s
  <2> HIDE DEF times, shown
  <2> QED BY <1>17
<1> HIDE DEF kept
<1> QED BY <1>18 DEF NewestEventsAreShown, hs, es

-----------------------------------------------------------------------------
(* One line, one pair of weeks or one timeline, drawn once.                *)

Drawn(w) == TrendWorld(w) \/ WeekWorld(w) \/ TimelineWorld(w)

TrendsInit == Drawn(input) /\ result = Pending
TrendsNext == DrawLine \/ CompareWeeks \/ ReadTimeline
TrendsSpec == TrendsInit /\ [][TrendsNext]_<<input, result>>

Drawing(w) ==
  CASE w.kind = "trend"    -> SparklineWithGaps(w.points)
    [] w.kind = "weeks"    -> WeekOverWeek(w.d, w.signal, w.now)
    [] w.kind = "timeline" -> Timeline(w.d, w.limit, w.matching)

TrendsInv == Drawn(input) /\ (result # Pending => result = Drawing(input))

LEMMA DrawnKinds ==
  ASSUME NEW w, Drawn(w)
  PROVE  /\ w.kind = "trend" => TrendWorld(w) /\ Drawing(w) = SparklineWithGaps(w.points)
         /\ w.kind = "weeks" => WeekWorld(w) /\ Drawing(w) = WeekOverWeek(w.d, w.signal, w.now)
         /\ w.kind = "timeline" => TimelineWorld(w) /\ Drawing(w) = Timeline(w.d, w.limit, w.matching)
BY DEF Drawn, TrendWorld, WeekWorld, TimelineWorld, Drawing

LEMMA TrendsHold == TrendsInv => TrendsAreExact
<1> SUFFICES ASSUME TrendsInv PROVE TrendsAreExact
  OBVIOUS
<1>1. CASE result = Pending
  BY <1>1 DEF TrendsAreExact, LineBreaksAtGaps, WeeksShareNoHour, NewestEventsAreShown, Judged
<1>2. CASE result # Pending
  <2>1. Drawn(input) /\ result = Drawing(input)
    BY <1>2 DEF TrendsInv
  <2>2. LineBreaksAtGaps
    <3>1. CASE input.kind = "trend"
      BY <2>1, <3>1, DrawnKinds, LineHolds
    <3>2. CASE input.kind # "trend"
      BY <3>2 DEF LineBreaksAtGaps, Judged
    <3> QED BY <3>1, <3>2
  <2>3. WeeksShareNoHour
    <3>1. CASE input.kind = "weeks"
      BY <2>1, <3>1, DrawnKinds, WeeksHold
    <3>2. CASE input.kind # "weeks"
      BY <3>2 DEF WeeksShareNoHour, Judged
    <3> QED BY <3>1, <3>2
  <2>4. NewestEventsAreShown
    <3>1. CASE input.kind = "timeline"
      BY <2>1, <3>1, DrawnKinds, TimelineHolds
    <3>2. CASE input.kind # "timeline"
      BY <3>2 DEF NewestEventsAreShown, Judged
    <3> QED BY <3>1, <3>2
  <2> QED BY <2>2, <2>3, <2>4 DEF TrendsAreExact
<1> QED BY <1>1, <1>2

LEMMA TrendsStep == TrendsInv /\ [TrendsNext]_<<input, result>> => TrendsInv'
<1> SUFFICES ASSUME TrendsInv, [TrendsNext]_<<input, result>> PROVE TrendsInv'
  OBVIOUS
<1>1. CASE DrawLine
  <2>1. input' = input /\ input.kind = "trend" /\ result' = SparklineWithGaps(input.points)
    BY <1>1 DEF DrawLine, Judge
  <2> QED BY <2>1 DEF TrendsInv, Drawing
<1>2. CASE CompareWeeks
  <2>1. input' = input /\ input.kind = "weeks" /\ result' = WeekOverWeek(input.d, input.signal, input.now)
    BY <1>2 DEF CompareWeeks, Judge
  <2> QED BY <2>1 DEF TrendsInv, Drawing
<1>3. CASE ReadTimeline
  <2>1. input' = input /\ input.kind = "timeline" /\ result' = Timeline(input.d, input.limit, input.matching)
    BY <1>3 DEF ReadTimeline, Judge
  <2> QED BY <2>1 DEF TrendsInv, Drawing
<1>4. CASE UNCHANGED <<input, result>>
  BY <1>4 DEF TrendsInv, Drawing
<1> QED BY <1>1, <1>2, <1>3, <1>4 DEF TrendsNext

\* Of any samples, hours and events: a line breaks exactly where its neighbours
\* are far apart and shows every value in order, no hour counts in both weeks
\* and none is left out, and no event a timeline leaves out is newer than one
\* it shows (sparkline_with_gaps, week_over_week, timeline).
THEOREM ExactTrends == TrendsSpec => []TrendsAreExact
<1>1. TrendsInit => TrendsInv
  BY DEF TrendsInit, TrendsInv
<1>2. TrendsSpec => []TrendsInv
  BY <1>1, TrendsStep, PTL DEF TrendsSpec
<1> QED BY <1>2, TrendsHold, PTL

-----------------------------------------------------------------------------
(* What a daemon writes, and a window can be looked at with.               *)

DriftPayload(p) ==
  DriftMismatch(p) =>
    /\ Get(p, "role") # "source" /\ Get(p, "skipped") = Null /\ ~ProbeFailed(p)
    /\ Get(p, "mismatches") # Null

Unreachable(row) == Get(row.payload, "reachability") = "unreachable"

RowTable(rows) ==
  /\ \A s \in DOMAIN rows : Unreachable(rows[s]) => rows[s].state = "down"
  /\ Availability \in DOMAIN rows \/
       ((\E s \in DOMAIN rows : Unreachable(rows[s]))
          => \E s \in DOMAIN rows : Unreachable(rows[s]) /\ IsVotingSignal(s))
  /\ "drift" \in DOMAIN rows => DriftPayload(rows["drift"].payload)

Watched(d, e) ==
  /\ e.health = DaemonHealth(RowsOf(d, e.id))
  /\ DOMAIN RowsOf(d, e.id) \subseteq Range(SignalIdsFor(e.platform))
  /\ RowTable(RowsOf(d, e.id))

LookWorld(c) ==
  /\ c.kind = "dashboard"
  /\ \E E : c.d.environments \in Seq(E)
  /\ \A i, j \in DOMAIN c.d.environments :
       c.d.environments[i].id = c.d.environments[j].id => i = j
  /\ \A i \in DOMAIN c.d.environments : Watched(c.d, c.d.environments[i])
  /\ c.d.selected \in Ids(c.d)

Legible(s, p) ==
  p # Null /\ Get(p, "skipped") = Null /\ ~ProbeFailed(p) /\ Get(p, "error") = Null /\ Get(p, "detail") = Null =>
    /\ s = "availability" => Get(p, "rtt_ms") # Null \/ ParseBuild(p) # Null
    /\ s = "drift" => Get(p, "role") = "source" \/ Get(p, "mismatches") # Null
    /\ s = "last_clone" => \/ Get(p, "role") = "source" \/ Get(p, "age_days") # Null
                           \/ Get(p, "unknown") # Null
                           \/ "completed" \in DOMAIN p /\ p.completed = Null

CardWorld(c) == c.kind = "card" /\ c.signal \in KnownSignals /\ Legible(c.signal, c.payload)

ListOf(p, key) == key \in DOMAIN p => p[key] # Null /\ \E R : p[key] \in Seq(R)

DrillPayload(s, p) ==
  p # Null =>
    /\ \A key \in {"rows", "overdue_rows", "error_rows"} : ListOf(p, key)
    /\ s = "jobs" => "rows" \notin DOMAIN p
    /\ s # "jobs" => "overdue_rows" \notin DOMAIN p /\ "error_rows" \notin DOMAIN p

DrillWorld(c) ==
  /\ c.kind = "drill"
  /\ c.signal \in DOMAIN RowsOf(c.d, c.d.selected)
       => DrillPayload(c.signal, RowsOf(c.d, c.d.selected)[c.signal].payload)

\* What is kept is what stands at the indexes, the first of them first.
LEMMA KeptFacts ==
  ASSUME NEW T, NEW s \in Seq(T), NEW K \in SUBSET DOMAIN s
  PROVE  /\ Kept(s, K) \in Seq(T) /\ DOMAIN Kept(s, K) = 1 .. Len(Kept(s, K))
         /\ \A k \in DOMAIN Kept(s, K) : \E i \in K : Kept(s, K)[k] = s[i]
         /\ \A i \in K : \E k \in DOMAIN Kept(s, K) : Kept(s, K)[k] = s[i]
         /\ K = {} => Kept(s, K) = <<>>
         /\ K # {} => Kept(s, K) # <<>> /\ 1 \in DOMAIN Kept(s, K)
<1> DEFINE r == Kept(s, K)
<1>1. r \in Seq(T) /\ \E at : Lists(r, at, K, s)
  <2> HIDE DEF r
  <2> QED BY KeptLists DEF r
<1> HIDE DEF r
<1>2. PICK at : Lists(r, at, K, s)
  BY <1>1
<1>3. DOMAIN r = 1 .. Len(r) /\ Len(r) \in Nat
  BY <1>1
<1>4. \A k \in DOMAIN r : \E i \in K : r[k] = s[i]
  BY <1>2, <1>3 DEF Lists
<1>5. \A i \in K : \E k \in DOMAIN r : r[k] = s[i]
  BY <1>2, <1>3 DEF Lists
<1>6. K = {} => r = <<>>
  <2> SUFFICES ASSUME K = {} PROVE r = <<>>
    OBVIOUS
  <2>1. \A k \in 1 .. Len(r) : at[k] \in {}
    BY <1>2 DEF Lists
  <2>2. Len(r) = 0
    <3>1. ~(1 \in 1 .. Len(r))
      BY <2>1
    <3> QED BY <1>3, <3>1
  <2> QED BY <1>1, <2>2
<1>7. K # {} => r # <<>> /\ 1 \in DOMAIN r
  <2> SUFFICES ASSUME K # {} PROVE r # <<>> /\ 1 \in DOMAIN r
    OBVIOUS
  <2>1. PICK k \in 1 .. Len(r) : TRUE
    BY <1>5, <1>3
  <2>2. Len(r) >= 1
    BY <1>3, <2>1
  <2> QED BY <1>3, <2>2
<1> QED BY <1>1, <1>3, <1>4, <1>5, <1>6, <1>7 DEF r

-----------------------------------------------------------------------------
(* The cards of a platform, and the rows of an Environment.                *)

LEMMA CardIds ==
  ASSUME NEW p
  PROVE  /\ SignalIdsFor(p) \in Seq(Signals)
         /\ DOMAIN SignalIdsFor(p) = 1 .. Len(SignalIdsFor(p)) /\ Len(SignalIdsFor(p)) \in Nat
         /\ \A i, j \in DOMAIN SignalIdsFor(p) : SignalIdsFor(p)[i] = SignalIdsFor(p)[j] => i = j
         /\ Range(SignalIdsFor(p)) = {SignalIdsFor(p)[i] : i \in DOMAIN SignalIdsFor(p)}
<1>1. \E q \in DOMAIN SignalIds : SignalIdsFor(p) = SignalIds[q]
  BY DashboardAssumption DEF SignalIdsFor, Lookup
<1>2. /\ SignalIdsFor(p) \in Seq(Signals)
      /\ \A i, j \in DOMAIN SignalIdsFor(p) : SignalIdsFor(p)[i] = SignalIdsFor(p)[j] => i = j
  BY <1>1, DashboardAssumption
<1> QED BY <1>2 DEF Range

Environs(d) ==
  /\ \E E : d.environments \in Seq(E)
  /\ \A i, j \in DOMAIN d.environments : d.environments[i].id = d.environments[j].id => i = j

LEMMA SummaryFound ==
  ASSUME NEW d, Environs(d), NEW i \in DOMAIN d.environments
  PROVE  /\ SummaryOf(d, d.environments[i].id) = d.environments[i]
         /\ d.environments[i].id \in Ids(d)
         /\ PlatformOf(d, d.environments[i].id) = d.environments[i].platform
<1> DEFINE es == d.environments
           id == es[i].id
           K == {k \in DOMAIN es : es[k].id = id}
<1>1. PICK E : es \in Seq(E)
  BY DEF Environs
<1>2. K = {i}
  BY DEF Environs
<1>3. SummaryOf(d, id) = Kept(es, K)[1]
  BY DEF SummaryOf
<1>4. id \in Ids(d)
  BY DEF Ids, Range
<1> HIDE DEF K, es
<1>5. K \in SUBSET DOMAIN es
  BY <1>2 DEF es
<1>6. \E k \in K : Kept(es, K)[1] = es[k]
  BY <1>1, <1>2, <1>5, KeptFacts
<1>7. SummaryOf(d, id) = es[i]
  BY <1>2, <1>3, <1>6
<1> QED BY <1>4, <1>7 DEF PlatformOf, es

LEMMA IdsAre ==
  ASSUME NEW d
  PROVE  \A id : id \in Ids(d) <=> \E i \in DOMAIN d.environments : d.environments[i].id = id
BY DEF Ids, Range

\* A text is a sequence.
IsText(x) == \E T : x \in Seq(T)

LEMMA Texts ==
  /\ IsText(NoText)
  /\ \A a : IsText(<<a>>) /\ <<a>> # NoText
  /\ \A a, b : IsText(<<a, b>>) /\ <<a, b>> # NoText
  /\ \A a, b, c : IsText(<<a, b, c>>) /\ <<a, b, c>> # NoText
<1>1. <<>> \in Seq({}) /\ NoText = <<>>
  BY DEF NoText
<1>2. \A a : <<a>> \in Seq({a}) /\ <<a>> # <<>>
  OBVIOUS
<1>3. \A a, b : <<a, b>> \in Seq({a, b}) /\ <<a, b>> # <<>>
  OBVIOUS
<1>4. \A a, b, c : <<a, b, c>> \in Seq({a, b, c}) /\ <<a, b, c>> # <<>>
  OBVIOUS
<1> QED BY <1>1, <1>2, <1>3, <1>4, Zenon DEF IsText

LEMMA BodyIsText == ASSUME NEW s, NEW p PROVE IsText(Body(s, p))
<1>1. IsText(CloneText(p))
  BY Texts DEF CloneText
<1>2. IsText(DriftText(p))
  BY Texts DEF DriftText
<1>3. IsText(UpgradeText(p))
  BY Texts DEF UpgradeText
<1>4. IsText(CountText(s, p))
  BY <1>1, <1>2, <1>3, Texts DEF CountText
<1>5. IsText(SummarizeValue(s, p))
  BY <1>4, Texts DEF SummarizeValue
<1>6. IsText(DetailFromValue(s, p))
  BY Texts DEF DetailFromValue
<1> QED BY <1>5, <1>6 DEF Body

LEMMA Headed ==
  ASSUME NEW a, NEW x, IsText(x)
  PROVE  (<<a>> \o x)[1] = a
<1>1. PICK T : x \in Seq(T)
  BY DEF IsText
<1>2. <<a>> \in Seq({a} \cup T) /\ x \in Seq({a} \cup T)
  BY <1>1
<1> QED BY <1>2

LEMMA Longer ==
  ASSUME NEW a, NEW b, NEW x, IsText(x)
  PROVE  <<a, b>> \o x # NoText
<1>1. PICK T : x \in Seq(T)
  BY DEF IsText
<1>2. <<a, b>> \in Seq({a, b} \cup T) /\ x \in Seq({a, b} \cup T)
  BY <1>1
<1>3. Len(<<a, b>> \o x) = 2 + Len(x) /\ Len(x) \in Nat
  BY <1>2
<1> QED BY <1>3 DEF NoText

-----------------------------------------------------------------------------
\* The causes of an Environment's trouble.
AreCauses(d, e, V, X) ==
  /\ V \in Seq(Signals) /\ DOMAIN V = 1 .. Len(V) /\ Len(V) \in Nat
  /\ \A k \in DOMAIN V : /\ V[k] \in Range(SignalIdsFor(e.platform))
                         /\ IsVotingSignal(V[k]) /\ TroubledRow(d, e.id, V[k])
  /\ \A s \in Range(SignalIdsFor(e.platform)) :
       IsVotingSignal(s) /\ TroubledRow(d, e.id, s) => \E k \in DOMAIN V : V[k] = s
  /\ DOMAIN X = DOMAIN V /\ Len(X) = Len(V) /\ \A k \in DOMAIN V : X[k][1] = V[k]
  /\ Range(X) = {X[k] : k \in DOMAIN V}
  /\ X = <<>> <=> V = <<>>
  /\ V # <<>> => 1 \in DOMAIN V

LEMMA Causes ==
  ASSUME NEW d, Environs(d), NEW i \in DOMAIN d.environments, NEW e, e = d.environments[i]
  PROVE  AreCauses(d, e, DegradedVotingIds(d, e.id), HealthExplainFor(d, e.id))
<1> DEFINE V == DegradedVotingIds(d, e.id)
           X == HealthExplainFor(d, e.id)
           ids == SignalIdsFor(e.platform)
           K == {k \in DOMAIN ids : IsVotingSignal(ids[k]) /\ TroubledRow(d, e.id, ids[k])}
<1>1. V = Kept(ids, K)
  BY SummaryFound DEF DegradedVotingIds
<1> HIDE DEF V
<1>2. ids \in Seq(Signals) /\ Range(ids) = {ids[k] : k \in DOMAIN ids}
  BY CardIds
<1> HIDE DEF ids
<1>3. K \in SUBSET DOMAIN ids
  OBVIOUS
<1>4. /\ V \in Seq(Signals) /\ DOMAIN V = 1 .. Len(V)
      /\ \A k \in DOMAIN V : \E j \in K : V[k] = ids[j]
      /\ \A j \in K : \E k \in DOMAIN V : V[k] = ids[j]
      /\ K = {} => V = <<>>
      /\ K # {} => V # <<>> /\ 1 \in DOMAIN V
  <2> HIDE DEF K
  <2> QED BY <1>1, <1>2, <1>3, KeptFacts
<1>5. \A k \in DOMAIN V : /\ V[k] \in Range(ids)
                          /\ IsVotingSignal(V[k]) /\ TroubledRow(d, e.id, V[k])
  BY <1>2, <1>4
<1>6. \A s \in Range(ids) : IsVotingSignal(s) /\ TroubledRow(d, e.id, s) => \E k \in DOMAIN V : V[k] = s
  BY <1>2, <1>4
<1>7. V # <<>> => 1 \in DOMAIN V
  <2> HIDE DEF K
  <2> QED BY <1>4
<1> HIDE DEF K
<1>8. Len(V) \in Nat
  BY <1>4
<1> DEFINE text(k) == <<V[k]>> \o Body(V[k], RowsOf(d, e.id)[V[k]].payload)
<1>9. X = [k \in DOMAIN V |-> text(k)]
  BY DEF HealthExplainFor, V
<1> HIDE DEF X
<1>10. \A k \in DOMAIN V : text(k)[1] = V[k]
  BY BodyIsText, Headed
<1> HIDE DEF text
<1>11. DOMAIN X = 1 .. Len(V) /\ \A k \in DOMAIN V : X[k][1] = V[k]
  BY <1>4, <1>9, <1>10
<1>12. X \in Seq({text(k) : k \in DOMAIN V}) /\ Len(X) = Len(V)
  BY <1>4, <1>8, <1>9
<1>13. X = <<>> <=> V = <<>>
  BY <1>4, <1>8, <1>12
<1>14. Range(X) = {X[k] : k \in DOMAIN V}
  BY <1>9 DEF Range
<1> QED BY <1>4, <1>5, <1>6, <1>7, <1>8, <1>11, <1>12, <1>13, <1>14 DEF ids, AreCauses, V, X

\* The daemon calls an Environment troubled for a Signal that votes.
LEMMA DaemonTrouble ==
  ASSUME NEW rows, RowTable(rows)
  PROVE  /\ DaemonHealth(rows) \in {"degraded", "down"}
              => \E s \in DOMAIN rows : IsVotingSignal(s) /\ Troubled(rows[s])
         /\ DaemonHealth(rows) = "healthy" /\ Reachability(DaemonRows(rows)) = "reachable"
              => \A s \in DOMAIN rows : IsVotingSignal(s) => ~Troubled(rows[s])
         /\ DaemonHealth(rows) \in Healths
<1> DEFINE rs == DaemonRows(rows)
           reach == Reachability(rs)
           Bad(s) == s \in DOMAIN rows /\ IsVotingSignal(s) /\ Troubled(rows[s])
<1>1. /\ DOMAIN rs = DOMAIN rows
      /\ \A s \in DOMAIN rows :
           /\ rs[s].state = rows[s].state
           /\ rs[s].reach = "unreachable" => Unreachable(rows[s])
  <2> DEFINE said(s) == IF Get(rows[s].payload, "reachability") = Null THEN "reachable"
                        ELSE rows[s].payload.reachability
  <2>1. rs = [s \in DOMAIN rows |-> [state |-> rows[s].state, reach |-> said(s), build |-> NoBuild]]
    BY DEF DaemonRows
  <2> HIDE DEF rs, said
  <2>2. \A s \in DOMAIN rows : rs[s].state = rows[s].state /\ rs[s].reach = said(s)
    BY <2>1
  <2>3. ASSUME NEW s, said(s) = "unreachable" PROVE Unreachable(rows[s])
    <3>1. Get(rows[s].payload, "reachability") # Null
      BY <2>3 DEF said
    <3>2. Get(rows[s].payload, "reachability") = rows[s].payload.reachability
      BY <3>1 DEF Get
    <3> QED BY <2>3, <3>1, <3>2 DEF said, Unreachable
  <2> QED BY <2>1, <2>2, <2>3
<1> HIDE DEF rs
<1>2. \A s \in DOMAIN rows : IsVotingSignal(s) /\ Unreachable(rows[s]) => Bad(s)
  BY DEF RowTable, Troubled
<1>3. reach = "unreachable" => \E s : Bad(s)
  <2> SUFFICES ASSUME reach = "unreachable" PROVE \E s : Bad(s)
    OBVIOUS
  <2>1. CASE Availability \in DOMAIN rows
    <3>1. Unreachable(rows[Availability])
      BY <1>1, <2>1 DEF Reachability
    <3> QED BY <1>2, <2>1, <3>1, DashboardAssumption DEF IsVotingSignal
  <2>2. CASE Availability \notin DOMAIN rows
    <3>1. PICK s \in DOMAIN rows : Unreachable(rows[s]) \/ (s \in PlatformProbes /\ rows[s].state = "down")
      BY <1>1, <2>2 DEF Reachability
    <3>2. CASE Unreachable(rows[s])
      BY <1>2, <2>2, <3>2 DEF RowTable
    <3>3. CASE s \in PlatformProbes /\ rows[s].state = "down"
      BY <3>3, DashboardAssumption DEF IsVotingSignal, Troubled
    <3> QED BY <3>1, <3>2, <3>3
  <2> QED BY <2>1, <2>2
<1>4. \A s \in DOMAIN rows : Votes(s, rs[s].state) /\ rs[s].state \in {"degraded", "down"} <=> Bad(s)
  BY <1>1 DEF Votes, IsVotingSignal, Troubled
<1>5. DaemonHealth(rows) = HealthRollup(reach, rs)
  BY DEF DaemonHealth, Decide, rs
<1> HIDE DEF reach, Bad
<1>6. HealthRollup(reach, rs) \in {"degraded", "down"} => \E s : Bad(s)
  BY <1>1, <1>3, <1>4 DEF HealthRollup
<1>7. HealthRollup(reach, rs) = "healthy" /\ reach = "reachable" => \A s \in DOMAIN rows : ~Bad(s)
  BY <1>1, <1>4 DEF HealthRollup
<1>8. HealthRollup(reach, rs) \in Healths
  BY DEF HealthRollup, Healths
<1> QED BY <1>5, <1>6, <1>7, <1>8 DEF Bad, reach, rs

LEMMA Watching ==
  ASSUME NEW c, LookWorld(c)
  PROVE  /\ Environs(c.d)
         /\ \A i \in DOMAIN c.d.environments : Watched(c.d, c.d.environments[i])
         /\ \E i \in DOMAIN c.d.environments : c.d.environments[i].id = c.d.selected
BY IdsAre DEF LookWorld, Environs

LEMMA ExplainedHolds ==
  ASSUME LookWorld(input), result = Look(input.d, input.now)
  PROVE  TroubleIsExplained
<1> DEFINE d == input.d
           es == d.environments
<1>1. /\ Environs(d) /\ \A i \in DOMAIN es : Watched(d, es[i])
      /\ \E i \in DOMAIN es : es[i].id = d.selected
  BY Watching
<1>2. /\ \A id \in Ids(d) : /\ result.explain[id] = HealthExplainFor(d, id)
                            /\ result.headline[id] = HeadlineFor(d, id)
      /\ result.diagnosis = DiagnosisHeadline(d, input.now)
  <2>1. /\ result.explain = [id \in Ids(d) |-> HealthExplainFor(d, id)]
        /\ result.headline = [id \in Ids(d) |-> HeadlineFor(d, id)]
        /\ result.diagnosis = DiagnosisHeadline(d, input.now)
    BY DEF Look
  <2> QED BY <2>1
<1> HIDE DEF es, d
<1>3. ASSUME NEW i \in DOMAIN es, NEW e, e = es[i]
      PROVE  /\ e.health \in {"degraded", "down"} =>
                  result.explain[e.id] # <<>> /\ result.headline[e.id] # NoText
             /\ e.health = "healthy" /\ Reachability(DaemonRows(RowsOf(d, e.id))) = "reachable"
                  => result.explain[e.id] = <<>>
  <2> DEFINE rows == RowsOf(d, e.id)
             V == DegradedVotingIds(d, e.id)
             X == HealthExplainFor(d, e.id)
             ids == SignalIdsFor(e.platform)
  <2>1. /\ e.health = DaemonHealth(rows) /\ DOMAIN rows \subseteq Range(ids) /\ RowTable(rows)
    BY <1>1, <1>3 DEF Watched
  <2>2. e.id \in Ids(d) /\ PlatformOf(d, e.id) = e.platform /\ SummaryOf(d, e.id) = e
    BY <1>1, <1>3, SummaryFound DEF es
  <2>3. /\ \A k \in DOMAIN V : V[k] \in Range(ids) /\ IsVotingSignal(V[k]) /\ TroubledRow(d, e.id, V[k])
        /\ \A s \in Range(ids) : IsVotingSignal(s) /\ TroubledRow(d, e.id, s) => \E k \in DOMAIN V : V[k] = s
        /\ X = <<>> <=> V = <<>>
        /\ V # <<>> => 1 \in DOMAIN V
    <3>1. AreCauses(d, e, V, X)
      BY <1>1, <1>3, Causes DEF es
    <3> HIDE DEF V, X, ids
    <3> QED BY <3>1 DEF AreCauses, ids
  <2> HIDE DEF V, X
  <2>4. \A s \in DOMAIN rows : TroubledRow(d, e.id, s) <=> Troubled(rows[s])
    BY DEF TroubledRow
  <2>5. ASSUME e.health \in {"degraded", "down"} PROVE X # <<>> /\ HeadlineFor(d, e.id) # NoText
    <3>1. PICK s \in DOMAIN rows : IsVotingSignal(s) /\ Troubled(rows[s])
      BY <2>1, <2>5, DaemonTrouble
    <3>2. s \in Range(ids) /\ TroubledRow(d, e.id, s)
      BY <2>1, <2>4, <3>1
    <3>3. \E k \in DOMAIN V : V[k] = s
      BY <2>3, <3>1, <3>2
    <3>4. V # <<>>
      BY <3>3
    <3> DEFINE J == {k \in DOMAIN ids : TroubledRow(d, e.id, ids[k])}
               D == DegradedIds(d, e.id)
    <3>5. D = Kept(ids, J)
      BY <2>2 DEF DegradedIds
    <3>6. J \in SUBSET DOMAIN ids /\ J # {} /\ ids \in Seq(Signals)
      BY <3>2, CardIds
    <3>7. D # <<>> /\ 1 \in DOMAIN D /\ D \in Seq(Signals)
      <4> HIDE DEF J, D, ids
      <4> QED BY <3>5, <3>6, KeptFacts
    <3> HIDE DEF D, J, ids
    <3>8. D[1] # NoOne
      BY <3>7, DashboardAssumption
    <3>9. HeadlineFor(d, e.id) = <<e.health, D[1]>> \o Body(D[1], rows[D[1]].payload)
      BY <2>2, <3>7, <3>8 DEF HeadlineFor, WorstSignalId, D
    <3>10. HeadlineFor(d, e.id) # NoText
      <4> HIDE DEF rows
      <4> QED BY <3>9, BodyIsText, Longer
    <3> QED BY <2>3, <3>4, <3>10
  <2>6. ASSUME e.health = "healthy", Reachability(DaemonRows(rows)) = "reachable" PROVE X = <<>>
    <3>1. \A s \in DOMAIN rows : IsVotingSignal(s) => ~Troubled(rows[s])
      BY <2>1, <2>6, DaemonTrouble
    <3>2. V = <<>>
      <4> SUFFICES ASSUME V # <<>> PROVE FALSE
        OBVIOUS
      <4>1. IsVotingSignal(V[1]) /\ TroubledRow(d, e.id, V[1])
        BY <2>3
      <4> QED BY <3>1, <4>1 DEF TroubledRow
    <3> QED BY <2>3, <3>2
  <2> QED BY <1>2, <2>2, <2>5, <2>6 DEF X
<1>4. ASSUME result.diagnosis # Null
      PROVE  /\ result.diagnosis.count = Len(result.explain[d.selected])
             /\ result.diagnosis.lead = result.explain[d.selected][1][1]
  <2>1. PICK i \in DOMAIN es : es[i].id = d.selected
    BY <1>1
  <2> DEFINE V == DegradedVotingIds(d, d.selected)
             X == HealthExplainFor(d, d.selected)
  <2>2. /\ Len(X) = Len(V) /\ \A k \in DOMAIN V : X[k][1] = V[k]
        /\ V # <<>> => 1 \in DOMAIN V
    <3>1. Environs(d) /\ i \in DOMAIN d.environments /\ d.environments[i].id = d.selected
      BY <1>1, <2>1 DEF es
    <3>2. AreCauses(d, d.environments[i], V, X)
      BY <3>1, Causes
    <3> HIDE DEF V, X
    <3> QED BY <3>2 DEF AreCauses
  <2>3. d.selected \in Ids(d)
    BY <2>1, IdsAre DEF es
  <2>4. /\ result.diagnosis.count = Len(V) /\ result.diagnosis.lead = FirstProblemSignalId(d)
        /\ FirstProblemSignalId(d) # NoOne
    BY <1>2, <1>4 DEF DiagnosisHeadline
  <2> HIDE DEF X
  <2>5. V # <<>> /\ FirstProblemSignalId(d) = V[1]
    BY <2>4 DEF FirstProblemSignalId
  <2> HIDE DEF V
  <2> QED BY <1>2, <2>2, <2>3, <2>4, <2>5 DEF X
<1>5. \A e \in Range(es) : \E i \in DOMAIN es : e = es[i]
  BY DEF Range
<1> QED BY <1>3, <1>4, <1>5 DEF TroubleIsExplained, d, es

LEMMA Ranks ==
  ASSUME NEW status
  PROVE  /\ SeverityRank(status) \in Int
         /\ status \in {"degraded", "down"} <=> SeverityRank(status) <= 1
BY DEF SeverityRank

\* The cards r are those of ids, the most urgent first.
Placed(d, ids, r, from) ==
  /\ from \in [DOMAIN r -> DOMAIN ids]
  /\ \A k \in DOMAIN r : r[k].id = ids[from[k]] /\ r[k].status = CardStatus(d, ids[from[k]])
  /\ \A i \in DOMAIN ids : \E k \in DOMAIN r : from[k] = i
  /\ \A j, k \in DOMAIN r : j <= k => SeverityRank(r[j].status) <= SeverityRank(r[k].status)

LEMMA CardsAre ==
  ASSUME NEW d, NEW now, NEW ids, ids = SignalIdsFor(PlatformOf(d, d.selected)), NEW r, r = Cards(d, now)
  PROVE  /\ DOMAIN r = 1 .. Len(r) /\ Len(r) = Len(ids)
         /\ \E from : Placed(d, ids, r, from)
<1> DEFINE card(s) == [id |-> s, status |-> CardStatus(d, s), dimmed |-> ~d.connected,
                       muted |-> d.selected # NoOne /\ IsMuted(d, d.selected, now)]
           T == {card(ids[i]) : i \in DOMAIN ids}
           cards == [i \in DOMAIN ids |-> card(ids[i])]
           key == [i \in DOMAIN ids |-> SeverityRank(cards[i].status)]
<1>1. r = ByKey(cards, key)
  BY DEF Cards
<1>2. DOMAIN ids = 1 .. Len(ids) /\ Len(ids) \in Nat
  BY CardIds
<1>3. \A i \in DOMAIN ids : cards[i].id = ids[i] /\ cards[i].status = CardStatus(d, ids[i])
  OBVIOUS
<1>4. cards \in Seq(T) /\ Len(cards) = Len(ids)
  <2> HIDE DEF card
  <2> QED BY <1>2
<1> HIDE DEF cards, T
<1>5. \A i \in 1 .. Len(cards) : key[i] = SeverityRank(cards[i].status) /\ key[i] \in Int
  BY <1>2, <1>4, Ranks
<1> HIDE DEF key
<1>6. /\ r \in Seq(T) /\ Len(r) = Len(cards)
      /\ \E from : OrderedBy(r, cards, from, key)
  BY <1>1, <1>4, <1>5, Ordered
<1>7. DOMAIN r = 1 .. Len(r) /\ DOMAIN r = DOMAIN ids /\ Len(r) = Len(ids)
  BY <1>2, <1>4, <1>6
<1>8. PICK from : OrderedBy(r, cards, from, key)
  BY <1>6
<1>9. 1 .. Len(cards) = DOMAIN r /\ 1 .. Len(cards) = DOMAIN ids
  BY <1>2, <1>4, <1>7
<1>10. /\ from \in [DOMAIN r -> DOMAIN ids]
       /\ \A k \in DOMAIN r : r[k] = cards[from[k]]
       /\ \A i \in DOMAIN ids : \E k \in DOMAIN r : from[k] = i
       /\ \A j, k \in DOMAIN r : j <= k => key[from[j]] <= key[from[k]]
  BY <1>8, <1>9 DEF OrderedBy
<1>11. \A k \in DOMAIN r : from[k] \in DOMAIN ids
  BY <1>10
<1>12. \A k \in DOMAIN r : /\ r[k].id = ids[from[k]] /\ r[k].status = CardStatus(d, ids[from[k]])
                           /\ key[from[k]] = SeverityRank(r[k].status)
  <2> TAKE k \in DOMAIN r
  <2>1. r[k] = cards[from[k]] /\ from[k] \in DOMAIN ids
    BY <1>10, <1>11
  <2>2. cards[from[k]].id = ids[from[k]] /\ cards[from[k]].status = CardStatus(d, ids[from[k]])
    BY <1>3, <2>1
  <2>3. key[from[k]] = SeverityRank(cards[from[k]].status)
    BY <1>5, <1>9, <2>1
  <2> QED BY <2>1, <2>2, <2>3
<1>13. \A j, k \in DOMAIN r : j <= k => SeverityRank(r[j].status) <= SeverityRank(r[k].status)
  BY <1>10, <1>12
<1> QED BY <1>7, <1>10, <1>12, <1>13 DEF Placed

LEMMA CausesFirstHold ==
  ASSUME LookWorld(input), result = Look(input.d, input.now)
  PROVE  CausesComeFirst
<1> DEFINE d == input.d
           X == HealthExplainFor(d, d.selected)
           V == DegradedVotingIds(d, d.selected)
           ids == SignalIdsFor(PlatformOf(d, d.selected))
           r == result.cards
           at(s) == CHOOSE i \in DOMAIN r : r[i].id = s
           causes == {x[1] : x \in Range(result.explain[d.selected])}
<1>1. PICK i \in DOMAIN d.environments : d.environments[i].id = d.selected
  BY Watching
<1>2. AreCauses(d, d.environments[i], V, X) /\ d.environments[i].platform = PlatformOf(d, d.selected)
      /\ d.selected \in Ids(d)
  <2>1. Environs(d)
    BY Watching
  <2> QED BY <1>1, <2>1, Causes, SummaryFound
<1>3. result.explain[d.selected] = X /\ r = Cards(d, input.now)
  <2>1. /\ result.explain = [id \in Ids(d) |-> HealthExplainFor(d, id)]
        /\ result.cards = Cards(d, input.now)
    BY DEF Look
  <2> QED BY <1>2, <2>1
<1> HIDE DEF X, V, r, d
<1>4. \A s \in causes : s \in Range(ids) /\ IsVotingSignal(s) /\ TroubledRow(d, d.selected, s)
  <2> SUFFICES ASSUME NEW x \in Range(X)
               PROVE  x[1] \in Range(ids) /\ IsVotingSignal(x[1]) /\ TroubledRow(d, d.selected, x[1])
    BY <1>3
  <2>1. PICK k \in DOMAIN V : x = X[k]
    BY <1>2 DEF AreCauses
  <2>2. x[1] = V[k]
    BY <1>2, <2>1 DEF AreCauses
  <2> QED BY <1>1, <1>2, <2>2 DEF AreCauses
<1>5. DOMAIN r = 1 .. Len(r) /\ Len(r) = Len(ids) /\ \E from : Placed(d, ids, r, from)
  BY <1>3, CardsAre
<1>6. PICK from : Placed(d, ids, r, from)
  BY <1>5
<1>7. Range(ids) = {ids[j] : j \in DOMAIN ids}
  BY CardIds
<1>8. Len(ids) \in Nat
  BY CardIds
<1> HIDE DEF ids
<1>9. ASSUME NEW s \in causes
      PROVE  \/ r[at(s)].status = "unknown"
             \/ \A j \in 1 .. at(s) : Troubled([state |-> r[j].status])
  <2>1. \E k \in DOMAIN r : r[k].id = s
    BY <1>4, <1>6, <1>7 DEF Placed
  <2>2. at(s) \in DOMAIN r /\ r[at(s)].id = s
    BY <2>1
  <2> HIDE DEF at
  <2>3. r[at(s)].status = CardStatus(d, s)
    BY <1>6, <2>2 DEF Placed
  <2>4. s \in DOMAIN RowsOf(d, d.selected) /\ RowsOf(d, d.selected)[s].state \in {"degraded", "down"}
    BY <1>4 DEF TroubledRow, Troubled
  <2>5. CardStatus(d, s) = "unknown" \/ CardStatus(d, s) \in {"degraded", "down"}
    BY <2>4 DEF CardStatus
  <2>6. ASSUME CardStatus(d, s) \in {"degraded", "down"}, NEW j \in 1 .. at(s)
        PROVE  r[j].status \in {"degraded", "down"}
    <3>1. j \in DOMAIN r /\ j <= at(s)
      BY <1>5, <1>8, <2>2
    <3>2. SeverityRank(r[j].status) <= SeverityRank(r[at(s)].status)
      BY <1>6, <2>2, <3>1 DEF Placed
    <3> QED BY <2>3, <2>6, <3>2, Ranks
  <2> QED BY <2>3, <2>5, <2>6 DEF Troubled
<1> HIDE DEF at
<1>10. CausesComeFirst <=> (Judged("dashboard") => \A s \in causes :
             \/ r[at(s)].status = "unknown"
             \/ \A j \in 1 .. at(s) : Troubled([state |-> r[j].status]))
  BY DEF CausesComeFirst, r, at, d
<1> QED BY <1>9, <1>10

\* A set of indexes has a first one.
LEMMA LeastOf ==
  ASSUME NEW T \in SUBSET Nat, T # {}
  PROVE  \E x \in T : \A y \in T : x <= y
<1> DEFINE R == OpToRel(<, Nat)
<1>1. IsWellFoundedOn(R, Nat)
  BY NatLessThanWellFounded
<1>2. \A x, y \in Nat : x < y => <<x, y>> \in R
  BY DEF OpToRel
<1> HIDE DEF R
<1>3. \E x \in T : \A y \in T : ~ (<<y, x>> \in R)
  BY <1>1, WFMin, Zenon
<1>4. PICK x \in T : \A y \in T : ~ (<<y, x>> \in R)
  BY <1>3
<1>5. ASSUME NEW y \in T PROVE x <= y
  <2>1. x \in Nat /\ y \in Nat /\ ~(<<y, x>> \in R)
    BY <1>4
  <2>2. ~(y < x)
    BY <1>2, <2>1
  <2> QED BY <2>1, <2>2
<1> QED BY <1>5

LEMMA SomeOf ==
  ASSUME NEW n \in Nat, NEW S \in SUBSET (1 .. n)
  PROVE  IsFiniteSet(S) /\ Cardinality(S) \in Nat /\ Cardinality(S) <= n /\ (Cardinality(S) > 0 <=> S # {})
<1>1. IsFiniteSet(1 .. n) /\ Cardinality(1 .. n) = n
  BY FS_Interval
<1>2. IsFiniteSet(S) /\ Cardinality(S) <= n
  BY <1>1, FS_Subset
<1>3. Cardinality(S) \in Nat
  BY <1>2, FS_CardinalityType
<1>4. Cardinality(S) = 0 <=> S = {}
  BY <1>2, FS_EmptySet
<1> DEFINE c == Cardinality(S)
<1>5. c \in Nat /\ c <= n /\ (c = 0 <=> S = {})
  BY <1>2, <1>3, <1>4
<1> HIDE DEF c
<1>6. c > 0 <=> c # 0
  BY <1>5
<1>7. c > 0 <=> S # {}
  BY <1>5, <1>6, Zenon
<1> QED BY <1>2, <1>5, <1>7 DEF c

-----------------------------------------------------------------------------
IdsIn(G) == UNION {{r.id : r \in Range(g.rows)} : g \in Range(G)}

\* The sidebar has every Environment once, whichever its platform.
LEMMA Platforms ==
  ASSUME NEW d, NEW now, Environs(d)
  PROVE  LET es == d.environments IN
         /\ es \in Seq(Range(es)) /\ DOMAIN es = 1 .. Len(es) /\ Len(es) \in Nat
         /\ IdsIn(SidebarPlatforms(d, now)) = {es[i].id : i \in DOMAIN es}
         /\ Cardinality({es[i].id : i \in DOMAIN es}) = Len(Sidebar(d, now))
         /\ DOMAIN Sidebar(d, now) = DOMAIN es
         /\ \A i \in DOMAIN es : Sidebar(d, now)[i] = SidebarRow(d, es[i], now)
<1> DEFINE es == d.environments
           of(p) == {i \in DOMAIN es : es[i].platform = p}
           rows(p) == Kept(es, of(p))
           first == {i \in DOMAIN es : \A j \in 1 .. i - 1 : es[j].platform # es[i].platform}
           heads == Kept(es, first)
           line(p) == [j \in DOMAIN rows(p) |-> SidebarRow(d, rows(p)[j], now)]
           group(p) == [id |-> p, rows |-> line(p)]
           G == SidebarPlatforms(d, now)
           All == UNION {{r.id : r \in Range(g.rows)} : g \in Range(G)}
<1>1. PICK E : es \in Seq(E)
  BY DEF Environs
<1>2. DOMAIN es = 1 .. Len(es) /\ Len(es) \in Nat /\ es \in Seq(Range(es))
  BY <1>1 DEF Range
<1>3. G = [k \in DOMAIN heads |-> group(heads[k].platform)]
  BY DEF SidebarPlatforms
<1>4. \A e : SidebarRow(d, e, now).id = e.id
  BY DEF SidebarRow
<1>5. /\ \A k \in DOMAIN heads : \E i \in first : heads[k] = es[i]
      /\ \A i \in first : \E k \in DOMAIN heads : heads[k] = es[i]
  <2>1. first \in SUBSET DOMAIN es
    OBVIOUS
  <2> HIDE DEF first, es
  <2> QED BY <1>1, <2>1, KeptFacts
<1>6. ASSUME NEW p
      PROVE  /\ \A k \in DOMAIN rows(p) : \E i \in of(p) : rows(p)[k] = es[i]
             /\ \A i \in of(p) : \E k \in DOMAIN rows(p) : rows(p)[k] = es[i]
  <2>1. of(p) \in SUBSET DOMAIN es
    OBVIOUS
  <2> HIDE DEF of, es
  <2> QED BY <1>1, <2>1, KeptFacts
<1> HIDE DEF rows, heads, es
<1>7. ASSUME NEW p PROVE {r.id : r \in Range(line(p))} = {es[i].id : i \in of(p)}
  <2>1. Range(line(p)) = {SidebarRow(d, rows(p)[j], now) : j \in DOMAIN rows(p)}
    BY DEF Range
  <2> HIDE DEF line
  <2>2. ASSUME NEW r \in Range(line(p)) PROVE \E i \in of(p) : r.id = es[i].id
    <3>1. PICK j \in DOMAIN rows(p) : r = SidebarRow(d, rows(p)[j], now)
      BY <2>1
    <3>2. PICK i \in of(p) : rows(p)[j] = es[i]
      BY <1>6
    <3> QED BY <1>4, <3>1, <3>2
  <2>3. ASSUME NEW i \in of(p) PROVE \E r \in Range(line(p)) : r.id = es[i].id
    <3>1. PICK j \in DOMAIN rows(p) : rows(p)[j] = es[i]
      BY <1>6
    <3> QED BY <1>4, <2>1, <3>1
  <2> HIDE DEF of
  <2> QED BY <2>2, <2>3
<1>8. Range(G) = {group(heads[k].platform) : k \in DOMAIN heads}
  BY <1>3 DEF Range
<1>9. \A p : group(p).rows = line(p)
  OBVIOUS
<1> HIDE DEF line, group, G
<1>10. All = {es[i].id : i \in DOMAIN es}
  <2>1. ASSUME NEW x \in All PROVE \E i \in DOMAIN es : x = es[i].id
    <3>1. PICK k \in DOMAIN heads : x \in {r.id : r \in Range(line(heads[k].platform))}
      BY <1>8, <1>9
    <3> QED BY <1>7, <3>1
  <2>2. ASSUME NEW i \in DOMAIN es PROVE es[i].id \in All
    <3> DEFINE p == es[i].platform
    <3>1. i \in of(p) /\ of(p) \in SUBSET Nat
      BY <1>2
    <3>2. PICK h \in of(p) : \A j \in of(p) : h <= j
      <4> HIDE DEF of
      <4> QED BY <3>1, LeastOf
    <3>3. h \in first
      BY <1>2, <3>2
    <3>4. PICK k \in DOMAIN heads : heads[k] = es[h]
      BY <1>5, <3>3
    <3>5. heads[k].platform = p
      BY <3>2, <3>4
    <3>6. es[i].id \in {r.id : r \in Range(line(p))}
      <4> HIDE DEF p, of
      <4> QED BY <1>7, <3>1
    <3>7. group(p) \in Range(G) /\ group(p).rows = line(p)
      BY <1>8, <1>9, <3>5
    <3> HIDE DEF p
    <3> QED BY <3>6, <3>7
  <2> QED BY <2>1, <2>2
<1>11. DOMAIN Sidebar(d, now) = DOMAIN es /\ Len(Sidebar(d, now)) = Len(es)
       /\ \A i \in DOMAIN es : Sidebar(d, now)[i] = SidebarRow(d, es[i], now)
  <2>1. Sidebar(d, now) = [i \in DOMAIN es |-> SidebarRow(d, es[i], now)]
    BY DEF Sidebar, es
  <2> QED BY <1>2, <2>1
<1>12. Cardinality({es[i].id : i \in DOMAIN es}) = Len(es)
  <2> DEFINE D == DOMAIN es
             f == [i \in D |-> es[i].id]
  <2>1. IsFiniteSet(D) /\ Cardinality(D) = Len(es)
    BY <1>2, FS_Interval
  <2>2. \A i, j \in D : f[i] = f[j] => i = j
    BY DEF Environs, es
  <2>3. {f[i] : i \in D} = {es[i].id : i \in D}
    OBVIOUS
  <2>4. Cardinality({f[i] : i \in D}) = Cardinality(D)
    <3> HIDE DEF f, D
    <3> QED BY <2>1, <2>2, SameNumber
  <2> QED BY <2>1, <2>3, <2>4
<1> QED BY <1>2, <1>10, <1>11, <1>12 DEF es, G, IdsIn

InTrouble(e) == e.health \in {"degraded", "down"}

\* Who is attended to, and how many of them are in trouble.
LEMMA Attended ==
  ASSUME NEW d, NEW now, Environs(d), NEW A, A = Attending(d, now)
  PROVE  LET es == d.environments IN
         /\ DOMAIN A = 1 .. Len(A) /\ Len(A) \in Nat
         /\ \A k \in DOMAIN A : \E i \in DOMAIN es : A[k] = es[i]
         /\ Cardinality({k \in DOMAIN A : InTrouble(A[k])})
              <= Cardinality({i \in DOMAIN es : /\ es[i].observed # Never /\ ~IsMuted(d, es[i].id, now)
                                                /\ InTrouble(es[i])})
<1> DEFINE es == d.environments
           K == {i \in DOMAIN es : es[i].observed # Never /\ ~IsMuted(d, es[i].id, now)}
           C == {k \in DOMAIN A : InTrouble(A[k])}
           S == {i \in DOMAIN es : /\ es[i].observed # Never /\ ~IsMuted(d, es[i].id, now)
                                   /\ InTrouble(es[i])}
<1>1. PICK E : es \in Seq(E)
  BY DEF Environs
<1>2. A = Kept(es, K) /\ K \in SUBSET DOMAIN es
  BY DEF Attending
<1>3. DOMAIN es = 1 .. Len(es) /\ Len(es) \in Nat
  BY <1>1
<1>4. S = {i \in K : InTrouble(es[i])}
  OBVIOUS
<1> HIDE DEF K, es, S
<1>5. A \in Seq(E) /\ \E at : Lists(A, at, K, es)
  BY <1>1, <1>2, KeptLists
<1>6. DOMAIN A = 1 .. Len(A) /\ Len(A) \in Nat
  BY <1>5
<1>7. PICK at : Lists(A, at, K, es)
  BY <1>5
<1>8. \A k \in DOMAIN A : at[k] \in K /\ A[k] = es[at[k]]
  BY <1>6, <1>7 DEF Lists
<1>9. \A j, k \in C : at[j] = at[k] => j = k
  <2> SUFFICES ASSUME NEW j \in C, NEW k \in C, at[j] = at[k], j # k PROVE FALSE
    OBVIOUS
  <2>1. j \in 1 .. Len(A) /\ k \in 1 .. Len(A) /\ j \in Int /\ k \in Int
    BY <1>6
  <2>2. at[j] \in Int /\ at[k] \in Int
    BY <1>2, <1>3, <1>6, <1>8, <2>1
  <2>3. j < k \/ k < j
    BY <2>1
  <2>4. at[j] < at[k] \/ at[k] < at[j]
    BY <1>7, <2>1, <2>3 DEF Lists
  <2> QED BY <2>2, <2>4
<1>10. IsFiniteSet(C) /\ IsFiniteSet(S)
  <2>1. C \in SUBSET (1 .. Len(A)) /\ S \in SUBSET (1 .. Len(es))
    BY <1>2, <1>3, <1>4, <1>6
  <2> HIDE DEF C
  <2> QED BY <1>3, <1>6, <2>1, SomeOf
<1>11. {at[k] : k \in C} \in SUBSET S
  BY <1>4, <1>8
<1> HIDE DEF C
<1>12. Cardinality({at[k] : k \in C}) = Cardinality(C)
  BY <1>9, <1>10, SameNumber
<1>13. Cardinality({at[k] : k \in C}) <= Cardinality(S)
  BY <1>10, <1>11, FS_Subset
<1>14. \A k \in DOMAIN A : \E i \in DOMAIN es : A[k] = es[i]
  BY <1>2, <1>8
<1> QED BY <1>6, <1>12, <1>13, <1>14 DEF C, S, es

\* Of any Environments there is a worst health.
LEMMA Worst ==
  ASSUME NEW H \in SUBSET Healths, H # {}
  PROVE  \E h \in H : \A g \in H : HealthRank(g) <= HealthRank(h)
<1>1. \A h \in Healths : h = "waiting" \/ h = "healthy" \/ h = "degraded" \/ h = "down"
  BY DEF Healths
<1>2. /\ HealthRank("waiting") = -1 /\ HealthRank("healthy") = 0
      /\ HealthRank("degraded") = 1 /\ HealthRank("down") = 2
  BY DEF HealthRank
<1>3. CASE "down" \in H
  BY <1>1, <1>2, <1>3
<1>4. CASE "down" \notin H /\ "degraded" \in H
  BY <1>1, <1>2, <1>4
<1>5. CASE "down" \notin H /\ "degraded" \notin H /\ "healthy" \in H
  BY <1>1, <1>2, <1>5
<1>6. CASE H = {"waiting"}
  BY <1>2, <1>6
<1> QED BY <1>1, <1>3, <1>4, <1>5, <1>6

LEMMA AgreeHold ==
  ASSUME LookWorld(input), result = Look(input.d, input.now)
  PROVE  SurfacesAgree
<1> DEFINE d == input.d
           now == input.now
           es == d.environments
           A == Attending(d, now)
           C == {k \in DOMAIN A : InTrouble(A[k])}
           S == {i \in DOMAIN es : /\ es[i].observed # Never /\ ~IsMuted(d, es[i].id, now)
                                   /\ InTrouble(es[i])}
           H == {e.health : e \in Range(A)}
           shown == {i \in DOMAIN result.sidebar : LET r == result.sidebar[i] IN
                       ~r.dimmed /\ ~r.muted /\ r.health \in {"degraded", "down"}}
<1>1. /\ Environs(d)
      /\ \A i \in DOMAIN es : es[i].health \in Healths
  <2>1. Environs(d) /\ \A i \in DOMAIN es : Watched(d, es[i])
    BY Watching
  <2>2. ASSUME NEW i \in DOMAIN es PROVE es[i].health \in Healths
    BY <2>1, DaemonTrouble DEF Watched
  <2> QED BY <2>1, <2>2
<1>2. /\ result.count = TroubledCount(d, now) /\ result.worst = WorstHealth(d, now)
      /\ result.sidebar = Sidebar(d, now) /\ result.platforms = SidebarPlatforms(d, now)
  BY DEF Look
<1>3. /\ TroubledCount(d, now) = IF ~d.connected THEN 0 ELSE Cardinality(C)
      /\ WorstHealth(d, now) = IF ~d.connected \/ H = {} THEN Null
                               ELSE CHOOSE h \in H : \A g \in H : HealthRank(g) <= HealthRank(h)
  BY DEF TroubledCount, WorstHealth, InTrouble
<1> HIDE DEF d, now
<1>4. /\ DOMAIN A = 1 .. Len(A) /\ Len(A) \in Nat
      /\ \A k \in DOMAIN A : \E i \in DOMAIN es : A[k] = es[i]
      /\ Cardinality(C) <= Cardinality(S)
  <2> HIDE DEF A
  <2> QED BY <1>1, Attended DEF A
<1>5. /\ DOMAIN es = 1 .. Len(es) /\ Len(es) \in Nat
      /\ IdsIn(result.platforms) = {es[i].id : i \in DOMAIN es}
      /\ Cardinality({es[i].id : i \in DOMAIN es}) = Len(result.sidebar)
      /\ DOMAIN result.sidebar = DOMAIN es
      /\ \A i \in DOMAIN es : result.sidebar[i] = SidebarRow(d, es[i], now)
  BY <1>1, <1>2, Platforms DEF es
<1> HIDE DEF A, es
<1>6. /\ Cardinality(C) \in Nat /\ (Cardinality(C) > 0 <=> C # {})
      /\ Cardinality(S) \in Nat /\ Cardinality(shown) \in Nat
  <2>1. C \in SUBSET (1 .. Len(A)) /\ S \in SUBSET (1 .. Len(es)) /\ shown \in SUBSET (1 .. Len(es))
    BY <1>4, <1>5
  <2> HIDE DEF C, S, shown
  <2> QED BY <1>4, <1>5, <2>1, SomeOf
<1>7. result.count > 0 <=> result.worst \in {"degraded", "down"}
  <2>1. CASE ~d.connected
    <3>1. result.count = 0 /\ result.worst = Null
      BY <1>2, <1>3, <2>1
    <3> QED BY <3>1, DashboardAssumption DEF Healths
  <2>2. CASE d.connected
    <3>1. H = {A[k].health : k \in DOMAIN A}
      BY DEF Range
    <3>2. H \in SUBSET Healths
      <4>1. \A k \in DOMAIN A : A[k].health \in Healths
        BY <1>1, <1>4
      <4> QED BY <3>1, <4>1
    <3>3. C # {} <=> H \cap {"degraded", "down"} # {}
      BY <3>1 DEF InTrouble
    <3>4. CASE H = {}
      <4>1. result.worst = Null /\ C = {}
        BY <1>2, <1>3, <2>2, <3>3, <3>4
      <4> QED BY <1>2, <1>3, <1>6, <2>2, <4>1, DashboardAssumption DEF Healths
    <3>5. CASE H # {}
      <4> DEFINE w == result.worst
      <4>1. w \in H /\ \A g \in H : HealthRank(g) <= HealthRank(w)
        <5>1. w = CHOOSE h \in H : \A g \in H : HealthRank(g) <= HealthRank(h)
          BY <1>2, <1>3, <2>2, <3>5
        <5> HIDE DEF H, w
        <5> QED BY <3>2, <3>5, <5>1, Worst
      <4>2. w \in {"degraded", "down"} <=> H \cap {"degraded", "down"} # {}
        <5>1. \A h \in Healths : h \in {"degraded", "down"} <=> HealthRank(h) >= 1
          BY DEF Healths, HealthRank
        <5>2. \A h \in Healths : HealthRank(h) \in Int
          BY DEF Healths, HealthRank
        <5> HIDE DEF H, w
        <5> QED BY <3>2, <4>1, <5>1, <5>2
      <4> HIDE DEF H, C
      <4> QED BY <1>2, <1>3, <1>6, <2>2, <3>3, <4>2
    <3> QED BY <3>4, <3>5
  <2> QED BY <2>1, <2>2
<1>8. result.count <= Cardinality(shown)
  <2>1. CASE ~d.connected
    <3>1. result.count = 0
      BY <1>2, <1>3, <2>1
    <3> HIDE DEF shown
    <3> QED BY <1>6, <3>1
  <2>2. CASE d.connected
    <3>1. ASSUME NEW i \in DOMAIN es, NEW r, r = result.sidebar[i]
          PROVE  /\ r.dimmed <=> es[i].observed = Never
                 /\ r.muted = IsMuted(d, es[i].id, now) /\ r.health = es[i].health
      <4>1. r = SidebarRow(d, es[i], now)
        BY <1>5, <3>1
      <4> QED BY <2>2, <4>1 DEF SidebarRow
    <3>2. shown = S
      BY <1>5, <3>1 DEF InTrouble
    <3> HIDE DEF shown, S, C
    <3> QED BY <1>2, <1>3, <1>4, <2>2, <3>2
  <2> QED BY <2>1, <2>2
<1> QED BY <1>5, <1>7, <1>8 DEF SurfacesAgree, IdsIn

LEMMA CopiesHold ==
  ASSUME LookWorld(input), result = Look(input.d, input.now)
  PROVE  CopiesAgree
<1> DEFINE d == input.d
           ids == SignalIdsFor(PlatformOf(d, d.selected))
           V == DegradedVotingIds(d, d.selected)
           X == HealthExplainFor(d, d.selected)
           lines == result.text.lines
           signals == result.context.signals
           said(s) == IF CardSummary(d, s) # NoText THEN CardSummary(d, s) ELSE CardDetail(d, s)
<1>1. PICK i \in DOMAIN d.environments : Environs(d) /\ d.environments[i].id = d.selected
  BY Watching
<1>2. /\ SummaryOf(d, d.selected) = d.environments[i]
      /\ PlatformOf(d, d.selected) = d.environments[i].platform
      /\ AreCauses(d, d.environments[i], V, X)
  BY <1>1, SummaryFound, Causes
<1>3. /\ result.text = SummaryText(d, input.now) /\ result.context = AgentContext(d)
      /\ result.cards = Cards(d, input.now)
  BY DEF Look
<1>4. DOMAIN ids = 1 .. Len(ids) /\ Len(ids) \in Nat /\ Range(ids) = {ids[k] : k \in DOMAIN ids}
  BY CardIds
<1>5. SignalIdsFor(SummaryOf(d, d.selected).platform) = ids /\ SummaryOf(d, d.selected).id = d.selected
  BY <1>1, <1>2
<1> HIDE DEF d, said
<1>6. /\ lines = [k \in DOMAIN ids |-> <<ids[k], StateOf(d, ids[k]), said(ids[k])>>]
      /\ result.text.because = X
  <2> HIDE DEF ids, X
  <2> QED BY <1>3, <1>5 DEF SummaryText, said, X
<1>7. signals = [k \in DOMAIN ids |-> <<ids[k], StateOf(d, ids[k]), CardSummary(d, ids[k])>>]
  BY <1>3 DEF AgentContext, ContextSignals
<1>8. Len(result.cards) = Len(ids)
  <2> DEFINE r == Cards(d, input.now)
  <2>1. Len(r) = Len(ids)
    <3> HIDE DEF ids, r
    <3> QED BY CardsAre DEF ids, r
  <2> QED BY <1>3, <2>1
<1> HIDE DEF ids, V, X, lines, signals
<1>9. Len(lines) = Len(ids) /\ DOMAIN lines = DOMAIN ids /\ Len(signals) = Len(ids)
  BY <1>4, <1>6, <1>7
<1>10. ASSUME NEW k \in DOMAIN ids
       PROVE  /\ lines[k][1] = ids[k] /\ lines[k][2] = StateOf(d, ids[k]) /\ lines[k][3] = said(ids[k])
              /\ signals[k][1] = ids[k] /\ signals[k][2] = StateOf(d, ids[k])
              /\ signals[k][3] = CardSummary(d, ids[k])
  <2>1. /\ lines[k] = <<ids[k], StateOf(d, ids[k]), said(ids[k])>>
        /\ signals[k] = <<ids[k], StateOf(d, ids[k]), CardSummary(d, ids[k])>>
    BY <1>6, <1>7
  <2> QED BY <2>1
<1>11. \A s : CardSummary(d, s) # NoText => said(s) = CardSummary(d, s)
  BY DEF said
<1>12. \A k \in DOMAIN lines :
         /\ <<lines[k][1], lines[k][2]>> = <<signals[k][1], signals[k][2]>>
         /\ signals[k][3] # NoText => lines[k][3] = signals[k][3]
  BY <1>9, <1>10, <1>11
<1>13. ASSUME NEW x \in Range(X)
       PROVE  \E k \in DOMAIN lines : lines[k][1] = x[1] /\ Troubled([state |-> lines[k][2]])
  <2>1. PICK n \in DOMAIN V : x = X[n]
    BY <1>2 DEF AreCauses
  <2>2. x[1] = V[n] /\ V[n] \in Range(ids) /\ TroubledRow(d, d.selected, V[n])
    BY <1>1, <1>2, <2>1 DEF AreCauses, ids
  <2>3. PICK k \in DOMAIN ids : ids[k] = V[n]
    BY <1>4, <2>2
  <2>4. StateOf(d, V[n]) \in {"degraded", "down"}
    BY <2>2 DEF TroubledRow, Troubled, StateOf
  <2>5. lines[k][1] = x[1] /\ lines[k][2] \in {"degraded", "down"}
    BY <1>10, <2>2, <2>3, <2>4
  <2> QED BY <1>9, <2>5 DEF Troubled
<1> QED BY <1>6, <1>8, <1>9, <1>12, <1>13 DEF CopiesAgree, lines, signals

-----------------------------------------------------------------------------
\* A drift that differs is told of on its row.
LEMMA DriftIsTold ==
  ASSUME NEW p, DriftMismatch(p), DriftPayload(p)
  PROVE  SummarizeValue("drift", p) \notin {NoText, <<"Source of truth">>}
<1>1. /\ Get(p, "role") # "source" /\ Get(p, "skipped") = Null /\ ~ProbeFailed(p)
      /\ Get(p, "mismatches") # Null
  BY DEF DriftPayload
<1>2. p # Null
  BY <1>1 DEF Get
<1>3. "drift" \notin PlainCount
  BY DashboardAssumption DEF OwnText
<1>4. SummarizeValue("drift", p) = CountText("drift", p)
  BY <1>1, <1>2 DEF SummarizeValue
<1>5. CountText("drift", p) = DriftText(p)
  BY <1>3 DEF CountText
<1>6. DriftText(p) = <<p.mismatches, Num(p, "expected_mismatches")>>
  BY <1>1 DEF DriftText
<1>7. \A a, b : <<a, b>> # <<>> /\ <<a, b>> # <<"Source of truth">>
  OBVIOUS
<1> QED BY <1>4, <1>5, <1>6, <1>7 DEF NoText

LEMMA StripHold ==
  ASSUME LookWorld(input), result = Look(input.d, input.now)
  PROVE  StripAgreesWithRows
<1> DEFINE d == input.d
           es == d.environments
           R == result.rows
           line(i) == R[i]
           tinted == {r \in Range(R) : r.mismatch}
           source == CloneSourceId(d)
<1>1. Environs(d) /\ \A i \in DOMAIN es : Watched(d, es[i])
  BY Watching
<1>2. R = CompareRows(d) /\ result.strip = CompareStrip(d)
  BY DEF Look
<1> HIDE DEF d, R, es, source
<1>3. /\ DOMAIN R = DOMAIN es
      /\ \A i \in DOMAIN es :
           /\ R[i].id = es[i].id /\ R[i].build = EnvironmentBuild(d, es[i].id)
           /\ R[i].mismatch = BuildDiffers(d, es[i].id)
           /\ R[i].drift = SignalSummary(d, es[i].id, "drift")
  BY <1>2 DEF CompareRows, es
<1>4. Range(R) = {R[i] : i \in DOMAIN es}
  BY <1>3 DEF Range
<1>5. /\ \A r \in tinted : \E i \in DOMAIN es : r = R[i] /\ BuildDiffers(d, es[i].id)
      /\ \A i \in DOMAIN es : BuildDiffers(d, es[i].id) => R[i] \in tinted
  BY <1>3, <1>4
<1> HIDE DEF tinted
<1>6. ASSUME NEW r \in tinted PROVE r.build # Null /\ r.id # source
  <2>1. PICK i \in DOMAIN es : r = R[i] /\ BuildDiffers(d, es[i].id)
    BY <1>5
  <2>2. EnvironmentBuild(d, es[i].id) # Null /\ EnvironmentBuild(d, es[i].id) # ReferenceBuild(d)
    BY <2>1 DEF BuildDiffers
  <2>3. EnvironmentBuild(d, source) # Null => ReferenceBuild(d) = EnvironmentBuild(d, source)
    BY DEF ReferenceBuild, source
  <2> QED BY <1>3, <2>1, <2>2, <2>3
<1>7. \A id : id \in Ids(d) <=> \E i \in DOMAIN es : es[i].id = id
  BY IdsAre DEF es
<1>8. /\ Len(es) > 1 => result.strip.mismatch = \E id \in Ids(d) :
                          \/ BuildDiffers(d, id)
                          \/ /\ id # source /\ "drift" \in DOMAIN RowsOf(d, id)
                             /\ DriftMismatch(RowsOf(d, id)["drift"].payload)
      /\ ~(Len(es) > 1) => result.strip.mismatch = FALSE
  <2>1. Len(es) \in Nat
    BY <1>1 DEF Environs, es
  <2>2. Len(es) < 2 <=> ~(Len(es) > 1)
    BY <2>1
  <2> QED BY <1>2, <2>2 DEF CompareStrip, es, source
<1>9. ASSUME Len(es) > 1, tinted # {} PROVE result.strip.mismatch
  BY <1>5, <1>7, <1>8, <1>9
<1>10. ASSUME result.strip.mismatch, tinted = {}
       PROVE  \E r \in Range(R) : r.drift \notin {NoText, <<"Source of truth">>}
  <2>1. PICK id \in Ids(d) : \/ BuildDiffers(d, id)
                             \/ /\ "drift" \in DOMAIN RowsOf(d, id)
                                /\ DriftMismatch(RowsOf(d, id)["drift"].payload)
    BY <1>8, <1>10
  <2>2. PICK i \in DOMAIN es : es[i].id = id
    BY <1>7
  <2>3. ~BuildDiffers(d, id)
    BY <1>5, <1>10, <2>2
  <2>4. "drift" \in DOMAIN RowsOf(d, id) /\ DriftMismatch(RowsOf(d, id)["drift"].payload)
    BY <2>1, <2>3
  <2>5. DriftPayload(RowsOf(d, id)["drift"].payload)
    BY <1>1, <2>2, <2>4 DEF Watched, RowTable
  <2>6. R[i].drift = SummarizeValue("drift", RowsOf(d, id)["drift"].payload)
    BY <1>3, <2>2, <2>4 DEF SignalSummary
  <2> QED BY <1>4, <2>4, <2>5, <2>6, DriftIsTold
<1> QED BY <1>6, <1>9, <1>10 DEF StripAgreesWithRows, tinted, R, es, source, d

\* Whatever is written down of a card has a text.
LEMMA CountsAreSaid ==
  ASSUME NEW s \in KnownSignals, NEW p, p # Null, Get(p, "skipped") = Null, ~ProbeFailed(p),
         Get(p, "error") = Null, Get(p, "detail") = Null, Legible(s, p)
  PROVE  CountText(s, p) # NoText
<1>1. s \in Signals
  <2>1. \A q \in DOMAIN SignalIds : Range(SignalIds[q]) \subseteq Signals
    BY DashboardAssumption DEF Range
  <2> QED BY <2>1 DEF KnownSignals
<1>2. CASE s \in PlainCount
  <2>1. s \notin OwnText
    BY <1>2, DashboardAssumption
  <2>2. CountText(s, p) = <<Num(p, "count")>>
    BY <1>2, <2>1 DEF CountText, OwnText
  <2> QED BY <2>2, Texts
<1>3. CASE s \notin PlainCount
  <2>1. s \in OwnText
    BY <1>1, <1>3, DashboardAssumption
  <2>2. CASE s = "availability"
    BY <1>3, <2>2, Texts DEF CountText, Legible
  <2>3. CASE s = "drift"
    <3>1. CountText(s, p) = DriftText(p) /\ (Get(p, "role") = "source" \/ Get(p, "mismatches") # Null)
      BY <1>3, <2>3 DEF CountText, Legible
    <3> QED BY <3>1, Texts DEF DriftText
  <2>4. CASE s = "last_clone"
    <3>1. /\ CountText(s, p) = CloneText(p)
          /\ \/ Get(p, "role") = "source" \/ Get(p, "age_days") # Null \/ Get(p, "unknown") # Null
             \/ "completed" \in DOMAIN p /\ p.completed = Null
      BY <1>3, <2>4 DEF CountText, Legible
    <3> QED BY <3>1, Texts DEF CloneText
  <2>5. CASE s = "upgrade"
    <3>1. UpgradeText(p) # NoText
      BY Texts DEF UpgradeText
    <3> QED BY <1>3, <2>5, <3>1 DEF CountText
  <2>6. CASE s \in {"jobs", "mid_ecc", "sessions", "table_growth", "scan", "http_probe"}
    BY <1>3, <2>6, Texts DEF CountText
  <2> QED BY <2>1, <2>2, <2>3, <2>4, <2>5, <2>6 DEF OwnText
<1> QED BY <1>2, <1>3

LEMMA CountsHold ==
  ASSUME CardWorld(input), result = [summary |-> SummarizeValue(input.signal, input.payload),
                                     body    |-> Body(input.signal, input.payload)]
  PROVE  NoInventedCounts
<1> DEFINE p == input.payload
           s == input.signal
<1>1. result.summary = SummarizeValue(s, p) /\ result.body = Body(s, p)
  OBVIOUS
<1>2. s \in KnownSignals /\ Legible(s, p)
  BY DEF CardWorld
<1> HIDE DEF p, s
<1>3. p = Null \/ Get(p, "skipped") # Null \/ ProbeFailed(p) => result.summary = NoText
  BY <1>1 DEF SummarizeValue
<1>4. ASSUME p # Null PROVE result.body # NoText
  <2>1. CASE \/ Get(p, "skipped") # Null \/ Get(p, "error") # Null \/ Get(p, "detail") # Null
    <3>1. DetailFromValue(s, p) # NoText
      BY <2>1, Texts DEF DetailFromValue
    <3> QED BY <1>1, <3>1 DEF Body
  <2>2. CASE Get(p, "skipped") = Null /\ Get(p, "error") = Null /\ Get(p, "detail") = Null
    <3>1. ~ProbeFailed(p)
      BY <2>2 DEF ProbeFailed
    <3>2. SummarizeValue(s, p) # NoText
      BY <1>2, <1>4, <2>2, <3>1, CountsAreSaid DEF SummarizeValue
    <3> QED BY <1>1, <3>2 DEF Body
  <2> QED BY <2>1, <2>2
<1> QED BY <1>3, <1>4 DEF NoInventedCounts, p

-----------------------------------------------------------------------------
\* A list is shown up to the limit, and a row of it is linked as it may be.
LinkedRight(d, r) == r.link # Null => Linked(d) \/ r.link = Get(r.row, "page")

Shown(d, list, cells) ==
  /\ Len(cells) \in Nat /\ DOMAIN cells = 1 .. Len(cells)
  /\ Len(cells) = IF Len(list) > DrillInRowLimit THEN DrillInRowLimit ELSE Len(list)
  /\ \A k \in DOMAIN cells : cells[k].row = list[k] /\ LinkedRight(d, cells[k])

LEMMA CellsShown ==
  ASSUME NEW d, NEW list, \E R : list \in Seq(R)
  PROVE  /\ Shown(d, list, Cells(d, list, Unlinked))
         /\ Shown(d, list, Cells(d, list, Record))
         /\ Shown(d, list, Cells(d, list, RunPage))
<1> DEFINE n == IF Len(list) > DrillInRowLimit THEN DrillInRowLimit ELSE Len(list)
<1>1. Len(list) \in Nat /\ n \in Nat
  BY DashboardAssumption
<1> HIDE DEF n
<1>2. ASSUME NEW cells, NEW link, cells = [k \in 1 .. n |-> [row |-> list[k], link |-> link[k]]],
             \A k \in 1 .. n : link[k] # Null => Linked(d) \/ link[k] = Get(list[k], "page")
      PROVE  Shown(d, list, cells)
  <2>1. DOMAIN cells = 1 .. n /\ Len(cells) = n
    BY <1>1, <1>2
  <2>2. \A k \in 1 .. n : cells[k].row = list[k] /\ cells[k].link = link[k]
    BY <1>2
  <2>3. \A k \in DOMAIN cells : cells[k].row = list[k] /\ LinkedRight(d, cells[k])
    BY <1>2, <2>1, <2>2 DEF LinkedRight
  <2> QED BY <1>1, <2>1, <2>3 DEF Shown, n
<1>3. Shown(d, list, Cells(d, list, Unlinked))
  <2> DEFINE link == [k \in 1 .. n |-> Unlinked(d, list[k])]
  <2>1. Cells(d, list, Unlinked) = [k \in 1 .. n |-> [row |-> list[k], link |-> link[k]]]
    BY DEF Cells, n
  <2>2. \A k \in 1 .. n : link[k] = Null
    BY DEF Unlinked
  <2> HIDE DEF link
  <2> QED BY <1>2, <2>1, <2>2
<1>4. Shown(d, list, Cells(d, list, Record))
  <2> DEFINE link == [k \in 1 .. n |-> Record(d, list[k])]
  <2>1. Cells(d, list, Record) = [k \in 1 .. n |-> [row |-> list[k], link |-> link[k]]]
    BY DEF Cells, n
  <2>2. \A k \in 1 .. n : link[k] # Null => Linked(d)
    BY DEF Record, RecordUrl
  <2> HIDE DEF link
  <2> QED BY <1>2, <2>1, <2>2
<1>5. Shown(d, list, Cells(d, list, RunPage))
  <2> DEFINE link == [k \in 1 .. n |-> RunPage(d, list[k])]
  <2>1. Cells(d, list, RunPage) = [k \in 1 .. n |-> [row |-> list[k], link |-> link[k]]]
    BY DEF Cells, n
  <2>2. \A k \in 1 .. n : link[k] = Get(list[k], "page")
    BY DEF RunPage
  <2> HIDE DEF link
  <2> QED BY <1>2, <2>1, <2>2
<1> QED BY <1>3, <1>4, <1>5

AllRows(p) == UNION {Range(p[k]) : k \in DOMAIN p \cap {"rows", "overdue_rows", "error_rows"}}

\* What a Drill-in leaves out is told of, and its rows are linked as they may be.
Told(d, s, p, x) ==
  x # Null =>
    /\ /\ s \notin {"last_clone", "table_growth"}
       /\ (AllRows(p) \ {r.row : r \in Range(x.rows)}) # {}
       => x.truncated
    /\ \A r \in Range(x.rows) : LinkedRight(d, r)

Fits(list) == ~(Len(list) > DrillInRowLimit)
AllShown(list, cells) == \A item \in Range(list) : \E k \in DOMAIN cells : cells[k].row = item

LEMMA ShownRows ==
  ASSUME NEW d, NEW R, NEW list \in Seq(R), NEW cells, Shown(d, list, cells)
  PROVE  /\ \A r \in Range(cells) : LinkedRight(d, r)
         /\ Fits(list) => AllShown(list, cells)
<1>1. Range(cells) = {cells[k] : k \in DOMAIN cells}
  BY DEF Range
<1>2. DOMAIN list = 1 .. Len(list) /\ Len(list) \in Nat /\ Range(list) = {list[k] : k \in DOMAIN list}
  BY DEF Range
<1>3. Fits(list) => DOMAIN cells = DOMAIN list
  BY <1>2 DEF Shown, Fits
<1>4. Fits(list) => \A item \in Range(list) : \E k \in DOMAIN cells : cells[k].row = item
  BY <1>2, <1>3 DEF Shown
<1>5. \A r \in Range(cells) : LinkedRight(d, r)
  BY <1>1 DEF Shown
<1> QED BY <1>4, <1>5 DEF AllShown

-----------------------------------------------------------------------------
\* One list of rows.
LEMMA OneListTold ==
  ASSUME NEW d, NEW s, NEW p, p # Null, DrillPayload(s, p), s # "jobs", "rows" \in DOMAIN p,
         NEW x, Shown(d, p["rows"], x.rows), Len(p["rows"]) > DrillInRowLimit => x.truncated
  PROVE  Told(d, s, p, x)
<1> DEFINE given == p["rows"]
           told == x.rows
<1>1. PICK R : given \in Seq(R)
  BY DEF DrillPayload, ListOf
<1>2. AllRows(p) = Range(given)
  <2>1. DOMAIN p \cap {"rows", "overdue_rows", "error_rows"} = {"rows"}
    BY DEF DrillPayload
  <2> QED BY <2>1 DEF AllRows
<1> HIDE DEF given, told
<1>3. /\ \A r \in Range(told) : LinkedRight(d, r)
      /\ Fits(given) => AllShown(given, told)
  <2>1. Shown(d, given, told)
    BY DEF given, told
  <2> QED BY <1>1, <2>1, ShownRows
<1>4. \A k \in DOMAIN told : told[k] \in Range(told)
  BY DEF Range
<1>5. ASSUME (AllRows(p) \ {r.row : r \in Range(told)}) # {} PROVE x.truncated
  <2>1. PICK item \in Range(given) : \A r \in Range(told) : r.row # item
    BY <1>2, <1>5
  <2>2. ~Fits(given)
    BY <1>3, <1>4, <2>1 DEF AllShown
  <2> QED BY <2>2 DEF given, Fits
<1> QED BY <1>3, <1>5 DEF Told, told

LEMMA RowsTold ==
  ASSUME NEW d, NEW s, NEW p, p # Null, DrillPayload(s, p), s # "jobs"
  PROVE  /\ Told(d, s, p, RowsFrom(d, p, Unlinked)) /\ Told(d, s, p, RowsFrom(d, p, Record))
         /\ Told(d, s, p, RowsFrom(d, p, RunPage)) /\ Told(d, s, p, DriftRows(d, p))
<1> DEFINE list == p["rows"]
<1>1. CASE "rows" \notin DOMAIN p
  <2>1. Get(p, "rows") = Null
    BY <1>1 DEF Get
  <2>2. /\ RowsFrom(d, p, Unlinked) = Null /\ RowsFrom(d, p, Record) = Null /\ RowsFrom(d, p, RunPage) = Null
    BY <2>1 DEF RowsFrom
  <2>3. DriftRows(d, p) = Null
    BY <2>1, <2>2, DashboardAssumption DEF DriftRows
  <2> QED BY <2>2, <2>3 DEF Told
<1>2. CASE "rows" \in DOMAIN p
  <2>1. Get(p, "rows") = list /\ list # Null /\ \E R : list \in Seq(R)
    BY <1>2 DEF Get, DrillPayload, ListOf
  <2> DEFINE cut == Flag(p, "rows_truncated")
             more == cut \/ Len(list) > DrillInRowLimit
  <2>2. /\ Shown(d, list, Cells(d, list, Unlinked)) /\ Shown(d, list, Cells(d, list, Record))
        /\ Shown(d, list, Cells(d, list, RunPage))
    <3> HIDE DEF list
    <3> QED BY <2>1, CellsShown
  <2>3. ASSUME NEW cells, Shown(d, list, cells) PROVE Told(d, s, p, [rows |-> cells, truncated |-> more])
    <3> DEFINE x == [rows |-> cells, truncated |-> more]
    <3>1. x.rows = cells /\ (Len(list) > DrillInRowLimit => x.truncated)
      BY Zenon
    <3> HIDE DEF x
    <3>2. Told(d, s, p, x)
      BY <1>2, <2>3, <3>1, OneListTold
    <3> QED BY <3>2 DEF x
  <2>4. Told(d, s, p, Null)
    BY DEF Told
  <2>5. /\ \/ RowsFrom(d, p, Unlinked) = Null
           \/ RowsFrom(d, p, Unlinked) = [rows |-> Cells(d, list, Unlinked), truncated |-> more]
        /\ \/ RowsFrom(d, p, Record) = Null
           \/ RowsFrom(d, p, Record) = [rows |-> Cells(d, list, Record), truncated |-> more]
        /\ \/ RowsFrom(d, p, RunPage) = Null
           \/ RowsFrom(d, p, RunPage) = [rows |-> Cells(d, list, RunPage), truncated |-> more]
    <3> HIDE DEF list
    <3> QED BY <2>1 DEF RowsFrom
  <2> HIDE DEF more
  <2>6. /\ Told(d, s, p, RowsFrom(d, p, Unlinked)) /\ Told(d, s, p, RowsFrom(d, p, Record))
        /\ Told(d, s, p, RowsFrom(d, p, RunPage))
    BY <2>2, <2>3, <2>4, <2>5
  <2>7. CASE list # <<>>
    BY <2>1, <2>6, <2>7 DEF DriftRows
  <2>8. CASE list = <<>>
    <3> DEFINE x == [rows |-> <<>>, truncated |-> cut]
    <3>1. DriftRows(d, p) = x
      BY <2>1, <2>8 DEF DriftRows
    <3>2. Shown(d, list, x.rows) /\ ~(Len(list) > DrillInRowLimit)
      <4>1. x.rows = <<>> /\ Len(<<>>) = 0 /\ DOMAIN <<>> = {} /\ ~(0 > DrillInRowLimit)
        BY DashboardAssumption
      <4> HIDE DEF x, list
      <4> QED BY <2>8, <4>1 DEF Shown
    <3> HIDE DEF x
    <3>3. Told(d, s, p, x)
      BY <1>2, <3>2, OneListTold
    <3> QED BY <2>6, <3>1, <3>3
  <2> QED BY <2>6, <2>7, <2>8
<1> QED BY <1>1, <1>2

\* Overdue jobs and those in error, in one list.
LEMMA JobsTold ==
  ASSUME NEW d, NEW s, NEW p, p # Null, DrillPayload(s, p), s = "jobs"
  PROVE  Told(d, s, p, JobRows(d, p))
<1> DEFINE of(key) == IF Get(p, key) = Null THEN <<>> ELSE p[key]
           a == of("overdue_rows")
           b == of("error_rows")
           ca == Cells(d, a, Record)
           cb == Cells(d, b, Record)
           both == ca \o cb
           n == IF Len(both) > DrillInRowLimit THEN DrillInRowLimit ELSE Len(both)
           top == SubSeq(both, 1, n)
           cut == Flag(p, "overdue_rows_truncated") \/ Flag(p, "error_rows_truncated")
           x == [rows |-> top, truncated |-> cut \/ Len(top) >= DrillInRowLimit]
<1>1. JobRows(d, p) = IF both = <<>> THEN Null ELSE x
  BY DEF JobRows
<1>2. ASSUME NEW key \in {"overdue_rows", "error_rows"}
      PROVE  /\ \E R : of(key) \in Seq(R)
             /\ Range(of(key)) = IF key \in DOMAIN p THEN Range(p[key]) ELSE {}
  <2>1. CASE key \in DOMAIN p
    <3>1. p[key] # Null /\ \E R : p[key] \in Seq(R)
      BY <2>1 DEF DrillPayload, ListOf
    <3>2. of(key) = p[key]
      BY <2>1, <3>1 DEF Get
    <3> QED BY <2>1, <3>1, <3>2
  <2>2. CASE key \notin DOMAIN p
    <3>1. of(key) = <<>> /\ <<>> \in Seq({}) /\ Range(<<>>) = {}
      BY <2>2 DEF Get, Range
    <3> QED BY <2>2, <3>1
  <2> QED BY <2>1, <2>2
<1>3. PICK A : a \in Seq(A)
  BY <1>2
<1>4. PICK B : b \in Seq(B)
  BY <1>2
<1>5. AllRows(p) = Range(a) \cup Range(b)
  <2>1. "rows" \notin DOMAIN p
    BY DEF DrillPayload
  <2>2. /\ Range(a) = IF "overdue_rows" \in DOMAIN p THEN Range(p["overdue_rows"]) ELSE {}
        /\ Range(b) = IF "error_rows" \in DOMAIN p THEN Range(p["error_rows"]) ELSE {}
    BY <1>2
  <2> HIDE DEF a, b
  <2> QED BY <2>1, <2>2 DEF AllRows
<1> HIDE DEF a, b, of
<1>6. Shown(d, a, ca) /\ Shown(d, b, cb)
  BY <1>3, <1>4, CellsShown
<1> HIDE DEF ca, cb
<1>7. /\ \A r \in Range(ca) : LinkedRight(d, r)
      /\ \A r \in Range(cb) : LinkedRight(d, r)
      /\ Fits(a) => AllShown(a, ca)
      /\ Fits(b) => AllShown(b, cb)
  BY <1>3, <1>4, <1>6, ShownRows
<1> DEFINE T == Range(ca) \cup Range(cb)
<1>8. /\ DOMAIN ca = 1 .. Len(ca) /\ Len(ca) \in Nat /\ \A k \in DOMAIN ca : ca[k] \in T
      /\ DOMAIN cb = 1 .. Len(cb) /\ Len(cb) \in Nat /\ \A k \in DOMAIN cb : cb[k] \in T
  BY <1>6 DEF Shown, Range
<1>9. ca \in Seq(T) /\ cb \in Seq(T)
  <2>1. ca = [k \in DOMAIN ca |-> ca[k]] /\ cb = [k \in DOMAIN cb |-> cb[k]]
    BY DEF ca, cb, Cells
  <2> HIDE DEF T
  <2> QED BY <1>8, <2>1
<1> HIDE DEF T
<1>10. /\ both \in Seq(T) /\ Len(both) = Len(ca) + Len(cb)
       /\ \A k \in 1 .. Len(ca) : both[k] = ca[k]
       /\ \A k \in 1 .. Len(cb) : both[Len(ca) + k] = cb[k]
  BY <1>8, <1>9
<1>11. \A r \in T : LinkedRight(d, r)
  BY <1>7 DEF T
<1> HIDE DEF both
<1>12. n \in Nat /\ n <= Len(both) /\ n <= DrillInRowLimit /\ (n < DrillInRowLimit => n = Len(both))
  BY <1>8, <1>10, DashboardAssumption
<1> HIDE DEF n
<1>13. top \in Seq(T) /\ Len(top) = n /\ \A k \in 1 .. n : top[k] = both[k]
  BY <1>10, <1>12
<1>14. DOMAIN top = 1 .. n /\ Range(top) = {top[k] : k \in 1 .. n} /\ \A k \in 1 .. n : top[k] \in T
  <2> HIDE DEF top
  <2>1. DOMAIN top = 1 .. n
    BY <1>12, <1>13
  <2>2. \A k \in 1 .. n : top[k] \in T
    BY <1>13, <2>1
  <2> QED BY <2>1, <2>2 DEF Range
<1> HIDE DEF top
<1>15. x.rows = top /\ (Len(top) >= DrillInRowLimit => x.truncated)
  BY Zenon
<1> HIDE DEF x, cut
<1>16. \A r \in Range(top) : LinkedRight(d, r)
  BY <1>11, <1>14
<1>17. ASSUME NEW item \in AllRows(p), \A r \in Range(top) : r.row # item PROVE x.truncated
  <2> SUFFICES ASSUME n < DrillInRowLimit PROVE FALSE
    BY <1>12, <1>13, <1>15, DashboardAssumption
  <2>1. n = Len(ca) + Len(cb)
    BY <1>10, <1>12
  <2>2. Fits(a) /\ Fits(b)
    <3>1. Len(ca) < DrillInRowLimit /\ Len(cb) < DrillInRowLimit
      BY <1>8, <1>12, <2>1, DashboardAssumption
    <3> QED BY <1>6, <3>1, DashboardAssumption DEF Shown, Fits
  <2>3. CASE item \in Range(a)
    <3>1. PICK k \in DOMAIN ca : ca[k].row = item
      BY <1>7, <2>2, <2>3 DEF AllShown
    <3>2. k \in 1 .. n /\ top[k] = ca[k]
      BY <1>8, <1>10, <1>12, <1>13, <2>1, <3>1
    <3> QED BY <1>14, <1>17, <3>1, <3>2
  <2>4. CASE item \in Range(b)
    <3>1. PICK k \in DOMAIN cb : cb[k].row = item
      BY <1>7, <2>2, <2>4 DEF AllShown
    <3>2. Len(ca) + k \in 1 .. n /\ top[Len(ca) + k] = cb[k]
      BY <1>8, <1>10, <1>12, <1>13, <2>1, <3>1
    <3> QED BY <1>14, <1>17, <3>1, <3>2
  <2> QED BY <1>5, <2>3, <2>4
<1>18. Told(d, s, p, x)
  BY <1>15, <1>16, <1>17 DEF Told
<1> QED BY <1>1, <1>18 DEF Told

LEMMA CloneTold == ASSUME NEW d, NEW p PROVE Told(d, "last_clone", p, CloneRows(p))
<1>1. ASSUME NEW x, x = [rows |-> <<[row |-> p, link |-> Null]>>, truncated |-> FALSE]
      PROVE  Told(d, "last_clone", p, x)
  <2> DEFINE cell == [row |-> p, link |-> Null]
  <2>1. x.rows = <<cell>> /\ cell.link = Null
    BY <1>1
  <2> HIDE DEF cell
  <2>2. Range(x.rows) = {cell}
    BY <2>1 DEF Range
  <2> QED BY <2>1, <2>2 DEF Told, LinkedRight
<1> QED BY <1>1 DEF CloneRows, Told

LEMMA TablesTold == ASSUME NEW d, NEW p PROVE Told(d, "table_growth", p, TableRows(d, p))
<1> DEFINE list == Get(p, "tables")
           n == IF Len(list) > DrillInRowLimit THEN DrillInRowLimit ELSE Len(list)
           link(k) == IF Get(list[k], "count") = Null THEN Null ELSE RecordUrl(d, list[k].table)
           cells == [k \in 1 .. n |-> [row |-> list[k], link |-> link(k)]]
           x == [rows |-> cells, truncated |-> FALSE]
<1>1. TableRows(d, p) = IF list = Null \/ list = <<>> THEN Null ELSE x
  BY DEF TableRows
<1>2. \A k : link(k) # Null => Linked(d)
  BY DEF RecordUrl
<1> HIDE DEF link, n, list
<1>3. \A r \in Range(cells) : LinkedRight(d, r)
  BY <1>2 DEF Range, LinkedRight
<1>4. x.rows = cells
  OBVIOUS
<1> HIDE DEF x, cells
<1>5. Told(d, "table_growth", p, x)
  BY <1>3, <1>4 DEF Told
<1> QED BY <1>1, <1>5 DEF Told

LEMMA NoPayload == ASSUME NEW d, NEW s PROVE DrillRows(d, s, Null) = Null
<1>1. \A key : Get(Null, key) = Null
  BY DEF Get
<1>2. /\ RowsFrom(d, Null, Unlinked) = Null /\ RowsFrom(d, Null, Record) = Null
      /\ RowsFrom(d, Null, RunPage) = Null
  BY <1>1 DEF RowsFrom
<1>3. DriftRows(d, Null) = Null
  BY <1>1, <1>2, DashboardAssumption DEF DriftRows
<1>4. JobRows(d, Null) = Null
  <2>1. Cells(d, <<>>, Record) = <<>>
    <3>1. Shown(d, <<>>, Cells(d, <<>>, Record))
      <4>1. <<>> \in Seq({})
        OBVIOUS
      <4> QED BY <4>1, CellsShown
    <3>2. Len(Cells(d, <<>>, Record)) = 0
      BY <3>1, DashboardAssumption DEF Shown
    <3> DEFINE c == Cells(d, <<>>, Record)
    <3>3. c = [k \in DOMAIN c |-> c[k]]
      BY DEF Cells
    <3> HIDE DEF c
    <3>4. DOMAIN c = 1 .. 0
      BY <3>1, <3>2 DEF Shown, c
    <3>5. c \in Seq({}) /\ Len(c) = 0
      BY <3>3, <3>4
    <3>6. c = <<>>
      BY <3>5
    <3> QED BY <3>6 DEF c
  <2>2. <<>> \o <<>> = <<>>
    OBVIOUS
  <2> QED BY <1>1, <2>1, <2>2 DEF JobRows
<1>5. CloneRows(Null) = Null /\ TableRows(d, Null) = Null
  BY <1>1 DEF CloneRows, TableRows
<1> QED BY <1>2, <1>3, <1>4, <1>5 DEF DrillRows, SyslogRows, OutboundRows, SlowTxnRows, FlowRows, EmailRows,
       UpgradeRows, UpdateSetsRows, ScanRows, SessionRows, ActionsRows, MidRows

LEMMA RowsAreTold ==
  ASSUME NEW d, NEW s, NEW p, p # Null, DrillPayload(s, p)
  PROVE  Told(d, s, p, DrillRows(d, s, p))
<1>1. CASE s = "jobs"
  BY <1>1, JobsTold DEF DrillRows
<1>2. CASE s = "last_clone"
  BY <1>2, CloneTold DEF DrillRows
<1>3. CASE s = "table_growth"
  BY <1>3, TablesTold DEF DrillRows
<1>4. CASE s \notin {"jobs", "last_clone", "table_growth"}
  <2>1. /\ Told(d, s, p, RowsFrom(d, p, Unlinked)) /\ Told(d, s, p, RowsFrom(d, p, Record))
        /\ Told(d, s, p, RowsFrom(d, p, RunPage)) /\ Told(d, s, p, DriftRows(d, p))
    BY <1>4, RowsTold
  <2>2. Told(d, s, p, Null)
    BY DEF Told
  <2>3. \/ DrillRows(d, s, p) = Null
        \/ DrillRows(d, s, p) = RowsFrom(d, p, Unlinked) \/ DrillRows(d, s, p) = RowsFrom(d, p, Record)
        \/ DrillRows(d, s, p) = RowsFrom(d, p, RunPage) \/ DrillRows(d, s, p) = DriftRows(d, p)
    BY <1>4 DEF DrillRows, SyslogRows, OutboundRows, SlowTxnRows, FlowRows, EmailRows,
       UpgradeRows, UpdateSetsRows, ScanRows, SessionRows, ActionsRows, MidRows
  <2> QED BY <2>1, <2>2, <2>3
<1> QED BY <1>1, <1>2, <1>3, <1>4

LEMMA DrillHold ==
  ASSUME DrillWorld(input), result = DrillIn(input.d, input.signal, input.window, input.now)
  PROVE  NothingHiddenUnsaid
<1> DEFINE d == input.d
           s == input.signal
           table == RowsOf(d, d.selected)
           p == table[s].payload
           given == IF s \in DOMAIN table THEN p ELSE Null
           x == DrillRows(d, s, given)
           trend == IF s \in Trending THEN DrillInTrend(d, s, input.window, input.now) ELSE Null
<1>1. result = IF x # Null THEN x ELSE IF trend # Null THEN trend ELSE DrillInText(d, s)
  BY DEF DrillIn
<1>2. s \in DOMAIN table => DrillPayload(s, p)
  BY DEF DrillWorld
<1>3. "rows" \notin DOMAIN DrillInText(d, s)
  BY DEF DrillInText
<1>4. trend # Null => "rows" \notin DOMAIN trend
  BY DEF DrillInTrend
<1> HIDE DEF d, s, trend, table, p, x
<1>5. ASSUME "rows" \in DOMAIN result PROVE Told(d, s, p, result) /\ result # Null
  <2>1. result = x /\ x # Null
    BY <1>1, <1>3, <1>4, <1>5
  <2>2. given # Null
    BY <2>1, NoPayload DEF x
  <2>3. s \in DOMAIN table /\ given = p /\ p # Null
    BY <2>2
  <2>4. Told(d, s, p, x)
    BY <1>2, <2>3, RowsAreTold DEF x
  <2> QED BY <2>1, <2>4
<1> QED BY <1>5 DEF Told, AllRows, LinkedRight, NothingHiddenUnsaid, d, s, table, p

-----------------------------------------------------------------------------
(* One look at a window, at a card or into one, judged once.               *)

Seen(c) == LookWorld(c) \/ CardWorld(c) \/ DrillWorld(c)

SurfacesInit == Seen(input) /\ result = Pending
SurfacesNext == LookAt \/ ReadCard \/ OpenCard
SurfacesSpec == SurfacesInit /\ [][SurfacesNext]_<<input, result>>

Seeing(c) ==
  CASE c.kind = "dashboard" -> Look(c.d, c.now)
    [] c.kind = "card"      -> [summary |-> SummarizeValue(c.signal, c.payload),
                                body    |-> Body(c.signal, c.payload)]
    [] c.kind = "drill"     -> DrillIn(c.d, c.signal, c.window, c.now)

SurfacesInv == Seen(input) /\ (result # Pending => result = Seeing(input))

LEMMA SeenKinds ==
  ASSUME NEW c, Seen(c)
  PROVE  /\ c.kind = "dashboard" => LookWorld(c) /\ Seeing(c) = Look(c.d, c.now)
         /\ c.kind = "card" => /\ CardWorld(c)
                               /\ Seeing(c) = [summary |-> SummarizeValue(c.signal, c.payload),
                                               body    |-> Body(c.signal, c.payload)]
         /\ c.kind = "drill" => DrillWorld(c) /\ Seeing(c) = DrillIn(c.d, c.signal, c.window, c.now)
<1>1. c.kind \in {"dashboard", "card", "drill"}
  BY DEF Seen, LookWorld, CardWorld, DrillWorld
<1>2. /\ c.kind = "dashboard" => LookWorld(c)
      /\ c.kind = "card" => CardWorld(c)
      /\ c.kind = "drill" => DrillWorld(c)
  BY DEF Seen, LookWorld, CardWorld, DrillWorld
<1> QED BY <1>2 DEF Seeing

LEMMA SurfacesHold == SurfacesInv => SurfacesAreHonest
<1> SUFFICES ASSUME SurfacesInv PROVE SurfacesAreHonest
  OBVIOUS
<1>1. CASE result = Pending
  BY <1>1 DEF SurfacesAreHonest, TroubleIsExplained, CausesComeFirst, SurfacesAgree, CopiesAgree,
              StripAgreesWithRows, NoInventedCounts, NothingHiddenUnsaid, Judged
<1>2. CASE result # Pending
  <2>1. Seen(input) /\ result = Seeing(input)
    BY <1>2 DEF SurfacesInv
  <2>2. TroubleIsExplained /\ CausesComeFirst /\ SurfacesAgree /\ CopiesAgree /\ StripAgreesWithRows
    <3>1. CASE input.kind = "dashboard"
      BY <2>1, <3>1, SeenKinds, ExplainedHolds, CausesFirstHold, AgreeHold, CopiesHold, StripHold
    <3>2. CASE input.kind # "dashboard"
      BY <3>2 DEF TroubleIsExplained, CausesComeFirst, SurfacesAgree, CopiesAgree, StripAgreesWithRows, Judged
    <3> QED BY <3>1, <3>2
  <2>3. NoInventedCounts
    <3>1. CASE input.kind = "card"
      BY <2>1, <3>1, SeenKinds, CountsHold
    <3>2. CASE input.kind # "card"
      BY <3>2 DEF NoInventedCounts, Judged
    <3> QED BY <3>1, <3>2
  <2>4. NothingHiddenUnsaid
    <3>1. CASE input.kind = "drill"
      BY <2>1, <3>1, SeenKinds, DrillHold
    <3>2. CASE input.kind # "drill"
      BY <3>2 DEF NothingHiddenUnsaid, Judged
    <3> QED BY <3>1, <3>2
  <2> QED BY <2>2, <2>3, <2>4 DEF SurfacesAreHonest
<1> QED BY <1>1, <1>2

LEMMA SurfacesStep == SurfacesInv /\ [SurfacesNext]_<<input, result>> => SurfacesInv'
<1> SUFFICES ASSUME SurfacesInv, [SurfacesNext]_<<input, result>> PROVE SurfacesInv'
  OBVIOUS
<1>1. CASE LookAt
  <2>1. input' = input /\ input.kind = "dashboard" /\ result' = Look(input.d, input.now)
    BY <1>1 DEF LookAt, Judge
  <2> QED BY <2>1 DEF SurfacesInv, Seeing
<1>2. CASE ReadCard
  <2>1. /\ input' = input /\ input.kind = "card"
        /\ result' = [summary |-> SummarizeValue(input.signal, input.payload),
                      body    |-> Body(input.signal, input.payload)]
    BY <1>2 DEF ReadCard, Judge
  <2> QED BY <2>1 DEF SurfacesInv, Seeing
<1>3. CASE OpenCard
  <2>1. /\ input' = input /\ input.kind = "drill"
        /\ result' = DrillIn(input.d, input.signal, input.window, input.now)
    BY <1>3 DEF OpenCard, Judge
  <2> QED BY <2>1 DEF SurfacesInv, Seeing
<1>4. CASE UNCHANGED <<input, result>>
  BY <1>4 DEF SurfacesInv, Seeing
<1> QED BY <1>1, <1>2, <1>3, <1>4 DEF SurfacesNext

\* Of any dashboard, card and payload the daemon writes: trouble is explained,
\* causes come first, the surfaces, the copies and the strip agree, no count is
\* invented, and no row is left out unsaid (health_explain_for, cards,
\* troubled_count, summary_text, compare_strip, summarize_value, drill_in).
THEOREM HonestSurfaces == SurfacesSpec => []SurfacesAreHonest
<1>1. SurfacesInit => SurfacesInv
  BY DEF SurfacesInit, SurfacesInv
<1>2. SurfacesSpec => []SurfacesInv
  BY <1>1, SurfacesStep, PTL DEF SurfacesSpec
<1> QED BY <1>2, SurfacesHold, PTL
=============================================================================
