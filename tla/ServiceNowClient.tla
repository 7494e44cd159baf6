--------------------------- MODULE ServiceNowClient ---------------------------
(***************************************************************************)
(* One HTTP client and the threads that share it.  A call is authorised    *)
(* from two memos (the credential of an Environment, its OAuth token),     *)
(* passes two semaphores (all requests, those to one host), repeats after  *)
(* a 429, and once more with a fresh authorisation after a 401.            *)
(*                                                                         *)
(* The collector calls with the stored credential; a test of an unsaved    *)
(* Environment may bring one of its own.  The instance accepts one         *)
(* credential, and honours the tokens of some: those it granted and has    *)
(* neither revoked nor let expire.  Whether the client still takes a token *)
(* for valid is independent of that (the lifetime is clamped).             *)
(***************************************************************************)
EXTENDS Naturals, FiniteSets

CONSTANTS
  Callers,        \* threads
  Environments,
  MayCall,        \* caller -> the Environments it calls
  HostOf,         \* Environment -> host of its instance_url
  AuthOf,         \* Environment -> "basic" or "oauth"
  Blobs,          \* credentials
  Given,          \* the credentials a call may bring itself
  NoBlob,         \* none: not stored, not memoised, not brought
  GlobalLimit,    \* 8
  HostLimit,      \* 2
  MaxRetries,     \* MAX_429_RETRIES
  MaxCalls,       \* bound: calls
  MaxChanges      \* bound: rotations, revocations and expiries

Hosts == {HostOf[e] : e \in Environments}

ASSUME ClientAssumption ==
  /\ IsFiniteSet(Callers)
  /\ MayCall \in [Callers -> SUBSET Environments]
  /\ AuthOf \in [Environments -> {"basic", "oauth"}]
  /\ Environments # {} /\ Blobs # {}
  /\ NoBlob \notin Blobs /\ Given \subseteq Blobs
  /\ GlobalLimit \in Nat \ {0} /\ HostLimit \in Nat \ {0}
  /\ MaxRetries \in Nat /\ MaxCalls \in Nat /\ MaxChanges \in Nat

VARIABLES
  stored,     \* Environment -> its credential in the store
  accepts,    \* Environment -> the credential its instance accepts
  honours,    \* Environment -> the credentials whose tokens it honours
  blobs,      \* credential_blobs
  tokens,     \* Environment -> the credential its cached token was granted for, and if it is valid
  call,       \* caller -> its call
  used,       \* permits taken of the global semaphore
  hostUsed,   \* host -> permits taken of its semaphore
  outcome,    \* the caller that has just returned, and with what
  calls,      \* calls so far
  changes     \* changes so far

vars == <<stored, accepts, honours, blobs, tokens, call, used, hostUsed, outcome, calls, changes>>
world == <<stored, accepts, honours, changes>>
permits == <<used, hostUsed>>

NoToken == [blob |-> NoBlob, fresh |-> FALSE]
Steps == {"idle", "authorize", "blob", "store", "memoize", "grant", "global", "host", "flight"}
Results == {"ok", "denied", "refused", "throttled", "error"}
Nobody == <<>>

TypeOK ==
  /\ stored \in [Environments -> Blobs \cup {NoBlob}]
  /\ accepts \in [Environments -> Blobs]
  /\ honours \in [Environments -> SUBSET Blobs]
  /\ blobs \in [Environments -> Blobs \cup {NoBlob}]
  /\ tokens \in [Environments -> [blob : Blobs \cup {NoBlob}, fresh : BOOLEAN]]
  /\ call \in [Callers ->
       [pc : Steps, env : Environments, given : Blobs \cup {NoBlob}, blob : Blobs \cup {NoBlob},
        header : {"none", "basic", "token", "secret"}, refreshed : BOOLEAN,
        retries : 0 .. MaxRetries, sent : Nat, calm : BOOLEAN]]
  /\ outcome \in (Callers \X Results) \cup {Nobody}
  /\ used \in 0 .. GlobalLimit
  /\ hostUsed \in [Hosts -> 0 .. HostLimit]
  /\ calls \in 0 .. MaxCalls /\ changes \in 0 .. MaxChanges

-----------------------------------------------------------------------------
\* calm: nothing changed since before the oldest call this one may have met.
Begin(pc, e, given, calm) ==
  [pc |-> pc, env |-> e, given |-> given, blob |-> NoBlob, header |-> "none",
   refreshed |-> FALSE, retries |-> 0, sent |-> 0, calm |-> calm]

Idle == Begin("idle", CHOOSE e \in Environments : TRUE, NoBlob, TRUE)

\* Any credential will do for the first: none differs from another.
FirstBlob == CHOOSE b \in Blobs : TRUE

Init ==
  /\ stored = [e \in Environments |-> FirstBlob]
  /\ accepts = [e \in Environments |-> FirstBlob]
  /\ honours = [e \in Environments |-> {}]
  /\ blobs = [e \in Environments |-> NoBlob]
  /\ tokens = [e \in Environments |-> NoToken]
  /\ call = [c \in Callers |-> Idle]
  /\ used = 0 /\ hostUsed = [h \in Hosts |-> 0]
  /\ outcome = Nobody /\ calls = 0 /\ changes = 0

At(c, pc) == call[c].pc = pc

\* A caller moves on with some fields of its call changed.
Move(c, new) == call' = [call EXCEPT ![c] = new] /\ outcome' = Nobody

Finish(c, result) == call' = [call EXCEPT ![c] = Idle] /\ outcome' = <<c, result>>

\* Basic has no token to look for.
Entry(e) == IF AuthOf[e] = "oauth" THEN "authorize" ELSE "blob"

Request(c) ==
  /\ At(c, "idle") /\ calls < MaxCalls
  /\ calls' = calls + 1
  /\ \E e \in MayCall[c], b \in Given \cup {NoBlob} :
       Move(c, Begin(Entry(e), e, b, \A d \in Callers : call[d].env = e => call[d].calm))
  /\ UNCHANGED <<world, blobs, tokens, permits>>

CachedToken(e) == tokens[e].fresh

\* A valid token answers at once; without one, the credential is needed.
Authorize(c) ==
  LET k == call[c] IN
  /\ At(c, "authorize")
  /\ IF CachedToken(k.env)
     THEN Move(c, [k EXCEPT !.blob = tokens[k.env].blob, !.header = "token",
                            !.pc = "global", !.retries = 0])
     ELSE Move(c, [k EXCEPT !.pc = "blob"])
  /\ UNCHANGED <<world, blobs, tokens, permits, calls>>

\* With a credential, Basic is authorised and OAuth asks for a token.
WithBlob(k, b) ==
  IF AuthOf[k.env] = "basic"
  THEN [k EXCEPT !.blob = b, !.header = "basic", !.pc = "global", !.retries = 0]
  ELSE [k EXCEPT !.blob = b, !.pc = "grant"]

RecallBlob(c) ==
  LET k == call[c] IN
  /\ At(c, "blob")
  /\ IF blobs[k.env] # NoBlob THEN Move(c, WithBlob(k, blobs[k.env]))
     ELSE Move(c, [k EXCEPT !.pc = "store"])
  /\ UNCHANGED <<world, blobs, tokens, permits, calls>>

\* The store of a test holds what was typed; the other may fail or have none.
ReadStore(c) ==
  LET k == call[c]
      b == IF k.given # NoBlob THEN k.given ELSE stored[k.env]
  IN
  /\ At(c, "store")
  /\ \/ b # NoBlob /\ Move(c, [k EXCEPT !.blob = b, !.pc = "memoize"])
     \/ k.given = NoBlob /\ Finish(c, "error")
  /\ UNCHANGED <<world, blobs, tokens, permits, calls>>

Memoize(c) ==
  LET k == call[c] IN
  /\ At(c, "memoize")
  /\ blobs' = [blobs EXCEPT ![k.env] = k.blob]
  /\ Move(c, WithBlob(k, k.blob))
  /\ UNCHANGED <<world, tokens, permits, calls>>

\* Another caller may have been granted a token meanwhile.
Grant(c) ==
  LET k == call[c] IN
  /\ At(c, "grant")
  /\ IF CachedToken(k.env)
     THEN Move(c, [k EXCEPT !.blob = tokens[k.env].blob, !.header = "token",
                            !.pc = "global", !.retries = 0])
     ELSE Move(c, [k EXCEPT !.header = "secret", !.pc = "global", !.retries = 0])
  /\ UNCHANGED <<world, blobs, tokens, permits, calls>>

-----------------------------------------------------------------------------
(* The transport: a permit of the process, then one of the host.           *)

\* Mutant: a request does not wait for the others.
AcquireGlobalAtOnce(c) ==
  /\ At(c, "global")
  /\ used' = used + 1
  /\ Move(c, [call[c] EXCEPT !.pc = "host"])
  /\ UNCHANGED <<world, blobs, tokens, hostUsed, calls>>

AcquireGlobal(c) ==
  /\ At(c, "global")
  /\ used < GlobalLimit
  /\ used' = used + 1
  /\ Move(c, [call[c] EXCEPT !.pc = "host"])
  /\ UNCHANGED <<world, blobs, tokens, hostUsed, calls>>

\* Mutant: the wait is left as soon as one permit has been returned.
AcquireHostTooMany(c) ==
  LET h == HostOf[call[c].env] IN
  /\ At(c, "host")
  /\ hostUsed[h] <= HostLimit
  /\ hostUsed' = [hostUsed EXCEPT ![h] = IF @ < HostLimit THEN @ + 1 ELSE @]
  /\ Move(c, [call[c] EXCEPT !.pc = "flight", !.sent = @ + 1])
  /\ UNCHANGED <<world, blobs, tokens, used, calls>>

AcquireHost(c) ==
  LET h == HostOf[call[c].env] IN
  /\ At(c, "host")
  /\ hostUsed[h] < HostLimit
  /\ hostUsed' = [hostUsed EXCEPT ![h] = @ + 1]
  /\ Move(c, [call[c] EXCEPT !.pc = "flight", !.sent = @ + 1])
  /\ UNCHANGED <<world, blobs, tokens, used, calls>>

\* Mutant: a transport error leaves with the permits.
ReleaseAfterAnswer(c) == UNCHANGED permits

Release(c) ==
  /\ used' = used - 1
  /\ hostUsed' = [hostUsed EXCEPT ![HostOf[call[c].env]] = @ - 1]

Accepted(k) ==
  IF k.header = "token" THEN k.blob \in honours[k.env] ELSE k.blob = accepts[k.env]

\* Mutant: a 401 drops the memo for the next call but does not count as the one retry.
RefreshAgain(c) ==
  LET k == call[c] IN
  /\ IF AuthOf[k.env] = "oauth"
     THEN tokens' = [tokens EXCEPT ![k.env] = NoToken] /\ UNCHANGED blobs
     ELSE blobs' = [blobs EXCEPT ![k.env] = NoBlob] /\ UNCHANGED tokens
  /\ Move(c, [k EXCEPT !.pc = Entry(k.env), !.refreshed = k.sent > 2])

\* Mutant: the retry after a 401 keeps the credential it was refused with.
RefreshKeeping(c) ==
  LET k == call[c] IN
  /\ tokens' = [tokens EXCEPT ![k.env] = NoToken] /\ UNCHANGED blobs
  /\ Move(c, [k EXCEPT !.pc = Entry(k.env), !.refreshed = TRUE])

\* One 401 drops the token, or for Basic the credential, and starts over.
Refresh(c) ==
  LET k == call[c] IN
  /\ IF AuthOf[k.env] = "oauth"
     THEN tokens' = [tokens EXCEPT ![k.env] = NoToken] /\ UNCHANGED blobs
     ELSE blobs' = [blobs EXCEPT ![k.env] = NoBlob] /\ UNCHANGED tokens
  /\ Move(c, [k EXCEPT !.pc = Entry(k.env), !.refreshed = TRUE])

\* The answer to a request for a token: anything but a grant ends the call.
Granted(c) ==
  LET k == call[c] IN
  IF Accepted(k)
  THEN /\ tokens' = [tokens EXCEPT ![k.env] = [blob |-> k.blob, fresh |-> TRUE]]
       /\ honours' = [honours EXCEPT ![k.env] = @ \cup {k.blob}]
       /\ Move(c, [k EXCEPT !.header = "token", !.pc = "global", !.retries = 0])
       /\ UNCHANGED blobs
  ELSE Finish(c, "refused") /\ UNCHANGED <<tokens, honours, blobs>>

Answered(c) ==
  LET k == call[c] IN
  /\ At(c, "flight")
  /\ Release(c)
  /\ IF k.header = "secret" THEN Granted(c)
     ELSE /\ UNCHANGED honours
          /\ IF Accepted(k) THEN Finish(c, "ok") /\ UNCHANGED <<tokens, blobs>>
             ELSE IF ~k.refreshed THEN Refresh(c)
             ELSE Finish(c, "denied") /\ UNCHANGED <<tokens, blobs>>
  /\ UNCHANGED <<stored, accepts, changes, calls>>

\* A 429 is waited for without a permit; the last one is the answer.
Throttled(c) ==
  LET k == call[c] IN
  /\ At(c, "flight")
  /\ Release(c)
  /\ IF k.retries < MaxRetries
     THEN Move(c, [k EXCEPT !.retries = @ + 1, !.pc = "global"])
     ELSE Finish(c, IF k.header = "secret" THEN "error" ELSE "throttled")
  /\ UNCHANGED <<world, blobs, tokens, calls>>

\* No connection, no answer within the time limit, or a body too long.
TransportFails(c) ==
  /\ At(c, "flight")
  /\ Release(c)
  /\ Finish(c, "error")
  /\ UNCHANGED <<world, blobs, tokens, calls>>

-----------------------------------------------------------------------------
(* The Operator, the instance and time.                                    *)

Change(e) ==
  /\ changes < MaxChanges
  /\ changes' = changes + 1
  /\ call' = [c \in Callers |->
       IF call[c].env = e /\ ~At(c, "idle") THEN [call[c] EXCEPT !.calm = FALSE] ELSE call[c]]
  /\ outcome' = Nobody
  /\ UNCHANGED <<blobs, tokens, permits, calls>>

\* A credential is stored: the one the instance now takes, or another.
RotateStored(e) ==
  /\ Change(e)
  /\ \E b \in Blobs \ {stored[e]} :
       /\ stored' = [stored EXCEPT ![e] = b]
       /\ \E a \in {accepts[e], b} : accepts' = [accepts EXCEPT ![e] = a]
  /\ UNCHANGED honours

RotateInstance(e) ==
  /\ Change(e)
  /\ \E b \in Blobs \ {accepts[e]} : accepts' = [accepts EXCEPT ![e] = b]
  /\ UNCHANGED <<stored, honours>>

RevokeTokens(e) ==
  /\ honours[e] # {}
  /\ Change(e)
  /\ honours' = [honours EXCEPT ![e] = {}]
  /\ UNCHANGED <<stored, accepts>>

\* valid_until passes.
TokenAges(e) ==
  /\ tokens[e].fresh
  /\ tokens' = [tokens EXCEPT ![e].fresh = FALSE]
  /\ outcome' = Nobody
  /\ UNCHANGED <<world, blobs, call, permits, calls>>

Step(c) ==
  \/ Authorize(c) \/ RecallBlob(c) \/ ReadStore(c) \/ Memoize(c) \/ Grant(c)
  \/ AcquireGlobal(c) \/ AcquireHost(c)
  \/ Answered(c) \/ Throttled(c) \/ TransportFails(c)

Next ==
  \/ \E c \in Callers : Request(c) \/ Step(c)
  \/ \E e \in Environments :
       RotateStored(e) \/ RotateInstance(e) \/ RevokeTokens(e) \/ TokenAges(e)

\* Every request has a time limit and every wait a permit that is returned.
Spec == Init /\ [][Next]_vars /\ \A c \in Callers : WF_vars(Step(c))

-----------------------------------------------------------------------------
\* At most GlobalLimit requests are in flight, HostLimit of them to one host,
\* and a permit is held by exactly those who wait for the host or are in
\* flight: no path out of a request keeps one (LimitedTransport::execute).
InFlightBounded ==
  LET flying == {c \in Callers : At(c, "flight")} IN
  /\ Cardinality(flying) <= GlobalLimit
  /\ \A h \in Hosts : Cardinality({c \in flying : HostOf[call[c].env] = h}) <= HostLimit
  /\ used = Cardinality({c \in Callers : At(c, "host") \/ At(c, "flight")})
  /\ \A h \in Hosts : hostUsed[h] = Cardinality({c \in flying : HostOf[call[c].env] = h})

\* A call costs at most two authorisations of at most two requests (the second
\* for OAuth only) of at most 1 + MaxRetries attempts, whatever is answered
\* and rotated meanwhile (request, oauth_access, send).
CostIsBounded ==
  \A c \in Callers :
    call[c].sent <= 2 * (1 + MaxRetries) * (IF AuthOf[call[c].env] = "oauth" THEN 2 ELSE 1)

\* The limits on requests in flight and on what a call may cost hold, and every
\* variable has its type.
LoadIsBounded == TypeOK /\ InFlightBounded /\ CostIsBounded

\* A Basic credential replaced in the store is found without a restart: no call
\* is denied that began after the last change, and after the calls that change
\* met had ended, if the instance accepts what is stored: although the memo may
\* hold what was stored before, and two calls may write it (credential_blobs,
\* request).
RotationIsPickedUp ==
  [][\A c \in Callers :
       LET k == call[c] IN
       outcome' = <<c, "denied">> /\ k.calm /\ k.given = NoBlob /\ AuthOf[k.env] = "basic"
         => stored[k.env] # accepts[k.env]]_vars

\* The same for OAuth, whose token request is refused: servicenow.rs:186-190
\* makes no difference between the two.
OauthRotationIsPickedUp ==
  [][\A c \in Callers :
       LET k == call[c] IN
       outcome' = <<c, "refused">> /\ k.calm /\ k.given = NoBlob
         => stored[k.env] # accepts[k.env]]_vars

\* The credential that was typed is the one a test uses: environments.rs:231-232
\* says it is held in an ephemeral store, and the stored one is used otherwise.
TestsUseWhatWasTyped ==
  [][\A c \in Callers :
       outcome' = <<c, "ok">> /\ call[c].given # NoBlob
         => call[c].blob = call[c].given]_vars

\* Every call returns: no two waits for a permit block each other, and no
\* retry goes on for ever.
CallsEnd == \A c \in Callers : ~At(c, "idle") ~> At(c, "idle")
=============================================================================
