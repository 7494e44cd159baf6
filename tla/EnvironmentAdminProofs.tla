------------------------ MODULE EnvironmentAdminProofs ------------------------
(* Theorems about EnvironmentAdmin: for any ids, URLs, credentials, request  *)
(* threads, operations and failures, a write touches its own entry, a        *)
(* credential without an Environment has a reason, and the settings served   *)
(* are those stored.                                                         *)
EXTENDS EnvironmentAdmin, TLAPS

\* From the reading of the list to the write of the credential a thread of
\* the daemon, or setup, holds its lock; rotate-credential takes none.
NeedsLock(o) ==
  o.step \in {"read", "replace"} \/ (o.step \in {"store", "keep"} /\ o.kind # "rotate")

\* What an operation of its kind carries.
Shape(w, o) ==
  /\ o.kind = "rotate" =>
       w = Command /\ o.step \in {"plan", "probe", "store", "keep"} /\ o.blob # None
  /\ o.kind = "save" => o.url # None
  /\ o.kind = "delete" => o.url = None
  /\ o.kind = "save" /\ o.step \in {"store", "keep"} => o.blob # None

\* What an operation knows of the files is so, unless another process or an
\* editor wrote in between.
Informed(o, entries, known) ==
  ~o.raced =>
    /\ o.step = "replace" => o.seen = entries
    /\ o.step = "keep" => o.keys = known
    /\ o.kind = "save" /\ o.step \in {"store", "keep"} => entries[o.id] # None
    /\ o.kind = "rotate" /\ o.step \in {"probe", "store", "keep"} => entries[o.id] # None

Orderly(w) ==
  op[w] # Idle =>
    /\ Shape(w, op[w]) /\ Informed(op[w], Entries, keys)
    /\ NeedsLock(op[w]) => lock[Process(w)] = w

Served == up /\ ~torn => memory = IF settings \in Settings THEN settings ELSE DefaultSettings

IInv == TypeOK /\ Served /\ \A w \in Workers : Orderly(w)

-----------------------------------------------------------------------------
(* The constants, and the values an operation takes.                       *)

LEMMA IdleIsNoOp == Idle \notin Ops
<1>1. Idle.step = "idle" /\ \A o \in Ops : o.step # "idle"
  BY DEF Idle, Ops, Steps
<1> QED BY <1>1

LEMMA ProcessType ==
  /\ \A w \in Workers : Process(w) \in {"daemon", "command"}
  /\ \A v, w \in Workers : Process(v) = Process(w) /\ v # w => v \in Threads /\ w \in Threads
  /\ \A w \in Threads : w \in Workers /\ w # Command /\ Process(w) = "daemon"
  /\ Command \in Workers /\ Process(Command) = "command"
BY AdminAssumption DEF Workers, Process

LEMMA ListTypes ==
  /\ Nobody \in Lists /\ Nobody \in Keys
  /\ list \in Lists \union {Missing, Malformed} => Entries \in Lists /\ Loaded \in Lists
  /\ \A entries \in Lists, o \in Ops : Applied(o, entries) \in Lists
  /\ \A known \in Keys, o \in Ops : Stored(o, known) \in Keys
BY DEF Nobody, Lists, Keys, Entries, Loaded, Loads, Applied, Stored, Ops

\* A busy worker has an operation.
LEMMA BusyType ==
  ASSUME TypeOK, NEW w \in Workers, op[w] # Idle
  PROVE  op[w] \in Ops
BY DEF TypeOK

LEMMA InitIInv == Init => IInv
<1> SUFFICES ASSUME Init PROVE IInv
  OBVIOUS
<1>1. list \in Lists \union {Missing, Malformed}
  BY AdminAssumption DEF Init
<1>2. keys \in Keys
  <2>1. (CHOOSE b \in Blobs : TRUE) \in Blobs
    BY AdminAssumption
  <2> QED BY <2>1 DEF Init, Keys
<1>3. polled \in Lists
  BY <1>1, ListTypes DEF Init
<1>4. TypeOK
  <2>1. 0 \in 0 .. MaxOps /\ 0 \in 0 .. MaxFaults
    BY AdminAssumption
  <2>2. /\ store \in Stores /\ allow \in BOOLEAN /\ up = TRUE /\ reload = FALSE
        /\ settings = "missing" /\ memory \in Settings /\ torn = FALSE /\ told = None
        /\ ops = 0 /\ faults = 0
    BY AdminAssumption DEF Init
  <2>3. op \in [Workers -> Ops \union {Idle}]
    BY DEF Init
  <2>4. lock \in [{"daemon", "command"} -> Workers \union {None}]
    BY DEF Init
  <2> QED BY <1>1, <1>2, <1>3, <2>1, <2>2, <2>3, <2>4 DEF TypeOK
<1>5. Served /\ \A w \in Workers : Orderly(w)
  BY AdminAssumption DEF Init, Served, Orderly
<1> QED BY <1>4, <1>5 DEF IInv

-----------------------------------------------------------------------------
(* How a step of one worker leaves the others.                             *)

\* Another worker that keeps its operation, and its lock, stays in order
\* while the files stay.
LEMMA Kept ==
  ASSUME NEW v \in Workers, Orderly(v), UNCHANGED <<list, keys>>, op'[v] \in {op[v], Idle},
         lock[Process(v)] = v => lock'[Process(v)] = v
  PROVE  Orderly(v)'
<1>1. CASE op'[v] = Idle
  BY <1>1 DEF Orderly
<1>2. CASE op'[v] = op[v]
  BY <1>2 DEF Orderly, Shape, Informed, NeedsLock, Entries
<1> QED BY <1>1, <1>2

\* A step of one worker that writes no file.
LEMMA Alone ==
  ASSUME IInv, NEW w \in Workers, NEW o \in Ops \union {Idle}, UNCHANGED <<list, keys>>,
         op' = [op EXCEPT ![w] = o],
         \A v \in Workers : v # w /\ lock[Process(v)] = v => lock'[Process(v)] = v,
         o # Idle => Shape(w, o) /\ Informed(o, Entries', keys') /\ (NeedsLock(o) => lock'[Process(w)] = w)
  PROVE  /\ op' \in [Workers -> Ops \union {Idle}]
         /\ \A v \in Workers : Orderly(v)'
<1>1. op \in [Workers -> Ops \union {Idle}]
  BY DEF IInv, TypeOK
<1>2. op' \in [Workers -> Ops \union {Idle}] /\ op'[w] = o
      /\ \A v \in Workers : v # w => op'[v] = op[v]
  BY <1>1
<1>3. Orderly(w)'
  BY <1>2 DEF Orderly, Shape, NeedsLock, Informed
<1>4. ASSUME NEW v \in Workers, v # w PROVE Orderly(v)'
  <2>1. Orderly(v)
    BY DEF IInv
  <2> QED BY <1>2, <1>4, <2>1, Kept
<1> QED BY <1>2, <1>3, <1>4

\* While w may write, no other worker of its process has read.
LEMMA Alternates ==
  ASSUME IInv, NEW w \in Workers, NEW v \in Workers, v # w, op[w] # Idle, op[v] # Idle,
         op[w].step \in {"replace", "store", "keep"}, Process(v) = Process(w)
  PROVE  ~NeedsLock(op[v]) /\ op[v].kind # "rotate"
<1>1. v \in Threads /\ w \in Threads /\ v # Command /\ w # Command
  BY ProcessType
<1>2. Shape(w, op[w]) /\ Shape(v, op[v]) /\ (NeedsLock(op[w]) => lock[Process(w)] = w)
      /\ (NeedsLock(op[v]) => lock[Process(v)] = v)
  BY DEF IInv, Orderly
<1>3. op[w].kind # "rotate" /\ op[v].kind # "rotate"
  BY <1>1, <1>2 DEF Shape
<1>4. lock[Process(w)] = w
  BY <1>2, <1>3 DEF NeedsLock
<1> QED BY <1>2, <1>3, <1>4

\* A write marks the operations of the other process, and in its own process
\* nobody has read what it replaces.
LEMMA Writes ==
  ASSUME IInv, NEW w \in Workers, op[w] # Idle, op[w].step \in {"replace", "store", "keep"},
         NEW o \in Ops \union {Idle}, op' = Raced([op EXCEPT ![w] = o], w),
         \A v \in Workers : v # w /\ lock[Process(v)] = v => lock'[Process(v)] = v,
         o # Idle => Shape(w, o) /\ Informed(o, Entries', keys') /\ (NeedsLock(o) => lock'[Process(w)] = w)
  PROVE  /\ op' \in [Workers -> Ops \union {Idle}]
         /\ \A v \in Workers : Orderly(v)'
         /\ op'[w] = o
<1>1. op \in [Workers -> Ops \union {Idle}]
  BY DEF IInv, TypeOK
<1>2. op'[w] = o
  BY <1>1 DEF Raced
<1>3. ASSUME NEW v \in Workers, v # w
      PROVE  \/ op[v] = Idle /\ op'[v] = Idle
             \/ op[v] \in Ops /\ op[v] # Idle /\ Process(v) = Process(w) /\ op'[v] = op[v]
             \/ /\ op[v] \in Ops /\ op[v] # Idle /\ op'[v] = [op[v] EXCEPT !.raced = TRUE]
                /\ op'[v] \in Ops
  <2>1. op[v] = Idle \/ op[v] \in Ops
    BY <1>1
  <2>2. [op EXCEPT ![w] = o][v] = op[v]
    BY <1>1, <1>3
  <2>3. op'[v] = IF op[v] # Idle /\ Process(v) # Process(w)
                 THEN [op[v] EXCEPT !.raced = TRUE] ELSE op[v]
    <3> DEFINE ops1 == [op EXCEPT ![w] = o]
    <3>1. op'[v] = IF ops1[v] # Idle /\ Process(v) # Process(w)
                   THEN [ops1[v] EXCEPT !.raced = TRUE] ELSE ops1[v]
      BY DEF Raced
    <3>2. ops1[v] = op[v]
      BY <2>2
    <3> HIDE DEF ops1
    <3> QED BY <3>1, <3>2
  <2>4. op[v] \in Ops => [op[v] EXCEPT !.raced = TRUE] \in Ops
    BY DEF Ops
  <2> QED BY <2>1, <2>3, <2>4
<1>4. op' \in [Workers -> Ops \union {Idle}]
  <2>1. \A v \in Workers : op'[v] \in Ops \union {Idle}
    BY <1>2, <1>3
  <2>2. op' = [v \in Workers |-> op'[v]]
    BY DEF Raced
  <2> QED BY <2>1, <2>2
<1>5. Orderly(w)'
  BY <1>2 DEF Orderly, Shape, NeedsLock, Informed
<1>6. ASSUME NEW v \in Workers, v # w PROVE Orderly(v)'
  <2>1. Orderly(v) /\ (lock[Process(v)] = v => lock'[Process(v)] = v)
    BY <1>6 DEF IInv
  <2>2. CASE op'[v] = Idle
    BY <2>2 DEF Orderly
  <2>3. CASE op[v] \in Ops /\ op[v] # Idle /\ Process(v) = Process(w) /\ op'[v] = op[v]
    <3>1. ~NeedsLock(op[v]) /\ op[v].kind # "rotate"
      BY <1>6, <2>3, Alternates
    <3>2. Informed(op[v], Entries', keys')
      BY <2>3, <3>1 DEF Informed, NeedsLock
    <3> QED BY <2>1, <2>3, <3>1, <3>2 DEF Orderly, Shape, Informed, NeedsLock
  <2>4. CASE op[v] \in Ops /\ op[v] # Idle /\ op'[v] = [op[v] EXCEPT !.raced = TRUE]
    <3>1. /\ op'[v].raced = TRUE /\ op'[v].step = op[v].step /\ op'[v].kind = op[v].kind
          /\ op'[v].blob = op[v].blob /\ op'[v].url = op[v].url
      BY <2>4 DEF Ops
    <3> QED BY <2>1, <2>4, <3>1 DEF Orderly, Shape, Informed, NeedsLock
  <2> QED BY <1>3, <1>6, <2>2, <2>3, <2>4
<1> QED BY <1>2, <1>4, <1>5, <1>6

\* A worker that lets go of its lock takes nobody else's.
LEMMA ReleaseRule ==
  ASSUME TypeOK, NEW w \in Workers
  PROVE  /\ Release(w) \in [{"daemon", "command"} -> Workers \union {None}]
         /\ \A v \in Workers : v # w /\ lock[Process(v)] = v => Release(w)[Process(v)] = v
BY ProcessType DEF TypeOK, Release

\* The desktop is told of an entry of the list.
LEMMA ToldType ==
  ASSUME TypeOK, NEW w \in Workers, op[w] \in Ops, Succeed(w), Shape(w, op[w]),
         list' \in Lists \union {Missing, Malformed}
  PROVE  reload' \in BOOLEAN /\ told' \in (Ids \X Urls) \union {None}
<1>1. op[w].id \in Ids /\ op[w].url \in Urls \union {BadUrl, None}
  BY DEF Ops
<1>2. ASSUME op[w].kind = "save", Stands(op[w]) PROVE op[w].url \in Urls
  BY <1>1, <1>2 DEF Stands, Loads, Shape
<1> QED BY <1>1, <1>2 DEF Succeed, TypeOK

\* A step of one worker that writes no file keeps the invariant.
LEMMA QuietStep ==
  ASSUME IInv, NEW w \in Workers, NEW o \in Ops \union {Idle},
         UNCHANGED <<files, daemon, fixed, torn>>, op' = [op EXCEPT ![w] = o],
         lock' \in [{"daemon", "command"} -> Workers \union {None}],
         \A v \in Workers : v # w /\ lock[Process(v)] = v => lock'[Process(v)] = v,
         o # Idle => Shape(w, o) /\ Informed(o, Entries, keys) /\ (NeedsLock(o) => lock'[Process(w)] = w),
         reload' \in BOOLEAN, told' \in (Ids \X Urls) \union {None},
         ops' \in 0 .. MaxOps, faults' \in 0 .. MaxFaults
  PROVE  IInv'
<1>1. /\ UNCHANGED <<list, keys>> /\ settings' = settings /\ up' = up /\ polled' = polled
      /\ memory' = memory /\ store' = store /\ allow' = allow /\ torn' = torn
  BY DEF files, daemon, fixed
<1>2. Informed(o, Entries, keys) => Informed(o, Entries', keys')
  BY <1>1 DEF Informed, Entries
<1>3. op' \in [Workers -> Ops \union {Idle}] /\ \A v \in Workers : Orderly(v)'
  BY <1>1, <1>2, Alone
<1>4. TypeOK' /\ Served'
  BY <1>1, <1>3 DEF IInv, TypeOK, Served
<1> QED BY <1>3, <1>4 DEF IInv

\* An operation that ends without another write.
LEMMA OverStep ==
  ASSUME IInv, NEW w \in Workers, Over(w), UNCHANGED <<files, daemon, fixed, torn>>,
         reload' \in BOOLEAN, told' \in (Ids \X Urls) \union {None},
         ops' \in 0 .. MaxOps, faults' \in 0 .. MaxFaults
  PROVE  IInv'
<1>1. op' = [op EXCEPT ![w] = Idle] /\ lock' = Release(w)
  BY DEF Over, Release
<1>2. /\ lock' \in [{"daemon", "command"} -> Workers \union {None}]
      /\ \A v \in Workers : v # w /\ lock[Process(v)] = v => lock'[Process(v)] = v
  BY <1>1, ReleaseRule DEF IInv
<1> QED BY <1>1, <1>2, QuietStep

\* An operation that goes on, with the lock where it was.
LEMMA GoStep ==
  ASSUME IInv, NEW w \in Workers, NEW o \in Ops, UNCHANGED <<files, daemon, fixed, torn>>,
         op' = [op EXCEPT ![w] = o], UNCHANGED <<lock, reload, told>>,
         Shape(w, o), Informed(o, Entries, keys), NeedsLock(o) => lock[Process(w)] = w,
         ops' \in 0 .. MaxOps, faults' \in 0 .. MaxFaults
  PROVE  IInv'
<1>1. /\ lock' \in [{"daemon", "command"} -> Workers \union {None}]
      /\ reload' \in BOOLEAN /\ told' \in (Ids \X Urls) \union {None}
  BY DEF IInv, TypeOK
<1> QED BY <1>1, QuietStep

-----------------------------------------------------------------------------
(* The operations up to their first write.                                 *)

LEMMA BeginStep ==
  ASSUME IInv, NEW w \in Workers, NEW step \in {"plan", "lock"}, NEW kind \in Kinds, NEW i \in Ids,
         NEW url \in Urls \union {BadUrl, None}, NEW blob \in Blobs \union {None},
         Begin(w, step, kind, i, url, blob),
         kind = "rotate" => w = Command /\ step = "plan" /\ blob # None,
         kind = "save" => url # None, kind = "delete" => url = None
  PROVE  IInv'
<1> DEFINE o == [step |-> step, kind |-> kind, id |-> i, url |-> url, blob |-> blob,
                 seen |-> Nobody, keys |-> Nobody, raced |-> FALSE]
<1>1. o \in Ops
  BY ListTypes DEF Ops, Steps
<1>2. Shape(w, o) /\ Informed(o, Entries, keys) /\ ~NeedsLock(o)
  BY DEF Shape, Informed, NeedsLock
<1>3. /\ op' = [op EXCEPT ![w] = o] /\ ops < MaxOps /\ ops' = ops + 1 /\ faults' = faults
      /\ UNCHANGED <<files, daemon, fixed, torn>> /\ UNCHANGED <<lock, reload, told>>
  BY DEF Begin
<1>4. ops' \in 0 .. MaxOps /\ faults' \in 0 .. MaxFaults
  BY <1>3, AdminAssumption DEF IInv, TypeOK
<1> HIDE DEF o
<1> QED BY <1>1, <1>2, <1>3, <1>4, GoStep

LEMMA RequestStep == ASSUME IInv, NEW w \in Workers, Request(w) PROVE IInv'
<1>1. PICK i \in Ids :
        \/ Begin(w, "lock", "delete", i, None, None)
        \/ \E url \in Urls \union {BadUrl}, blob \in Blobs \union {None} :
             Begin(w, "lock", "save", i, url, blob)
  BY DEF Request
<1>2. CASE Begin(w, "lock", "delete", i, None, None)
  BY <1>2, BeginStep DEF Kinds
<1>3. ASSUME NEW url \in Urls \union {BadUrl}, NEW blob \in Blobs \union {None},
             Begin(w, "lock", "save", i, url, blob)
      PROVE  IInv'
  <2>1. url # None
    BY AdminAssumption
  <2> QED BY <1>3, <2>1, BeginStep DEF Kinds
<1> QED BY <1>1, <1>2, <1>3

LEMMA RunCommandStep == ASSUME IInv, RunCommand PROVE IInv'
<1>1. PICK i \in Ids, blob \in Blobs \union {None} :
        \/ blob # None /\ Begin(Command, "plan", "rotate", i, None, blob)
        \/ \E url \in Urls : Begin(Command, "plan", "save", i, url, blob)
  BY DEF RunCommand
<1>2. Command \in Workers
  BY ProcessType
<1>3. CASE blob # None /\ Begin(Command, "plan", "rotate", i, None, blob)
  BY <1>2, <1>3, BeginStep DEF Kinds
<1>4. ASSUME NEW url \in Urls, Begin(Command, "plan", "save", i, url, blob) PROVE IInv'
  <2>1. url # None
    BY AdminAssumption
  <2> QED BY <1>2, <1>4, <2>1, BeginStep DEF Kinds
<1> QED BY <1>1, <1>3, <1>4

\* What a busy worker's operation is like.
LEMMA AtRule ==
  ASSUME IInv, NEW w \in Workers, NEW step, At(w, step)
  PROVE  /\ op[w] \in Ops /\ op[w] # Idle /\ op[w].step = step
         /\ Shape(w, op[w]) /\ Informed(op[w], Entries, keys)
         /\ NeedsLock(op[w]) => lock[Process(w)] = w
         /\ \A s \in Steps : [op EXCEPT ![w].step = s] = [op EXCEPT ![w] = [op[w] EXCEPT !.step = s]]
BY BusyType DEF IInv, Orderly, At, TypeOK

\* An operation at its next step carries what it carried.
LEMMA Moved ==
  ASSUME NEW o \in Ops, NEW s \in Steps
  PROVE  /\ [o EXCEPT !.step = s] \in Ops
         /\ [o EXCEPT !.step = s].step = s /\ [o EXCEPT !.step = s].kind = o.kind
         /\ [o EXCEPT !.step = s].id = o.id /\ [o EXCEPT !.step = s].url = o.url
         /\ [o EXCEPT !.step = s].blob = o.blob /\ [o EXCEPT !.step = s].raced = o.raced
         /\ [o EXCEPT !.step = s].seen = o.seen /\ [o EXCEPT !.step = s].keys = o.keys
BY DEF Ops

LEMMA BoundsType ==
  ASSUME IInv, UNCHANGED bounds
  PROVE  ops' \in 0 .. MaxOps /\ faults' \in 0 .. MaxFaults
BY DEF IInv, TypeOK, bounds

LEMMA PlanStep == ASSUME IInv, NEW w \in Workers, Plan(w) PROVE IInv'
<1>1. /\ UNCHANGED <<files, daemon, fixed, torn>> /\ UNCHANGED <<reload, told, bounds>>
      /\ reload' \in BOOLEAN /\ told' \in (Ids \X Urls) \union {None}
  BY DEF Plan, IInv, TypeOK
<1>2. CASE Over(w)
  BY <1>1, <1>2, BoundsType, OverStep
<1>3. CASE Go(w, "probe") /\ ~(op[w].kind = "rotate" /\ Loaded[op[w].id] = None)
  <2> DEFINE o == [op[w] EXCEPT !.step = "probe"]
  <2>1. op[w] \in Ops /\ Shape(w, op[w]) /\ "probe" \in Steps
    BY AtRule DEF Plan, Steps
  <2>2. o \in Ops /\ o.step = "probe" /\ o.kind = op[w].kind /\ o.id = op[w].id
        /\ o.url = op[w].url /\ o.blob = op[w].blob
    BY <2>1, Moved
  <2>3. op' = [op EXCEPT ![w] = o] /\ UNCHANGED lock
    BY <1>3, <2>1, AtRule DEF Plan, Go
  <2> HIDE DEF o
  <2>4. Shape(w, o) /\ ~NeedsLock(o)
    BY <2>1, <2>2 DEF Shape, NeedsLock
  <2>5. o.kind = "rotate" => Entries[o.id] # None
    <3>1. op[w].id \in Ids
      BY <2>1 DEF Ops
    <3> QED BY <1>3, <2>2, <3>1 DEF Loaded, Loads, Entries, Nobody
  <2>6. Informed(o, Entries, keys)
    BY <2>2, <2>5 DEF Informed
  <2> QED BY <1>1, <2>2, <2>3, <2>4, <2>6, BoundsType, GoStep
<1> QED BY <1>2, <1>3 DEF Plan

LEMMA ProbeStep == ASSUME IInv, NEW w \in Workers, Probe(w) PROVE IInv'
<1>1. /\ UNCHANGED <<files, daemon, fixed, torn>> /\ UNCHANGED <<reload, told, bounds>>
      /\ reload' \in BOOLEAN /\ told' \in (Ids \X Urls) \union {None}
  BY DEF Probe, IInv, TypeOK
<1>2. CASE Over(w)
  BY <1>1, <1>2, BoundsType, OverStep
<1>3. CASE Go(w, IF op[w].kind = "rotate" THEN "store" ELSE "lock")
  <2> DEFINE s == IF op[w].kind = "rotate" THEN "store" ELSE "lock"
             o == [op[w] EXCEPT !.step = s]
  <2>1. /\ op[w] \in Ops /\ Shape(w, op[w]) /\ Informed(op[w], Entries, keys) /\ op[w].step = "probe"
        /\ s \in Steps
    BY AtRule DEF Probe, Steps
  <2>2. /\ o \in Ops /\ o.step = s /\ o.kind = op[w].kind /\ o.id = op[w].id
        /\ o.url = op[w].url /\ o.blob = op[w].blob /\ o.raced = op[w].raced
    BY <2>1, Moved
  <2>3. op' = [op EXCEPT ![w] = o] /\ UNCHANGED lock
    BY <1>3, <2>1, AtRule DEF Probe, Go
  <2> HIDE DEF o
  <2>4. Shape(w, o) /\ ~NeedsLock(o)
    BY <2>1, <2>2 DEF Shape, NeedsLock
  <2>5. Informed(o, Entries, keys)
    BY <2>1, <2>2 DEF Informed
  <2> QED BY <1>1, <2>2, <2>3, <2>4, <2>5, BoundsType, GoStep
<1> QED BY <1>2, <1>3 DEF Probe

LEMMA AcquireStep == ASSUME IInv, NEW w \in Workers, Acquire(w) PROVE IInv'
<1>1. /\ UNCHANGED <<files, daemon, fixed, torn>> /\ UNCHANGED <<reload, told, bounds>>
      /\ reload' \in BOOLEAN /\ told' \in (Ids \X Urls) \union {None}
  BY DEF Acquire, IInv, TypeOK
<1>2. CASE Over(w)
  BY <1>1, <1>2, BoundsType, OverStep
<1>3. CASE /\ op' = [op EXCEPT ![w].step = "read"]
           /\ lock' = [lock EXCEPT ![Process(w)] = w]
  <2> DEFINE o == [op[w] EXCEPT !.step = "read"]
  <2>1. /\ op[w] \in Ops /\ Shape(w, op[w]) /\ op[w].step = "lock" /\ "read" \in Steps
        /\ lock[Process(w)] = None
    BY AtRule DEF Acquire, Steps
  <2>2. /\ o \in Ops /\ o.step = "read" /\ o.kind = op[w].kind /\ o.id = op[w].id
        /\ o.url = op[w].url /\ o.blob = op[w].blob
    BY <2>1, Moved
  <2>3. op' = [op EXCEPT ![w] = o]
    BY <1>3, <2>1, AtRule DEF Acquire
  <2> HIDE DEF o
  <2>4. Shape(w, o) /\ Informed(o, Entries, keys)
    BY <2>1, <2>2 DEF Shape, Informed
  <2>5. /\ lock' \in [{"daemon", "command"} -> Workers \union {None}] /\ lock'[Process(w)] = w
        /\ \A v \in Workers : v # w /\ lock[Process(v)] = v => lock'[Process(v)] = v
    <3>1. \A v \in Workers : v # None
      BY AdminAssumption
    <3> QED BY <1>3, <2>1, <3>1, ProcessType DEF IInv, TypeOK
  <2> QED BY <1>1, <2>2, <2>3, <2>4, <2>5, BoundsType, QuietStep
<1> QED BY <1>2, <1>3 DEF Acquire

LEMMA ReadStep == ASSUME IInv, NEW w \in Workers, Read(w) PROVE IInv'
<1>1. /\ UNCHANGED <<files, daemon, fixed, torn>> /\ UNCHANGED <<reload, told, bounds>>
      /\ reload' \in BOOLEAN /\ told' \in (Ids \X Urls) \union {None}
  BY DEF Read, IInv, TypeOK
<1>2. CASE Over(w)
  BY <1>1, <1>2, BoundsType, OverStep
<1>3. CASE op' = [op EXCEPT ![w].step = "replace", ![w].seen = Entries] /\ UNCHANGED lock
  <2> DEFINE o == [op[w] EXCEPT !.step = "replace", !.seen = Entries]
  <2>1. /\ op[w] \in Ops /\ Shape(w, op[w]) /\ op[w].step = "read"
        /\ lock[Process(w)] = w
    BY AtRule DEF Read, NeedsLock
  <2>2. Entries \in Lists
    BY ListTypes DEF IInv, TypeOK
  <2>3. /\ o \in Ops /\ o.step = "replace" /\ o.kind = op[w].kind /\ o.url = op[w].url
        /\ o.blob = op[w].blob /\ o.seen = Entries
    BY <2>1, <2>2 DEF Ops, Steps
  <2>4. op' = [op EXCEPT ![w] = o]
    BY <1>3, <2>1 DEF IInv, TypeOK
  <2> HIDE DEF o
  <2>5. Shape(w, o) /\ Informed(o, Entries, keys)
    BY <2>1, <2>3 DEF Shape, Informed
  <2> QED BY <1>1, <1>3, <2>1, <2>3, <2>4, <2>5, BoundsType, GoStep
<1> QED BY <1>2, <1>3 DEF Read

LEMMA ReadStoreStep == ASSUME IInv, NEW w \in Workers, ReadStore(w) PROVE IInv'
<1>1. /\ op[w] \in Ops /\ Shape(w, op[w]) /\ Informed(op[w], Entries, keys) /\ op[w].step = "store"
      /\ NeedsLock(op[w]) => lock[Process(w)] = w
  BY AtRule DEF ReadStore
<1>2. CASE Over(w) /\ UNCHANGED files /\ Succeed(w)
  <2>1. reload' \in BOOLEAN /\ told' \in (Ids \X Urls) \union {None}
    BY <1>1, <1>2, ToldType DEF IInv, TypeOK, files
  <2> QED BY <1>2, <2>1, BoundsType, OverStep DEF ReadStore
<1>3. CASE /\ op' = [op EXCEPT ![w].step = "keep", ![w].keys = keys]
           /\ UNCHANGED <<files, lock, reload, told>>
  <2> DEFINE o == [op[w] EXCEPT !.step = "keep", !.keys = keys]
  <2>1. keys \in Keys
    BY DEF IInv, TypeOK
  <2>2. /\ o \in Ops /\ o.step = "keep" /\ o.kind = op[w].kind /\ o.url = op[w].url
        /\ o.blob = op[w].blob /\ o.keys = keys /\ o.id = op[w].id /\ o.raced = op[w].raced
    BY <1>1, <2>1 DEF Ops, Steps
  <2>3. op' = [op EXCEPT ![w] = o]
    BY <1>1, <1>3 DEF IInv, TypeOK
  <2> HIDE DEF o
  <2>4. Shape(w, o) /\ Informed(o, Entries, keys) /\ (NeedsLock(o) => lock[Process(w)] = w)
    BY <1>1, <2>2 DEF Shape, Informed, NeedsLock
  <2> QED BY <1>3, <2>2, <2>3, <2>4, BoundsType, GoStep DEF ReadStore
<1> QED BY <1>2, <1>3 DEF ReadStore

-----------------------------------------------------------------------------
(* The writes.                                                             *)

\* A step of one worker that replaces a file keeps the invariant.
LEMMA WriteStep ==
  ASSUME IInv, NEW w \in Workers, op[w] # Idle, op[w].step \in {"replace", "store", "keep"},
         NEW o \in Ops \union {Idle}, op' = Raced([op EXCEPT ![w] = o], w),
         lock' \in {lock, Release(w)},
         o # Idle => /\ Shape(w, o) /\ Informed(o, Entries', keys')
                     /\ NeedsLock(o) => lock'[Process(w)] = w,
         list' \in Lists \union {Missing, Malformed}, keys' \in Keys,
         UNCHANGED <<settings, daemon, fixed, torn>>,
         reload' \in BOOLEAN, told' \in (Ids \X Urls) \union {None},
         ops' \in 0 .. MaxOps, faults' \in 0 .. MaxFaults
  PROVE  IInv'
<1>1. /\ lock' \in [{"daemon", "command"} -> Workers \union {None}]
      /\ \A v \in Workers : v # w /\ lock[Process(v)] = v => lock'[Process(v)] = v
  BY ReleaseRule DEF IInv, TypeOK
<1>2. op' \in [Workers -> Ops \union {Idle}] /\ \A v \in Workers : Orderly(v)'
  BY <1>1, Writes
<1>3. TypeOK' /\ Served'
  BY <1>1, <1>2 DEF IInv, TypeOK, Served, daemon, fixed
<1> QED BY <1>2, <1>3 DEF IInv

\* What is written is a list, and has the entry of a save.
LEMMA AppliedRule ==
  ASSUME IInv, NEW w \in Workers, At(w, "replace"), list' = Applied(op[w], op[w].seen)
  PROVE  /\ list' \in Lists /\ Entries' = list' /\ op[w].kind # "rotate"
         /\ op[w].kind = "save" => Entries'[op[w].id] # None
<1>1. op[w] \in Ops /\ Shape(w, op[w]) /\ op[w].step = "replace"
  BY AtRule
<1>2. op[w].seen \in Lists /\ op[w].id \in Ids
  BY <1>1 DEF Ops
<1>3. list' \in Lists /\ list'[op[w].id] = op[w].url
  BY <1>1, <1>2, ListTypes DEF Applied, Lists
<1> QED BY <1>1, <1>3 DEF Entries, Shape

LEMMA ReplaceStep == ASSUME IInv, NEW w \in Workers, Replace(w) PROVE IInv'
<1>1. /\ At(w, "replace") /\ list' = Applied(op[w], op[w].seen)
      /\ UNCHANGED <<keys, settings, daemon, fixed, bounds, torn>>
  BY DEF Replace
<1>2. /\ op[w] \in Ops /\ op[w] # Idle /\ Shape(w, op[w]) /\ op[w].step = "replace"
      /\ lock[Process(w)] = w
  BY <1>1, AtRule DEF NeedsLock
<1>3. /\ list' \in Lists /\ op[w].kind # "rotate"
      /\ op[w].kind = "save" => Entries'[op[w].id] # None
  BY <1>1, AppliedRule
<1>4. keys' \in Keys /\ ops' \in 0 .. MaxOps /\ faults' \in 0 .. MaxFaults
  BY <1>1, BoundsType DEF IInv, TypeOK
<1>5. CASE op[w].kind = "save" /\ op[w].blob = None
  <2>1. /\ op' = Raced([op EXCEPT ![w] = Idle], w) /\ lock' = Release(w) /\ Succeed(w)
    BY <1>5 DEF Replace
  <2>2. reload' \in BOOLEAN /\ told' \in (Ids \X Urls) \union {None}
    BY <1>2, <1>3, <2>1, ToldType DEF IInv
  <2> QED BY <1>1, <1>2, <1>3, <1>4, <2>1, <2>2, WriteStep
<1>6. CASE ~(op[w].kind = "save" /\ op[w].blob = None)
  <2> DEFINE o == [op[w] EXCEPT !.step = "store"]
  <2>1. /\ [op EXCEPT ![w].step = "store"] = [op EXCEPT ![w] = o]
        /\ op' = Raced([op EXCEPT ![w].step = "store"], w) /\ UNCHANGED <<lock, reload, told>>
    BY <1>1, <1>6, AtRule DEF Replace, Steps
  <2>2. /\ o \in Ops /\ o.step = "store" /\ o.kind = op[w].kind /\ o.id = op[w].id
        /\ o.url = op[w].url /\ o.blob = op[w].blob
    BY <1>2, Moved DEF Steps
  <2> HIDE DEF o
  <2>3. Shape(w, o) /\ Informed(o, Entries', keys')
    BY <1>2, <1>3, <1>6, <2>2 DEF Shape, Informed
  <2>4. /\ op' = Raced([op EXCEPT ![w] = o], w)
        /\ reload' \in BOOLEAN /\ told' \in (Ids \X Urls) \union {None}
        /\ lock' = lock /\ lock'[Process(w)] = w
    BY <1>2, <2>1 DEF IInv, TypeOK
  <2> QED BY <1>1, <1>2, <1>3, <1>4, <2>2, <2>3, <2>4, WriteStep
<1> QED BY <1>5, <1>6

LEMMA FaultType ==
  ASSUME IInv, Fault, UNCHANGED ops
  PROVE  ops' \in 0 .. MaxOps /\ faults' \in 0 .. MaxFaults /\ faults' > faults
BY AdminAssumption DEF IInv, TypeOK, Fault

LEMMA ReplaceFailsStep == ASSUME IInv, NEW w \in Workers, ReplaceFails(w) PROVE IInv'
<1>1. /\ At(w, "replace") /\ lock' = Release(w) /\ Fault
      /\ UNCHANGED <<keys, settings, daemon, fixed, reload, ops, torn, told>>
  BY DEF ReplaceFails
<1>2. op[w] # Idle /\ op[w].step = "replace"
  BY <1>1, AtRule
<1>3. /\ reload' \in BOOLEAN /\ told' \in (Ids \X Urls) \union {None} /\ keys' \in Keys
      /\ ops' \in 0 .. MaxOps /\ faults' \in 0 .. MaxFaults
  BY <1>1, FaultType DEF IInv, TypeOK
<1>4. CASE UNCHANGED list /\ op' = [op EXCEPT ![w] = Idle]
  BY <1>1, <1>3, <1>4, OverStep DEF Over, Release, files
<1>5. CASE list' = Applied(op[w], op[w].seen) /\ op' = Raced([op EXCEPT ![w] = Idle], w)
  <2>1. list' \in Lists
    BY <1>1, <1>5, AppliedRule
  <2> QED BY <1>1, <1>2, <1>3, <1>5, <2>1, WriteStep
<1> QED BY <1>4, <1>5 DEF ReplaceFails

LEMMA KeychainStep == ASSUME IInv, NEW w \in Workers, Keychain(w) PROVE IInv'
<1>1. /\ At(w, "store") /\ keys' = Stored(op[w], keys) /\ Succeed(w)
      /\ op' = Raced([op EXCEPT ![w] = Idle], w) /\ lock' = Release(w)
      /\ UNCHANGED <<list, settings, daemon, fixed, bounds, torn>>
  BY DEF Keychain
<1>2. op[w] \in Ops /\ op[w] # Idle /\ Shape(w, op[w]) /\ op[w].step = "store"
  BY <1>1, AtRule
<1>3. keys' \in Keys /\ list' \in Lists \union {Missing, Malformed}
      /\ ops' \in 0 .. MaxOps /\ faults' \in 0 .. MaxFaults
  BY <1>1, <1>2, ListTypes, BoundsType DEF IInv, TypeOK
<1>4. reload' \in BOOLEAN /\ told' \in (Ids \X Urls) \union {None}
  BY <1>1, <1>2, <1>3, ToldType DEF IInv
<1> QED BY <1>1, <1>2, <1>3, <1>4, WriteStep

LEMMA KeepStep == ASSUME IInv, NEW w \in Workers, Keep(w) PROVE IInv'
<1>1. /\ At(w, "keep") /\ keys' = Stored(op[w], op[w].keys) /\ Succeed(w)
      /\ op' = Raced([op EXCEPT ![w] = Idle], w) /\ lock' = Release(w)
      /\ UNCHANGED <<list, settings, daemon, fixed, bounds, torn>>
  BY DEF Keep
<1>2. op[w] \in Ops /\ op[w] # Idle /\ Shape(w, op[w]) /\ op[w].step = "keep"
  BY <1>1, AtRule
<1>3. keys' \in Keys /\ list' \in Lists \union {Missing, Malformed}
      /\ ops' \in 0 .. MaxOps /\ faults' \in 0 .. MaxFaults
  <2>1. op[w].keys \in Keys
    BY <1>2 DEF Ops
  <2> QED BY <1>1, <1>2, <2>1, ListTypes, BoundsType DEF IInv, TypeOK
<1>4. reload' \in BOOLEAN /\ told' \in (Ids \X Urls) \union {None}
  BY <1>1, <1>2, <1>3, ToldType DEF IInv
<1> QED BY <1>1, <1>2, <1>3, <1>4, WriteStep

LEMMA StoreFailsStep == ASSUME IInv, NEW w \in Workers, StoreFails(w) PROVE IInv'
<1>1. /\ At(w, "store") \/ At(w, "keep")
      /\ lock' = Release(w) /\ Fault
      /\ UNCHANGED <<list, settings, daemon, fixed, reload, ops, torn, told>>
  BY DEF StoreFails
<1>2. op[w] \in Ops /\ op[w] # Idle /\ op[w].step \in {"store", "keep"}
  BY <1>1, AtRule
<1>3. /\ reload' \in BOOLEAN /\ told' \in (Ids \X Urls) \union {None}
      /\ list' \in Lists \union {Missing, Malformed}
      /\ ops' \in 0 .. MaxOps /\ faults' \in 0 .. MaxFaults
  BY <1>1, FaultType DEF IInv, TypeOK
<1>4. CASE UNCHANGED keys /\ op' = [op EXCEPT ![w] = Idle]
  BY <1>1, <1>3, <1>4, OverStep DEF Over, Release, files
<1>5. CASE keys' = Stored(op[w], op[w].keys) /\ op' = Raced([op EXCEPT ![w] = Idle], w)
  <2>1. keys' \in Keys
    BY <1>2, <1>5, ListTypes DEF Ops
  <2> QED BY <1>1, <1>2, <1>3, <1>5, <2>1, WriteStep
<1> QED BY <1>4, <1>5 DEF StoreFails

-----------------------------------------------------------------------------
(* The settings, the processes and the editor.                             *)

LEMMA UpdateSettingsStep == ASSUME IInv, NEW s \in Settings, UpdateSettings(s) PROVE IInv'
<1>1. /\ ops < MaxOps /\ ops' = ops + 1
      /\ UNCHANGED <<list, keys, up, polled, fixed, op, lock, reload, told>>
      /\ \/ settings' = s /\ memory' = s /\ torn' = FALSE /\ faults' = faults
         \/ Fault /\ memory' = memory /\ settings' = settings /\ torn' = torn
         \/ Fault /\ memory' = memory /\ settings' = s /\ torn' = TRUE
  BY DEF UpdateSettings
<1>2. ops' \in 0 .. MaxOps /\ faults' \in 0 .. MaxFaults
  BY <1>1, AdminAssumption DEF IInv, TypeOK, Fault
<1>3. TypeOK'
  BY <1>1, <1>2 DEF IInv, TypeOK, fixed
<1>4. Served'
  BY <1>1 DEF IInv, Served
<1>5. \A v \in Workers : Orderly(v)'
  BY <1>1, Kept DEF IInv
<1> QED BY <1>3, <1>4, <1>5 DEF IInv

\* The workers of a process that stops are idle, the others go on.
LEMMA AbandonRule ==
  ASSUME IInv, NEW p \in {"daemon", "command"}, Abandon(p), UNCHANGED <<list, keys>>
  PROVE  /\ op' \in [Workers -> Ops \union {Idle}]
         /\ lock' \in [{"daemon", "command"} -> Workers \union {None}]
         /\ \A v \in Workers : Orderly(v)'
<1>1. /\ op' \in [Workers -> Ops \union {Idle}]
      /\ lock' \in [{"daemon", "command"} -> Workers \union {None}]
  BY DEF Abandon, IInv, TypeOK
<1>2. ASSUME NEW v \in Workers PROVE Orderly(v)'
  <2>1. CASE Process(v) = p
    BY <2>1 DEF Abandon, Orderly
  <2>2. CASE Process(v) # p
    <3>1. op'[v] = op[v] /\ lock'[Process(v)] = lock[Process(v)]
      BY <2>2, ProcessType DEF Abandon, IInv, TypeOK
    <3> QED BY <3>1, Kept DEF IInv
  <2> QED BY <2>1, <2>2
<1> QED BY <1>1, <1>2

LEMMA CrashStep == ASSUME IInv, NEW p \in {"daemon", "command"}, Crash(p) PROVE IInv'
<1>1. /\ Fault /\ Abandon(p) /\ up' = (up /\ p # "daemon")
      /\ UNCHANGED <<files, polled, memory, fixed, reload, ops, torn, told>>
  BY DEF Crash
<1>2. /\ op' \in [Workers -> Ops \union {Idle}]
      /\ lock' \in [{"daemon", "command"} -> Workers \union {None}]
      /\ \A v \in Workers : Orderly(v)'
  BY <1>1, AbandonRule DEF files
<1>3. ops' \in 0 .. MaxOps /\ faults' \in 0 .. MaxFaults /\ up' \in BOOLEAN /\ (up' => up)
  BY <1>1, FaultType DEF IInv, TypeOK
<1>4. TypeOK' /\ Served'
  BY <1>1, <1>2, <1>3 DEF IInv, TypeOK, Served, fixed, files
<1> QED BY <1>2, <1>4 DEF IInv

LEMMA ReloadStep == ASSUME IInv, Reload PROVE IInv'
<1>1. /\ Abandon("daemon") /\ up' = FALSE /\ reload' = FALSE
      /\ UNCHANGED <<files, polled, memory, fixed, bounds, torn, told>>
  BY DEF Reload
<1>2. /\ op' \in [Workers -> Ops \union {Idle}]
      /\ lock' \in [{"daemon", "command"} -> Workers \union {None}]
      /\ \A v \in Workers : Orderly(v)'
  BY <1>1, AbandonRule DEF files
<1>3. TypeOK' /\ Served'
  BY <1>1, <1>2, BoundsType DEF IInv, TypeOK, Served, fixed, files
<1> QED BY <1>2, <1>3 DEF IInv

LEMMA StartStep == ASSUME IInv, Start PROVE IInv'
<1>1. /\ up' = TRUE /\ polled' = Loaded /\ torn' = FALSE
      /\ settings' = IF settings = "malformed" THEN DefaultSettings ELSE settings
      /\ memory' = IF settings \in Settings THEN settings ELSE DefaultSettings
      /\ UNCHANGED <<list, keys, fixed, op, lock, reload, bounds, told>>
  BY DEF Start
<1>2. polled' \in Lists
  BY <1>1, ListTypes DEF IInv, TypeOK
<1>3. /\ settings' \in Settings \union {"missing", "malformed"} /\ memory' \in Settings
      /\ memory' = IF settings' \in Settings THEN settings' ELSE DefaultSettings
  BY <1>1, AdminAssumption DEF IInv, TypeOK
<1>4. TypeOK' /\ Served'
  BY <1>1, <1>2, <1>3, BoundsType DEF IInv, TypeOK, Served, fixed
<1>5. \A v \in Workers : Orderly(v)'
  BY <1>1, Kept DEF IInv
<1> QED BY <1>4, <1>5 DEF IInv

\* Whoever was at work knows nothing for sure any more.
LEMMA AllRaced ==
  ASSUME IInv, UNCHANGED lock,
         op' = [w \in Workers |-> IF op[w] = Idle THEN Idle ELSE [op[w] EXCEPT !.raced = TRUE]]
  PROVE  op' \in [Workers -> Ops \union {Idle}] /\ \A v \in Workers : Orderly(v)'
<1>1. ASSUME NEW v \in Workers
      PROVE  op'[v] \in Ops \union {Idle} /\ Orderly(v)'
  <2>1. CASE op[v] = Idle
    BY <2>1 DEF Orderly
  <2>2. CASE op[v] # Idle
    <3>1. op[v] \in Ops /\ op'[v] = [op[v] EXCEPT !.raced = TRUE]
      BY <2>2, BusyType DEF IInv
    <3>2. /\ op'[v] \in Ops /\ op'[v].raced = TRUE
          /\ op'[v].step = op[v].step /\ op'[v].kind = op[v].kind
          /\ op'[v].blob = op[v].blob /\ op'[v].url = op[v].url
      BY <3>1 DEF Ops
    <3> QED BY <2>2, <3>2 DEF IInv, Orderly, Shape, Informed, NeedsLock
  <2> QED BY <2>1, <2>2
<1> QED BY <1>1

LEMMA HandEditStep == ASSUME IInv, HandEdit PROVE IInv'
<1>1. /\ Fault /\ UNCHANGED <<keys, daemon, fixed, lock, reload, ops>>
      /\ op' = [w \in Workers |-> IF op[w] = Idle THEN Idle ELSE [op[w] EXCEPT !.raced = TRUE]]
      /\ told' = IF list' = list THEN told ELSE None
      /\ \/ list' \in {Missing, Malformed} /\ UNCHANGED <<settings, torn>>
         \/ /\ list \in Lists /\ UNCHANGED <<settings, torn>>
            /\ \E i \in Ids, url \in {BadUrl, None} : list' = [list EXCEPT ![i] = url]
         \/ settings' \in {"missing", "malformed"} /\ torn' = TRUE /\ UNCHANGED list
  BY DEF HandEdit
<1>2. op' \in [Workers -> Ops \union {Idle}] /\ \A v \in Workers : Orderly(v)'
  BY <1>1, AllRaced
<1>3. list' \in Lists \union {Missing, Malformed}
  BY <1>1 DEF IInv, TypeOK, Lists
<1>4. ops' \in 0 .. MaxOps /\ faults' \in 0 .. MaxFaults
  BY <1>1, FaultType
<1>5. TypeOK'
  <2>1. /\ told' \in (Ids \X Urls) \union {None} /\ torn' \in BOOLEAN
        /\ settings' \in Settings \union {"missing", "malformed"}
    BY <1>1 DEF IInv, TypeOK
  <2> QED BY <1>1, <1>2, <1>3, <1>4, <2>1 DEF IInv, TypeOK, daemon, fixed
<1>6. Served'
  <2>1. (UNCHANGED <<settings, torn>>) \/ torn' = TRUE
    BY <1>1
  <2> QED BY <1>1, <2>1 DEF IInv, Served, daemon
<1> QED BY <1>2, <1>5, <1>6 DEF IInv

LEMMA RepairStep == ASSUME IInv, Repair PROVE IInv'
<1>1. /\ Fault /\ list = Missing /\ list' = Nobody /\ op' = Raced(op, Command)
      /\ UNCHANGED <<keys, settings, daemon, fixed, lock, reload, ops, torn, told>>
  BY DEF Repair
<1>2. Entries' = Entries /\ list' \in Lists
  BY <1>1, AdminAssumption, ListTypes DEF Entries
<1>3. ASSUME NEW v \in Workers
      PROVE  op'[v] \in Ops \union {Idle} /\ Orderly(v)'
  <2>1. op'[v] = IF op[v] # Idle /\ Process(v) # Process(Command)
                 THEN [op[v] EXCEPT !.raced = TRUE] ELSE op[v]
    BY <1>1 DEF Raced
  <2>2. Orderly(v) /\ op[v] \in Ops \union {Idle}
    BY DEF IInv, TypeOK
  <2>3. CASE op'[v] = op[v]
    BY <1>1, <1>2, <2>2, <2>3 DEF Orderly, Shape, Informed, NeedsLock
  <2>4. CASE op[v] # Idle /\ op'[v] = [op[v] EXCEPT !.raced = TRUE]
    <3>1. /\ op'[v] \in Ops /\ op'[v].raced = TRUE
          /\ op'[v].step = op[v].step /\ op'[v].kind = op[v].kind
          /\ op'[v].blob = op[v].blob /\ op'[v].url = op[v].url
      BY <2>2, <2>4 DEF Ops
    <3> QED BY <1>1, <2>2, <2>4, <3>1 DEF Orderly, Shape, Informed, NeedsLock
  <2> QED BY <2>1, <2>3, <2>4
<1>4. op' \in [Workers -> Ops \union {Idle}]
  BY <1>1, <1>3 DEF Raced
<1>5. TypeOK' /\ Served'
  BY <1>1, <1>2, <1>4, FaultType DEF IInv, TypeOK, Served, daemon, fixed
<1> QED BY <1>3, <1>5 DEF IInv

-----------------------------------------------------------------------------
LEMMA Stutter == ASSUME IInv, UNCHANGED vars PROVE IInv'
<1>1. /\ UNCHANGED <<list, keys, settings, up, polled, memory, store, allow, op, lock, reload>>
      /\ UNCHANGED <<ops, faults, torn, told>>
  BY DEF vars, files, daemon, fixed, bounds
<1>2. TypeOK' /\ Served'
  BY <1>1 DEF IInv, TypeOK, Served
<1>3. \A v \in Workers : Orderly(v)'
  BY <1>1, Kept DEF IInv
<1> QED BY <1>2, <1>3 DEF IInv

LEMMA Invariance == IInv /\ [Next]_vars => IInv'
<1> SUFFICES ASSUME IInv, [Next]_vars PROVE IInv'
  OBVIOUS
<1>1. ASSUME NEW w \in Workers, Work(w) PROVE IInv'
  BY <1>1, PlanStep, ProbeStep, AcquireStep, ReadStep, ReplaceStep, ReadStoreStep, KeychainStep,
     KeepStep DEF Work
<1>2. ASSUME NEW w \in Workers, Request(w) \/ ReplaceFails(w) \/ StoreFails(w) PROVE IInv'
  BY <1>2, RequestStep, ReplaceFailsStep, StoreFailsStep
<1>3. CASE RunCommand
  BY <1>3, RunCommandStep
<1>4. CASE \E s \in Settings : UpdateSettings(s)
  BY <1>4, UpdateSettingsStep
<1>5. CASE \E p \in {"daemon", "command"} : Crash(p)
  BY <1>5, CrashStep
<1>6. CASE Reload \/ Start \/ HandEdit \/ Repair
  BY <1>6, ReloadStep, StartStep, HandEditStep, RepairStep
<1>7. CASE UNCHANGED vars
  BY <1>7, Stutter
<1> QED BY <1>1, <1>2, <1>3, <1>4, <1>5, <1>6, <1>7 DEF Next

THEOREM Inductive == Spec => []IInv
BY InitIInv, Invariance, PTL DEF Spec

\* Whatever fails and whoever edits a file, the settings a running daemon
\* serves are those a restart would read, unless a write failed after its
\* rename (settings_backend.rs).
THEOREM ServesTheStored == Spec => []ServedIsStored
<1>1. IInv => ServedIsStored
  BY DEF IInv, Served, ServedIsStored
<1> QED BY <1>1, Inductive, PTL

-----------------------------------------------------------------------------
(* What a step does to the files.                                          *)

\* The step of another worker does not move an operation on.
LEMMA OthersStay ==
  ASSUME IInv, NEW v \in Workers, NEW w \in Workers, v # w, op[w] # Idle,
         Request(v) \/ Work(v) \/ ReplaceFails(v) \/ StoreFails(v)
  PROVE  /\ op'[w] # Idle /\ op'[w].step = op[w].step
         /\ op'[w].id = op[w].id /\ op'[w].kind = op[w].kind
<1>1. op[w] \in Ops /\ op \in [Workers -> Ops \union {Idle}]
  BY BusyType DEF IInv, TypeOK
<1>2. \/ op'[w] = op[w]
      \/ \E o \in Ops \union {Idle} : op' = Raced([op EXCEPT ![v] = o], v)
  <2>1. CASE Request(v)
    BY <1>1, <2>1 DEF Request, Begin
  <2>2. CASE Plan(v) \/ Probe(v) \/ Acquire(v) \/ Read(v) \/ ReadStore(v)
    BY <1>1, <2>2 DEF Plan, Probe, Acquire, Read, ReadStore, Over, Go
  <2>3. CASE Replace(v)
    <3>1. op[v] \in Ops /\ [op EXCEPT ![v].step = "store"] = [op EXCEPT ![v] = [op[v] EXCEPT !.step = "store"]]
      BY <2>3, AtRule DEF Replace, Steps
    <3>2. [op[v] EXCEPT !.step = "store"] \in Ops
      BY <3>1, Moved DEF Steps
    <3> QED BY <2>3, <3>1, <3>2 DEF Replace
  <2>4. CASE Keychain(v) \/ Keep(v)
    BY <2>4 DEF Keychain, Keep
  <2>5. CASE ReplaceFails(v) \/ StoreFails(v)
    BY <1>1, <2>5 DEF ReplaceFails, StoreFails
  <2> QED BY <2>1, <2>2, <2>3, <2>4, <2>5 DEF Work
<1>3. ASSUME NEW o \in Ops \union {Idle}, op' = Raced([op EXCEPT ![v] = o], v)
      PROVE  op'[w] \in {op[w], [op[w] EXCEPT !.raced = TRUE]}
  <2> DEFINE ops1 == [op EXCEPT ![v] = o]
  <2>1. op'[w] \in {ops1[w], [ops1[w] EXCEPT !.raced = TRUE]}
    BY <1>3 DEF Raced
  <2>2. ops1[w] = op[w]
    BY <1>1
  <2> HIDE DEF ops1
  <2> QED BY <2>1, <2>2
<1>4. op'[w] \in {op[w], [op[w] EXCEPT !.raced = TRUE]}
  BY <1>2, <1>3
<1>5. /\ [op[w] EXCEPT !.raced = TRUE] \in Ops
      /\ [op[w] EXCEPT !.raced = TRUE].step = op[w].step
      /\ [op[w] EXCEPT !.raced = TRUE].id = op[w].id
      /\ [op[w] EXCEPT !.raced = TRUE].kind = op[w].kind
  BY <1>1 DEF Ops
<1> QED BY <1>4, <1>5, IdleIsNoOp, <1>1

\* For any number of threads, Environments and failures: a write of the list
\* or of the credentials changes the entry it is about and no other, unless
\* another process or an editor wrote meanwhile (ENV_FILE_OP_LOCK).
THEOREM OneEntryAtATime == Spec => WritesTouchOneEntry
<1> DEFINE Touches(w) ==
       LET o == op[w] IN
       \/ o.raced
       \/ op'[w] # Idle /\ op'[w].step = o.step
       \/ /\ list' \in {list, Applied(o, Entries)}
          /\ keys' \in {keys, Stored(o, keys)}
<1>1. ASSUME IInv, Next, NEW w \in Workers, At(w, "replace") \/ At(w, "keep")
      PROVE  Touches(w)
  <2>1. /\ op[w] \in Ops /\ op[w] # Idle /\ Informed(op[w], Entries, keys)
        /\ op[w].step \in {"replace", "keep"}
    BY <1>1, AtRule
  <2>2. CASE op[w].raced
    BY <2>2
  <2>3. CASE op'[w] # Idle /\ op'[w].step = op[w].step
    BY <2>3
  <2>4. CASE ~op[w].raced /\ ~(op'[w] # Idle /\ op'[w].step = op[w].step)
    <3>1. /\ op[w].step = "replace" => op[w].seen = Entries
          /\ op[w].step = "keep" => op[w].keys = keys
      BY <2>1, <2>4 DEF Informed
    <3>2. CASE \E v \in Workers : Request(v) \/ Work(v) \/ ReplaceFails(v) \/ StoreFails(v)
      <4>1. Request(w) \/ Work(w) \/ ReplaceFails(w) \/ StoreFails(w)
        BY <1>1, <2>1, <2>4, <3>2, OthersStay
      <4>2. Replace(w) \/ Keep(w) \/ ReplaceFails(w) \/ StoreFails(w)
        BY <2>1, <4>1 DEF Request, Begin, Work, Plan, Probe, Acquire, Read, ReadStore, Keychain, At
      <4>3. /\ list' \in {list, Applied(op[w], Entries)}
            /\ keys' \in {keys, Stored(op[w], keys)}
        BY <2>1, <3>1, <4>2 DEF Replace, Keep, ReplaceFails, StoreFails, At
      <4> QED BY <4>3
    <3>3. CASE RunCommand
      <4>1. op'[w] = op[w]
        BY <2>1, <3>3, <1>1 DEF RunCommand, Begin, IInv, TypeOK
      <4> QED BY <2>1, <2>4, <4>1
    <3>4. CASE \E s \in Settings : UpdateSettings(s)
      BY <3>4 DEF UpdateSettings
    <3>5. CASE \E p \in {"daemon", "command"} : Crash(p)
      BY <3>5 DEF Crash, files
    <3>6. CASE Reload \/ Start
      BY <3>6 DEF Reload, Start, files
    <3>7. CASE HandEdit
      <4>1. op'[w] = [op[w] EXCEPT !.raced = TRUE]
        BY <2>1, <3>7 DEF HandEdit
      <4>2. op'[w] \in Ops /\ op'[w].step = op[w].step
        BY <2>1, <4>1 DEF Ops
      <4> QED BY <2>4, <4>2, IdleIsNoOp
    <3>8. CASE Repair
      <4>1. op'[w] \in {op[w], [op[w] EXCEPT !.raced = TRUE]}
        BY <3>8 DEF Repair, Raced
      <4>2. op'[w] \in Ops /\ op'[w].step = op[w].step
        BY <2>1, <4>1 DEF Ops
      <4> QED BY <2>4, <4>2, IdleIsNoOp
    <3> QED BY <1>1, <3>2, <3>3, <3>4, <3>5, <3>6, <3>7, <3>8 DEF Next
  <2> QED BY <2>2, <2>3, <2>4
<1>2. IInv /\ [Next]_vars =>
        [\A w \in Workers : At(w, "replace") \/ At(w, "keep") => Touches(w)]_vars
  BY <1>1
<1> QED BY <1>2, Inductive, PTL DEF Spec, WritesTouchOneEntry

-----------------------------------------------------------------------------
(* Credentials without an Environment.                                     *)

\* Worker w is about to take the credential of i away.
Takes(w, i) ==
  op[w] # Idle /\ op[w].id = i /\ op[w].kind = "delete" /\ op[w].step \in {"store", "keep"}

LEMMA OrphanRule ==
  \A i \in Ids :
    /\ Orphan(i) <=> keys[i] # None /\ Entries[i] = None /\ \A w \in Workers : ~Takes(w, i)
    /\ Orphan(i)' <=> keys'[i] # None /\ Entries'[i] = None /\ \A w \in Workers : ~Takes(w, i)'
BY DEF Orphan, Takes

\* Of the steps of a worker, only those of one that was raced leave an orphan.
LEMMA NoNewOrphan ==
  ASSUME IInv, NEW i \in Ids, NEW w \in Workers, Request(w) \/ Work(w),
         ~Orphan(i), Orphan(i)', op[w] # Idle /\ op[w].raced => op'[w] = op[w]
  PROVE  FALSE
<1>1. keys'[i] # None /\ Entries'[i] = None /\ \A v \in Workers : ~Takes(v, i)'
  BY OrphanRule
<1>2. \A v \in Workers : v # w => ~Takes(v, i)
  BY <1>1, OthersStay DEF Takes
<1>3. keys[i] = None \/ Entries[i] # None \/ Takes(w, i)
  BY <1>2, OrphanRule
<1>4. ASSUME UNCHANGED <<list, keys>> PROVE Takes(w, i)
  BY <1>1, <1>3, <1>4 DEF Entries
<1>5. CASE Request(w)
  BY <1>4, <1>5 DEF Request, Begin, Takes, files
<1>6. CASE Plan(w) \/ Probe(w) \/ Acquire(w) \/ Read(w)
  <2>1. UNCHANGED <<list, keys>> /\ op[w].step \notin {"store", "keep"}
    BY <1>6 DEF Plan, Probe, Acquire, Read, At, files
  <2> QED BY <1>4, <2>1 DEF Takes
<1>7. CASE Replace(w)
  <2>1. /\ At(w, "replace") /\ list' = Applied(op[w], op[w].seen) /\ keys' = keys
    BY <1>7 DEF Replace
  <2>2. /\ op[w] \in Ops /\ op[w] # Idle /\ Shape(w, op[w]) /\ op[w].step = "replace"
        /\ Informed(op[w], Entries, keys)
    BY <2>1, AtRule
  <2>3. Entries' = Applied(op[w], op[w].seen)
    BY <2>1, AppliedRule
  <2>4. Entries[i] # None
    BY <1>1, <1>3, <2>1, <2>2 DEF Takes
  <2>5. CASE op[w].kind = "save" /\ op[w].blob = None
    <3>1. op'[w] = Idle
      BY <1>7, <2>5 DEF Replace, Raced, IInv, TypeOK
    <3>2. op[w].seen = Entries /\ op[w].url # None
      BY <2>2, <2>5, <3>1 DEF Informed, Shape
    <3>3. Entries \in Lists
      BY ListTypes DEF IInv, TypeOK
    <3> QED BY <1>1, <2>3, <2>4, <3>2, <3>3 DEF Applied, Lists
  <2>6. CASE ~(op[w].kind = "save" /\ op[w].blob = None)
    <3> DEFINE o == [op[w] EXCEPT !.step = "store"]
    <3>1. /\ op' = Raced([op EXCEPT ![w] = o], w)
          /\ o \in Ops /\ o.step = "store" /\ o.kind = op[w].kind /\ o.id = op[w].id
      BY <2>1, <2>2, <2>6, <1>7, AtRule, Moved DEF Replace, Steps
    <3> HIDE DEF o
    <3>2. op'[w] = o
      BY <3>1 DEF Raced, IInv, TypeOK
    <3>3. op'[w] # op[w]
      BY <2>2, <3>1, <3>2
    <3>4. op[w].seen = Entries
      BY <2>2, <3>3 DEF Informed
    <3>5. Entries \in Lists
      BY ListTypes DEF IInv, TypeOK
    <3>6. i = op[w].id /\ op[w].url = None
      BY <1>1, <2>3, <2>4, <3>4, <3>5 DEF Applied, Lists
    <3>7. op[w].kind = "delete"
      BY <2>2, <3>6 DEF Shape, Ops, Kinds
    <3>8. Takes(w, i)'
      BY <3>1, <3>2, <3>6, <3>7, IdleIsNoOp DEF Takes
    <3> QED BY <1>1, <3>8
  <2> QED BY <2>5, <2>6
<1>8. CASE ReadStore(w)
  <2>1. At(w, "store") /\ UNCHANGED <<list, keys>>
    BY <1>8 DEF ReadStore, files
  <2>2. Takes(w, i)
    BY <1>4, <2>1
  <2>3. op[w] \in Ops /\ op \in [Workers -> Ops \union {Idle}]
    BY <2>1, AtRule DEF IInv, TypeOK
  <2>4. keys[i] # None
    BY <1>1, <2>1
  <2>5. op' = [op EXCEPT ![w].step = "keep", ![w].keys = keys]
    BY <1>8, <2>2, <2>4 DEF ReadStore, Takes
  <2>6. op'[w] = [op[w] EXCEPT !.step = "keep", !.keys = keys]
    BY <2>3, <2>5
  <2>7. /\ op'[w] \in Ops /\ op'[w].step = "keep"
        /\ op'[w].kind = op[w].kind /\ op'[w].id = op[w].id
    BY <2>3, <2>6 DEF Ops, Steps, IInv, TypeOK
  <2>8. Takes(w, i)'
    BY <2>2, <2>7, IdleIsNoOp DEF Takes
  <2> QED BY <1>1, <2>8
<1>9. CASE Keychain(w) \/ Keep(w)
  <2>1. /\ At(w, "store") \/ At(w, "keep")
        /\ At(w, "store") => keys' = Stored(op[w], keys)
        /\ At(w, "keep") => keys' = Stored(op[w], op[w].keys)
        /\ list' = list /\ op' = Raced([op EXCEPT ![w] = Idle], w)
    BY <1>9 DEF Keychain, Keep, At
  <2>2. /\ op[w] \in Ops /\ op[w] # Idle /\ Shape(w, op[w]) /\ Informed(op[w], Entries, keys)
        /\ op[w].step \in {"store", "keep"}
    BY <2>1, AtRule
  <2>3. op'[w] = Idle
    BY <2>1 DEF Raced, IInv, TypeOK
  <2>4. keys' = Stored(op[w], keys)
    BY <2>1, <2>2, <2>3 DEF Informed, At
  <2>5. keys \in Keys /\ op[w].id \in Ids /\ op[w].kind \in Kinds
    BY <2>2 DEF IInv, TypeOK, Ops
  <2>6. i = op[w].id => op[w].kind # "delete" /\ Entries[i] # None
    <3>1. i = op[w].id => op[w].kind # "delete"
      BY <1>1, <2>4, <2>5 DEF Stored, Keys
    <3>2. op[w].kind # "delete" => Entries[op[w].id] # None
      BY <2>2, <2>3, <2>5 DEF Informed, Kinds
    <3> QED BY <3>1, <3>2
  <2>7. Entries[i] = None
    BY <1>1, <2>1 DEF Entries
  <2>8. i # op[w].id
    BY <2>6, <2>7
  <2>9. keys'[i] = keys[i]
    BY <2>4, <2>5, <2>8 DEF Stored, Keys
  <2> QED BY <1>1, <1>3, <2>7, <2>8, <2>9 DEF Takes
<1> QED BY <1>5, <1>6, <1>7, <1>8, <1>9 DEF Work

\* For any number of threads and Environments: a credential outlives its
\* Environment only when a write failed, a process died, an editor wrote, or a
\* worker went on with what another process had replaced (environments.rs).
THEOREM OrphansExplained == Spec => OrphansHaveAReason
<1> DEFINE Explained(i) ==
       \/ faults' > faults \/ Reload
       \/ \E w \in Workers : op[w] # Idle /\ op[w].raced /\ op'[w] # op[w]
<1>1. ASSUME IInv, Next, NEW i \in Ids, ~Orphan(i), Orphan(i)'
      PROVE  Explained(i)
  <2>1. Fault => faults' > faults
    BY <1>1, AdminAssumption DEF Fault, IInv, TypeOK
  <2>2. CASE \E w \in Workers : ReplaceFails(w) \/ StoreFails(w)
    BY <2>1, <2>2 DEF ReplaceFails, StoreFails
  <2>3. CASE HandEdit \/ Repair \/ \E p \in {"daemon", "command"} : Crash(p)
    BY <2>1, <2>3 DEF HandEdit, Repair, Crash
  <2>4. CASE \E w \in Workers : Request(w) \/ Work(w)
    BY <1>1, <2>4, NoNewOrphan
  <2>5. CASE RunCommand
    <3>1. UNCHANGED <<list, keys>> /\ op[Command] = Idle
      BY <2>5 DEF RunCommand, Begin, files
    <3>2. \A w \in Workers : w # Command => op'[w] = op[w]
      BY <2>5, <1>1 DEF RunCommand, Begin, IInv, TypeOK
    <3>3. \A w \in Workers : Takes(w, i) => Takes(w, i)'
      BY <3>1, <3>2 DEF Takes
    <3>4. keys'[i] # None /\ Entries'[i] = None /\ \A w \in Workers : ~Takes(w, i)'
      BY <1>1, OrphanRule
    <3>5. keys[i] # None /\ Entries[i] = None
      BY <3>1, <3>4 DEF Entries
    <3> QED BY <1>1, <3>3, <3>4, <3>5, OrphanRule
  <2>6. CASE Start \/ \E s \in Settings : UpdateSettings(s)
    <3>1. UNCHANGED <<list, keys, op>>
      BY <2>6 DEF Start, UpdateSettings
    <3> QED BY <1>1, <3>1 DEF Orphan, Entries
  <2>7. CASE Reload
    BY <2>7
  <2> QED BY <1>1, <2>2, <2>3, <2>4, <2>5, <2>6, <2>7 DEF Next
<1>2. IInv /\ [Next]_vars =>
        [\A i \in Ids : Readable /\ list' # Malformed /\ ~Orphan(i) /\ Orphan(i)' => Explained(i)]_vars
  BY <1>1
<1> QED BY <1>2, Inductive, PTL DEF Spec, OrphansHaveAReason
=============================================================================
