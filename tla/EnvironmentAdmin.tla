-------------------------- MODULE EnvironmentAdmin --------------------------
(***************************************************************************)
(* Administration of the Environments: two request threads of the daemon,  *)
(* which save and delete for the desktop, and a command (setup or          *)
(* rotate-credential) the Operator runs in a process of its own, on the    *)
(* same environments.json and the same credential store.  A write replaces *)
(* its file by a rename; it can fail before the rename, or after it, when  *)
(* the mode of the file cannot be set.  Each process serializes its own    *)
(* read-modify-write of environments.json by ENV_FILE_OP_LOCK, held until  *)
(* the credential is stored; FILE_CRED_OP_LOCK and WRITE_LOCK, taken       *)
(* inside, add nothing to that and are left out.  Nothing locks one        *)
(* process out while another works.                                        *)
(***************************************************************************)
EXTENDS Naturals, FiniteSets

CONSTANTS
  Ids,        \* ids of Environments
  Urls,       \* instance URLs; BadUrl is one the rules refuse
  BadUrl,
  Blobs,      \* credentials; the shape of one is checked with the URL
  None,       \* no entry, no credential, nobody
  Missing, Malformed,  \* environments.json does not exist, or does not parse
  Threads,    \* request threads of the daemon
  Command,    \* the command
  InitialLists,  \* the lists the first start can find
  Stores,     \* credential stores: a subset of {"file", "keychain"}
  Settings,   \* contents of settings.json; DefaultSettings if there is none
  DefaultSettings,
  MaxOps,     \* bound: operations
  MaxFaults   \* bound: failed writes, dying processes and edits by hand

Workers == Threads \union {Command}
Process(w) == IF w = Command THEN "command" ELSE "daemon"

Lists == [Ids -> Urls \union {BadUrl, None}]
Nobody == [i \in Ids |-> None]
Keys == [Ids -> Blobs \union {None}]

Kinds == {"save", "delete", "rotate"}
Steps == {"plan", "probe", "lock", "read", "replace", "store", "keep"}
Idle == [step |-> "idle"]
Ops == [step : Steps, kind : Kinds, id : Ids, url : Urls \union {BadUrl, None},
        blob : Blobs \union {None}, seen : Lists, keys : Keys, raced : BOOLEAN]

ASSUME AdminAssumption ==
  /\ None \notin Urls \union {BadUrl} \union Blobs \union Workers
  /\ BadUrl \notin Urls /\ Blobs # {} /\ Command \notin Threads
  /\ Missing \notin Lists /\ Malformed \notin Lists
  /\ InitialLists \subseteq Lists \union {Missing, Malformed}
  /\ Stores \subseteq {"file", "keychain"}
  /\ DefaultSettings \in Settings
  /\ "missing" \notin Settings /\ "malformed" \notin Settings
  /\ MaxOps \in Nat /\ MaxFaults \in Nat

VARIABLES
  list,      \* environments.json: Missing, Malformed, or the URL of each id
  keys,      \* the credentials of the store
  store,     \* which store the processes use
  allow,     \* allow_credential_write: is the daemon bound to loopback?
  op,        \* op[w]: the operation worker w is in
  lock,      \* lock[process]: the holder of ENV_FILE_OP_LOCK
  up,        \* does the daemon run?
  polled,    \* the Environments its collector polls
  reload,    \* the desktop has a successful save to reload the daemon for
  settings,  \* settings.json: "missing", "malformed" or its contents
  memory,    \* the settings the daemon serves
  ops, faults,
  torn,      \* history: settings.json was replaced by a failing write, or edited
  told       \* history: the newest entry the desktop was told is saved, if not edited

files  == <<list, keys, settings>>
daemon == <<up, polled, memory>>
fixed  == <<store, allow>>
bounds == <<ops, faults>>
vars   == <<files, daemon, fixed, op, lock, reload, bounds, torn, told>>

TypeOK ==
  /\ list \in Lists \union {Missing, Malformed}
  /\ keys \in Keys /\ store \in Stores /\ allow \in BOOLEAN
  /\ op \in [Workers -> Ops \union {Idle}]
  /\ lock \in [{"daemon", "command"} -> Workers \union {None}]
  /\ up \in BOOLEAN /\ polled \in Lists /\ reload \in BOOLEAN
  /\ settings \in Settings \union {"missing", "malformed"}
  /\ memory \in Settings /\ torn \in BOOLEAN
  /\ told \in (Ids \X Urls) \union {None}
  /\ ops \in 0 .. MaxOps /\ faults \in 0 .. MaxFaults

-----------------------------------------------------------------------------
(* Reading the files. *)

\* load_environments: one entry that breaks a rule, or a file that does not
\* parse or names an id twice, fails the whole list.
Loads == list \in Lists /\ \A i \in Ids : list[i] # BadUrl
Loaded == IF Loads THEN list ELSE Nobody

\* load_or_empty: no file is an empty list, and the entries are not checked.
Readable == list # Malformed
Entries == IF list \in Lists THEN list ELSE Nobody

Init ==
  /\ list \in InitialLists
  /\ keys = [i \in Ids |-> IF Entries[i] = None THEN None ELSE CHOOSE b \in Blobs : TRUE]
  /\ store \in Stores /\ allow \in BOOLEAN
  /\ op = [w \in Workers |-> Idle]
  /\ lock = [p \in {"daemon", "command"} |-> None]
  /\ up = TRUE /\ polled = Loaded /\ reload = FALSE
  /\ settings = "missing" /\ memory = DefaultSettings
  /\ ops = 0 /\ faults = 0
  /\ torn = FALSE /\ told = None

-----------------------------------------------------------------------------
(* The operations. *)

Fault == faults < MaxFaults /\ faults' = faults + 1

At(w, step) == op[w] # Idle /\ op[w].step = step

Begin(w, step, kind, i, url, blob) ==
  /\ op[w] = Idle /\ ops < MaxOps
  /\ ops' = ops + 1
  /\ op' = [op EXCEPT ![w] = [step |-> step, kind |-> kind, id |-> i, url |-> url,
              blob |-> blob, seen |-> Nobody, keys |-> Nobody, raced |-> FALSE]]
  /\ UNCHANGED <<files, daemon, fixed, lock, reload, faults, torn, told>>

\* What was sent to the worker is done with: it holds nothing any more.
Over(w) ==
  /\ op' = [op EXCEPT ![w] = Idle]
  /\ lock' = [p \in DOMAIN lock |-> IF lock[p] = w THEN None ELSE lock[p]]

Go(w, step) == op' = [op EXCEPT ![w].step = step] /\ UNCHANGED lock

\* The sheet of the desktop sends a save or a deletion to the daemon.
Request(w) ==
  /\ w \in Threads /\ up
  /\ \E i \in Ids :
       \/ Begin(w, "lock", "delete", i, None, None)
       \/ \E url \in Urls \union {BadUrl}, blob \in Blobs \union {None} :
            Begin(w, "lock", "save", i, url, blob)

\* setup, which probes first unless told not to, or rotate-credential.
RunCommand ==
  \E i \in Ids, blob \in Blobs \union {None} :
    \/ blob # None /\ Begin(Command, "plan", "rotate", i, None, blob)
    \/ \E url \in Urls : Begin(Command, "plan", "save", i, url, blob)

\* Both read the list: setup for the order of the entry, rotation for the entry.
Plan(w) ==
  /\ At(w, "plan")
  /\ IF op[w].kind = "rotate" /\ Loaded[op[w].id] = None
     THEN Over(w)
     ELSE Go(w, "probe")
  /\ UNCHANGED <<files, daemon, fixed, reload, bounds, torn, told>>

\* An Environment that cannot be reached ends the command; --no-probe goes on.
Probe(w) ==
  /\ At(w, "probe")
  /\ \/ Over(w)
     \/ Go(w, IF op[w].kind = "rotate" THEN "store" ELSE "lock")
  /\ UNCHANGED <<files, daemon, fixed, reload, bounds, torn, told>>

Refused(w) ==
  \/ op[w].kind = "save" /\ op[w].url = BadUrl
  \/ w # Command /\ ~allow /\ (op[w].kind = "delete" \/ op[w].blob # None)

\* Mutant: nothing serializes the threads.
AcquireAtOnce(w) ==
  /\ At(w, "lock")
  /\ IF Refused(w) THEN Over(w) ELSE Go(w, "read")
  /\ UNCHANGED <<files, daemon, fixed, reload, bounds, torn, told>>

Acquire(w) ==
  /\ At(w, "lock") /\ lock[Process(w)] = None
  /\ IF Refused(w)
     THEN Over(w)
     ELSE /\ op' = [op EXCEPT ![w].step = "read"]
          /\ lock' = [lock EXCEPT ![Process(w)] = w]
  /\ UNCHANGED <<files, daemon, fixed, reload, bounds, torn, told>>

\* A file that cannot be read, or a deletion of an unknown id, ends it.
Read(w) ==
  /\ At(w, "read")
  /\ IF ~Readable \/ (op[w].kind = "delete" /\ Entries[op[w].id] = None)
     THEN Over(w)
     ELSE /\ op' = [op EXCEPT ![w].step = "replace", ![w].seen = Entries]
          /\ UNCHANGED lock
  /\ UNCHANGED <<files, daemon, fixed, reload, bounds, torn, told>>

\* What is to be written, given the list that was read.
Applied(o, entries) == [entries EXCEPT ![o.id] = o.url]

\* The operations of other processes that may have read what is now replaced.
Raced(ops1, w) ==
  [v \in Workers |->
     IF ops1[v] # Idle /\ Process(v) # Process(w)
     THEN [ops1[v] EXCEPT !.raced = TRUE] ELSE ops1[v]]

Release(w) == [p \in DOMAIN lock |-> IF lock[p] = w THEN None ELSE lock[p]]

Stands(o) == Loads' /\ list'[o.id] = o.url

\* Mutant: only a new credential is a reason to reload.
SucceedQuietly(w) ==
  /\ reload' = (reload \/ (w # Command /\ op[w].blob # None))
  /\ told' = IF w # Command /\ op[w].kind = "save" /\ Stands(op[w])
             THEN <<op[w].id, op[w].url>> ELSE told

\* The desktop reloads the daemon when a save or deletion of its own succeeded.
Succeed(w) ==
  /\ reload' = (reload \/ w # Command)
  /\ told' = IF w # Command /\ op[w].kind = "save" /\ Stands(op[w])
             THEN <<op[w].id, op[w].url>> ELSE told

\* save_environments succeeds; the credential is next, if there is one to
\* store or to delete.
Replace(w) ==
  /\ At(w, "replace")
  /\ list' = Applied(op[w], op[w].seen)
  /\ IF op[w].kind = "save" /\ op[w].blob = None
     THEN /\ op' = Raced([op EXCEPT ![w] = Idle], w)
          /\ lock' = Release(w)
          /\ Succeed(w)
     ELSE /\ op' = Raced([op EXCEPT ![w].step = "store"], w)
          /\ UNCHANGED <<lock, reload, told>>
  /\ UNCHANGED <<keys, settings, daemon, fixed, bounds, torn>>

\* It fails: before the rename nothing has changed, after it everything has.
ReplaceFails(w) ==
  /\ At(w, "replace")
  /\ Fault
  /\ \/ UNCHANGED list /\ op' = [op EXCEPT ![w] = Idle]
     \/ list' = Applied(op[w], op[w].seen) /\ op' = Raced([op EXCEPT ![w] = Idle], w)
  /\ lock' = Release(w)
  /\ UNCHANGED <<keys, settings, daemon, fixed, reload, ops, torn, told>>

Stored(o, known) ==
  [known EXCEPT ![o.id] = IF o.kind = "delete" THEN None ELSE o.blob]

\* The file store reads its map, and has nothing to do for a deletion of what
\* it does not hold.
ReadStore(w) ==
  /\ At(w, "store") /\ store = "file"
  /\ IF op[w].kind = "delete" /\ keys[op[w].id] = None
     THEN Over(w) /\ UNCHANGED files /\ Succeed(w)
     ELSE /\ op' = [op EXCEPT ![w].step = "keep", ![w].keys = keys]
          /\ UNCHANGED <<files, lock, reload, told>>
  /\ UNCHANGED <<daemon, fixed, bounds, torn>>

\* The Keychain replaces one item at a time.
Keychain(w) ==
  /\ At(w, "store") /\ store = "keychain"
  /\ keys' = Stored(op[w], keys)
  /\ op' = Raced([op EXCEPT ![w] = Idle], w) /\ lock' = Release(w)
  /\ UNCHANGED <<list, settings, daemon, fixed, bounds, torn>>
  /\ Succeed(w)

\* Mutant: a deletion leaves the credential where it is.
KeepDeleted(w) ==
  /\ At(w, "keep")
  /\ keys' = IF op[w].kind = "delete" THEN keys ELSE Stored(op[w], op[w].keys)
  /\ op' = Raced([op EXCEPT ![w] = Idle], w) /\ lock' = Release(w)
  /\ UNCHANGED <<list, settings, daemon, fixed, bounds, torn>>
  /\ Succeed(w)

Keep(w) ==
  /\ At(w, "keep")
  /\ keys' = Stored(op[w], op[w].keys)
  /\ op' = Raced([op EXCEPT ![w] = Idle], w) /\ lock' = Release(w)
  /\ UNCHANGED <<list, settings, daemon, fixed, bounds, torn>>
  /\ Succeed(w)

StoreFails(w) ==
  /\ At(w, "store") \/ At(w, "keep")
  /\ Fault
  /\ \/ UNCHANGED keys /\ op' = [op EXCEPT ![w] = Idle]
     \/ /\ At(w, "keep") /\ keys' = Stored(op[w], op[w].keys)
        /\ op' = Raced([op EXCEPT ![w] = Idle], w)
  /\ lock' = Release(w)
  /\ UNCHANGED <<list, settings, daemon, fixed, reload, ops, torn, told>>

-----------------------------------------------------------------------------
(* The settings. *)

\* Mutant: the settings in memory change first.
UpdateSettingsFirst(s) ==
  /\ up /\ ops < MaxOps /\ ops' = ops + 1
  /\ memory' = s
  /\ \/ settings' = s /\ UNCHANGED <<faults, torn>>
     \/ /\ Fault
        /\ \/ UNCHANGED <<settings, torn>>
           \/ settings' = s /\ torn' = TRUE
  /\ UNCHANGED <<list, keys, up, polled, fixed, op, lock, reload, told>>

\* One lock covers the write and the change in memory; a webhook URL the rules
\* refuse is not in Settings.
UpdateSettings(s) ==
  /\ up /\ ops < MaxOps /\ ops' = ops + 1
  /\ \/ settings' = s /\ memory' = s /\ torn' = FALSE /\ UNCHANGED faults
     \/ /\ Fault
        /\ UNCHANGED memory
        /\ \/ UNCHANGED <<settings, torn>>
           \/ settings' = s /\ torn' = TRUE
  /\ UNCHANGED <<list, keys, up, polled, fixed, op, lock, reload, told>>

-----------------------------------------------------------------------------
(* The processes. *)

\* The operations of a process that stops end where they are, unanswered.
Abandon(p) ==
  /\ op' = [w \in Workers |-> IF Process(w) = p THEN Idle ELSE op[w]]
  /\ lock' = [lock EXCEPT ![p] = None]

Crash(p) ==
  /\ Fault
  /\ Abandon(p)
  /\ up' = (up /\ p # "daemon")
  /\ UNCHANGED <<files, polled, memory, fixed, reload, ops, torn, told>>

\* The desktop stops its daemon to have a new one read the list: after a save
\* of its own, or because the Operator says so.
Reload ==
  /\ up
  /\ Abandon("daemon")
  /\ up' = FALSE /\ reload' = FALSE
  /\ UNCHANGED <<files, polled, memory, fixed, bounds, torn, told>>

\* A list that does not load leaves the collector idle; settings that do not
\* parse are moved aside for the default ones.
Start ==
  /\ ~up /\ up' = TRUE
  /\ polled' = Loaded
  /\ settings' = IF settings = "malformed" THEN DefaultSettings ELSE settings
  /\ memory' = IF settings \in Settings THEN settings ELSE DefaultSettings
  /\ torn' = FALSE
  /\ UNCHANGED <<list, keys, fixed, op, lock, reload, bounds, told>>

\* The Operator edits a file by hand.
HandEdit ==
  /\ Fault
  /\ \/ list' \in {Missing, Malformed} /\ UNCHANGED <<settings, torn>>
     \/ /\ list \in Lists /\ UNCHANGED <<settings, torn>>
        /\ \E i \in Ids, url \in {BadUrl, None} : list' = [list EXCEPT ![i] = url]
     \/ settings' \in {"missing", "malformed"} /\ torn' = TRUE /\ UNCHANGED list
  /\ op' = [w \in Workers |-> IF op[w] = Idle THEN Idle ELSE [op[w] EXCEPT !.raced = TRUE]]
  /\ UNCHANGED <<keys, daemon, fixed, lock, reload, ops>>
  /\ told' = IF list' = list THEN told ELSE None

\* doctor --fix creates a missing list and changes no content.
Repair ==
  /\ list = Missing /\ Fault
  /\ list' = Nobody
  /\ op' = Raced(op, Command)
  /\ UNCHANGED <<keys, settings, daemon, fixed, lock, reload, ops, torn, told>>

-----------------------------------------------------------------------------
Work(w) ==
  \/ Plan(w) \/ Probe(w) \/ Acquire(w) \/ Read(w) \/ Replace(w)
  \/ ReadStore(w) \/ Keychain(w) \/ Keep(w)

Next ==
  \/ \E w \in Workers : Request(w) \/ Work(w) \/ ReplaceFails(w) \/ StoreFails(w)
  \/ RunCommand
  \/ \E s \in Settings : UpdateSettings(s)
  \/ \E p \in {"daemon", "command"} : Crash(p)
  \/ Reload \/ Start \/ HandEdit \/ Repair

Spec == Init /\ [][Next]_vars

\* An operation goes on until it is answered, and the desktop reloads and
\* restarts its daemon.  Nothing is assumed of the Operator or of failures.
FairSpec ==
  /\ Spec
  /\ \A w \in Workers : WF_vars(Work(w))
  /\ WF_vars(reload /\ Reload) /\ WF_vars(Start)

-----------------------------------------------------------------------------
(* Properties. *)

\* "Two overlapping saves cannot both read the same old JSON and lose one
\* update": a write changes the entry, or the credential, it is about and no
\* other, unless another process or an editor wrote while it was at work.
WritesTouchOneEntry ==
  [][\A w \in Workers : At(w, "replace") \/ At(w, "keep") =>
       LET o == op[w] IN
       \/ o.raced
       \/ op'[w] # Idle /\ op'[w].step = o.step
       \/ /\ list' \in {list, Applied(o, Entries)}
          /\ keys' \in {keys, Stored(o, keys)}]_vars

\* A credential without an Environment that no deletion is about to take.
Orphan(i) ==
  /\ keys[i] # None /\ Entries[i] = None
  /\ \A w \in Workers : op[w] = Idle \/ op[w].id # i \/ op[w].kind # "delete"
                          \/ op[w].step \notin {"store", "keep"}

\* A credential outlives its Environment only for a reason: a write that
\* failed, a process that died, an editor, or a command that ran while the
\* daemon wrote.
OrphansHaveAReason ==
  [][\A i \in Ids : Readable /\ list' # Malformed /\ ~Orphan(i) /\ Orphan(i)' =>
       \/ faults' > faults \/ Reload
       \/ \E w \in Workers : op[w] # Idle /\ op[w].raced /\ op'[w] # op[w]]_vars

\* Every variable has its type, and the settings the daemon serves are those it
\* would read after a restart, unless a write failed after its rename or the
\* file was edited.
ServedIsStored ==
  /\ TypeOK
  /\ up /\ ~torn => memory = IF settings \in Settings THEN settings ELSE DefaultSettings

\* What the desktop was told is saved is polled in the end, unless the entry is
\* edited or deleted, or the list no longer loads (an editor's mistake that a
\* command may have read, and writes back): whatever else the command writes in
\* between, and whichever process dies.
SavedIsPolled ==
  \A e \in Ids \X Urls :
    told = e ~> told # e \/ polled[e[1]] = e[2] \/ Entries[e[1]] # e[2] \/ ~Loads
=============================================================================
