------------------------------ MODULE StateStore ------------------------------
(***************************************************************************)
(* Threads of the daemon and of a command open the database file at once.  *)
(* Each open creates the file, sets WAL and brings the schema up to what   *)
(* its binary knows; two binaries may know another number of migrations,   *)
(* and another name for one of the same number.                            *)
(*                                                                         *)
(* The result is the file and where every thread is.  A thread inside a    *)
(* migration has not changed the file until it commits.                    *)
(***************************************************************************)
EXTENDS Judged, Integers, Sequences, FiniteSets, Functions

CONSTANTS
  Threads,
  NoThread

ASSUME ThreadAssumption == NoThread \notin Threads

\* The threads inside open.
Opening(t) == result.pc[t] \notin {"closed", "open", "failed", "clash"}

Store(applied) ==
  [file |-> applied > 0, wal |-> applied > 0, lock |-> NoThread,
   sql |-> [i \in 1 .. applied |-> i],                        \* what was run, in order
   rows |-> {[number |-> i, name |-> "x"] : i \in 1 .. applied}, \* the table of migrations
   pc |-> [t \in Threads |-> "closed"], at |-> [t \in Threads |-> 1]]

NewStore == Judge("store", Store(input.applied))

Moves(t, to) == result' = [result EXCEPT !.pc[t] = to]

At(t, here) == Judged("store") /\ result.pc[t] = here /\ UNCHANGED input

\* OPEN_LOCK: one thread of a process at a time.
Enter(t) ==
  /\ At(t, "closed")
  /\ \A u \in Threads : input.process[u] = input.process[t] => ~Opening(u)
  /\ result' = [result EXCEPT !.pc[t] = "ensure", !.at[t] = 1]

EnsureDakuDir(t) == At(t, "ensure") /\ result' = [result EXCEPT !.pc[t] = "wal", !.file = TRUE]

\* A file that is not in WAL yet needs the file to itself, and does not wait.
SetWal(t) ==
  /\ At(t, "wal")
  /\ \/ result' = [result EXCEPT !.pc[t] = "check", !.wal = TRUE]
     \/ ~result.wal /\ (\E u \in Threads \ {t} : Opening(u)) /\ Moves(t, "failed")

\* Mutant: a migration is known by its whole name.
AppliedByName(t) ==
  [number |-> result.at[t], name |-> input.name[input.process[t]]] \in result.rows

\* A migration is known by its number.
Applied(t) == \E r \in result.rows : r.number = result.at[t]

\* The next migration, read without a lock.
Check(t) ==
  /\ At(t, "check")
  /\ result' = IF result.at[t] > input.known[input.process[t]] THEN [result EXCEPT !.pc[t] = "open"]
               ELSE IF Applied(t) THEN [result EXCEPT !.at[t] = @ + 1]
               ELSE [result EXCEPT !.pc[t] = "begin"]

\* BEGIN IMMEDIATE; a writer is waited for, for five seconds.
Begin(t) ==
  /\ At(t, "begin")
  /\ \/ result.lock = NoThread /\ result' = [result EXCEPT !.pc[t] = "recheck", !.lock = t]
     \/ result.lock # NoThread /\ Moves(t, "failed")

\* Mutant: what was read before the lock is still believed.
RecheckBlind(t) == At(t, "recheck") /\ Moves(t, "run")

\* The migration is looked for once more under the lock.
Recheck(t) ==
  /\ At(t, "recheck")
  /\ result' = IF Applied(t)
               THEN [result EXCEPT !.pc[t] = "check", !.at[t] = @ + 1, !.lock = NoThread]
               ELSE [result EXCEPT !.pc[t] = "run"]

\* The statements of the migration run, or fail and are rolled back; run
\* twice they clash with what they made.
Run(t) ==
  /\ At(t, "run")
  /\ \/ result.at[t] \notin Range(result.sql) /\ Moves(t, "ran")
     \/ result' = [result EXCEPT !.lock = NoThread,
                                 !.pc[t] = IF result.at[t] \in Range(result.sql) THEN "clash" ELSE "failed"]

Commit(t) ==
  /\ At(t, "ran")
  /\ result' = [result EXCEPT !.sql = Append(@, result.at[t]),
                              !.rows = @ \union {[number |-> result.at[t], name |-> input.name[input.process[t]]]},
                              !.lock = NoThread, !.pc[t] = "check", !.at[t] = @ + 1]

\* The connection is dropped, or the open is tried again.
Close(t) == (At(t, "open") \/ At(t, "failed")) /\ Moves(t, "closed")

\* A process ends: its transaction is rolled back.
Crash(p) ==
  /\ Judged("store") /\ UNCHANGED input
  /\ \E t \in Threads : input.process[t] = p /\ result.pc[t] # "closed"
  /\ result' = [result EXCEPT
       !.pc = [t \in Threads |-> IF input.process[t] = p THEN "closed" ELSE result.pc[t]],
       !.lock = IF @ # NoThread /\ input.process[@] = p THEN NoThread ELSE @]

StoreSteps ==
  \/ NewStore
  \/ \E t \in Threads :
       Enter(t) \/ EnsureDakuDir(t) \/ SetWal(t) \/ Check(t) \/ Begin(t) \/ Recheck(t) \/ Run(t)
       \/ Commit(t) \/ Close(t)
  \/ \E p \in {"daemon", "command"} : Crash(p)

-----------------------------------------------------------------------------
\* However the opens meet and end, every migration runs once and in order, it
\* is in the table exactly if it has run, no open runs into one that has, and
\* a connection that was given out has all that its binary knows
\* (apply_migrations, StateStore::open).
MigrationsRunOnce ==
  Judged("store") =>
    /\ \A i \in DOMAIN result.sql : result.sql[i] = i
    /\ {r.number : r \in result.rows} = Range(result.sql)
    /\ Cardinality(result.rows) = Len(result.sql)
    /\ \A t \in Threads :
         /\ result.pc[t] # "clash"
         /\ result.pc[t] = "open" =>
              1 .. input.known[input.process[t]] \subseteq Range(result.sql) /\ result.wal
=============================================================================
