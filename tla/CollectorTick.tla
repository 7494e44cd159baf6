---------------------------- MODULE CollectorTick ----------------------------
(***************************************************************************)
(* One round of the collector after another: a thread per Environment runs *)
(* its Signals in order, Availability first; when all have joined, the     *)
(* slow Signals compare Environments with one another on every SlowEvery-  *)
(* th round; then the dashboard is published.                              *)
(*                                                                         *)
(* Every answer of an instance is a free choice, so that it may fall       *)
(* asleep between two requests.  Ages count the seconds since a row or an  *)
(* inventory was written, in steps, and stop one above the limit they are  *)
(* compared with.  Of all rows only Availability's are read again; of the  *)
(* others, `rows` keeps those of the groups until the slow Signals start,  *)
(* and then those of the slow Signal that ran last.                        *)
(***************************************************************************)
EXTENDS Naturals, Sequences, FiniteSets, Functions

CONSTANTS
  Environments,   \* the ServiceNow Environments, in the order of the configuration
  Sources,        \* the clone sources to configure: Environments, or NoSource
  NoSource,
  GroupSignals,   \* the gated Signals of a group, in order
  SlowEvery,      \* slow_every
  Window,         \* REACHABILITY_REUSE_SECS
  Refresh,        \* INVENTORY_REFRESH_SECS
  MaxFaults,      \* bound: failed writes, panics and failed publishes
  MaxSamples,     \* bound: samples of one hour
  Nothing         \* no row

Envs == Range(Environments)

ASSUME TickAssumption ==
  /\ SlowEvery \in Nat \ {0} /\ MaxFaults \in Nat /\ MaxSamples \in Nat
  /\ Window \in Nat /\ Refresh \in Nat
  /\ Sources \subseteq Envs \cup {NoSource} /\ NoSource \notin Envs
  /\ Environments \in Seq(Envs) /\ Environments # <<>>
  /\ GroupSignals \in Seq(Range(GroupSignals))

VARIABLES
  source,      \* the Environment marked clone_source
  avail,       \* Env -> its Availability row: age, reachability, of this round or not
  rows,        \* Env -> Signal -> the row just written
  group,       \* Env -> the next Signal of its thread
  inventories, \* Env -> the plugin inventory kept by the drift collector
  pc,          \* what the collector thread does
  phase,       \* ticks modulo SlowEvery
  slowTick,    \* whether this round runs the slow Signals
  unsent,      \* Environments with rows no publish has sent yet
  sampled,     \* samples of this hour, of one Signal of one Environment
  rolled,      \* the samples its roll-up of this hour counts
  faults       \* faults so far

vars == <<source, avail, rows, group, inventories, pc, phase, slowTick,
          unsent, sampled, rolled, faults>>
hour == <<sampled, rolled>>
tick == <<source, phase, slowTick>>

SlowSignals == {"drift", "last_clone", "scan"}
Signals == Range(GroupSignals) \cup SlowSignals
Done == Len(GroupSignals) + 1
Reaches == {"reachable", "asleep", "unreachable"}
Head1 == Environments[1]      \* the Environment whose samples are followed

Older(age, limit) == IF age <= limit THEN age + 1 ELSE age

Gates == {"asleep", "unreachable"}

\* Where the newest completed clone of a target is: on the page the source
\* answers with, on a later one, or nowhere.
Clones == {"page", "later", "none"}

\* Why a card is skipped: its own gate, or what is the matter with the source.
CloneSourceIs == [asleep |-> "clone_source_asleep", unreachable |-> "clone_source_unreachable"]
Whys == Gates \cup
  {"clone_source_asleep", "clone_source_unreachable", "clone_source_cannot_list_clones",
   "no_clone_source", "need_two_environments"}

Availability == [age : 0 .. Window + 1, reach : Reaches, round : BOOLEAN]
Inventory == [age : 0 .. Refresh + 1, read : 0 .. Refresh + 1]
Row == [kind : {"probed", "down", "source"}]
         \cup [kind : {"skipped"}, why : Whys]
         \cup [kind : {"compared"}, oldest : 0 .. Refresh + 1]
         \cup [kind : {"source", "completed", "never", "older_than_page"}, place : Clones]

ASSUME RowAssumption == Nothing \notin Row

TypeOK ==
  /\ source \in Sources
  /\ avail \in [Envs -> Availability \cup {Nothing}]
  /\ inventories \in [Envs -> Inventory \cup {Nothing}]
  /\ rows \in [Envs -> [Signals -> Row \cup {Nothing}]]
  /\ group \in [Envs -> 0 .. Done]
  /\ pc \in {"idle", "groups", "drift", "last_clone", "scan", "publish"}
  /\ phase \in 0 .. SlowEvery - 1 /\ slowTick \in BOOLEAN
  /\ unsent \subseteq Envs
  /\ sampled \in 0 .. MaxSamples /\ rolled \in 0 .. sampled
  /\ faults \in 0 .. MaxFaults

-----------------------------------------------------------------------------
NoRows == [e \in Envs |-> [s \in Signals |-> Nothing]]

Fault == faults < MaxFaults /\ faults' = faults + 1

\* Started, the loop publishes what the database holds before its first round.
Init ==
  /\ source \in Sources
  /\ avail = [e \in Envs |-> Nothing]
  /\ rows = NoRows
  /\ group = [e \in Envs |-> Done]
  /\ inventories = [e \in Envs |-> Nothing]
  /\ pc = "publish"
  /\ phase = 0 /\ slowTick = FALSE
  /\ unsent = {} /\ sampled = 0 /\ rolled = 0 /\ faults = 0

\* With no route to any Environment the loop sleeps, looks again, and stays
\* where it is.
StartTick ==
  /\ pc = "idle"
  /\ pc' = "groups"
  /\ phase' = (phase + 1) % SlowEvery
  /\ slowTick' = (phase = 0)
  /\ group' = [e \in Envs |-> 0]
  /\ rows' = NoRows
  /\ avail' = [e \in Envs |->
       IF avail[e] = Nothing THEN Nothing ELSE [avail[e] EXCEPT !.round = FALSE]]
  /\ UNCHANGED <<source, inventories, unsent, hour, faults>>

-----------------------------------------------------------------------------
(* The thread of one Environment.                                          *)

Written(e, s, row) ==
  /\ rows' = [rows EXCEPT ![e][s] = row]
  /\ unsent' = unsent \cup {e}

\* Reachability as recorded, if the row is recent enough.
RecentReachability(e) ==
  IF avail[e] # Nothing /\ avail[e].age <= Window THEN avail[e].reach ELSE "unknown"

\* Mutant: an instance that did not answer leaves the row as it was.
ProbeAvailabilityAnswered(e) ==
  /\ pc = "groups" /\ group[e] = 0
  /\ group' = [group EXCEPT ![e] = 1]
  /\ \E reach \in Reaches \ {"unreachable"} :
       avail' = [avail EXCEPT ![e] = [age |-> 0, reach |-> reach, round |-> TRUE]]
     \/ UNCHANGED avail
  /\ UNCHANGED <<tick, rows, inventories, pc, unsent, hour, faults>>

\* Availability never skips; its sample is kept when the instance answered.
ProbeAvailability(e) ==
  /\ pc = "groups" /\ group[e] = 0
  /\ group' = [group EXCEPT ![e] = 1]
  /\ \E reach \in Reaches :
       \/ /\ avail' = [avail EXCEPT ![e] = [age |-> 0, reach |-> reach, round |-> TRUE]]
          /\ unsent' = unsent \cup {e}
          /\ sampled' = IF e = Head1 /\ reach = "reachable" /\ sampled < MaxSamples
                        THEN sampled + 1 ELSE sampled
          /\ UNCHANGED faults
       \/ Fault /\ UNCHANGED <<avail, unsent, sampled>>
  /\ UNCHANGED <<tick, rows, inventories, pc, rolled>>

SkippedFor(why) == [kind |-> "skipped", why |-> why]
Probed == {[kind |-> "probed"], [kind |-> "down"]}

\* What a gated collector writes for e.
GatedRows(e) ==
  IF RecentReachability(e) \in Gates THEN {SkippedFor(RecentReachability(e))} ELSE Probed

CollectEnvironment(e) ==
  /\ pc = "groups" /\ group[e] \in 1 .. Len(GroupSignals)
  /\ group' = [group EXCEPT ![e] = @ + 1]
  /\ \/ \E row \in GatedRows(e) :
          Written(e, GroupSignals[group[e]], row) /\ UNCHANGED faults
     \/ Fault /\ UNCHANGED <<rows, unsent>>
  /\ UNCHANGED <<tick, avail, inventories, pc, hour>>

\* Mutant: the scope unwinds with the first thread that panicked.
GroupPanicsAll(e) ==
  /\ pc = "groups" /\ group[e] < Done
  /\ Fault
  /\ group' = [f \in Envs |-> Done]
  /\ UNCHANGED <<tick, avail, rows, inventories, pc, unsent, hour>>

\* A panic ends the thread of its Environment and no other.
GroupPanics(e) ==
  /\ pc = "groups" /\ group[e] < Done
  /\ Fault
  /\ group' = [group EXCEPT ![e] = Done]
  /\ UNCHANGED <<tick, avail, rows, inventories, pc, unsent, hour>>

JoinGroups ==
  /\ pc = "groups" /\ \A e \in Envs : group[e] = Done
  /\ pc' = IF slowTick THEN "drift" ELSE "publish"
  /\ UNCHANGED <<tick, avail, rows, group, inventories, unsent, hour, faults>>

-----------------------------------------------------------------------------
(* The slow Signals.  Each starts from one reading of the clock.           *)

\* Rows of one Signal for some Environments, but for those whose write failed.
WriteSome(s, written, failed) ==
  /\ IF failed = {} THEN UNCHANGED faults ELSE Fault
  /\ rows' = [e \in Envs |-> IF e \in DOMAIN written \ failed
                             THEN [NoRows[e] EXCEPT ![s] = written[e]] ELSE NoRows[e]]
  /\ unsent' = unsent \cup (DOMAIN written \ failed)

AllSkipped(why) == [e \in Envs |-> SkippedFor(why)]

SourceGated == source # NoSource /\ RecentReachability(source) \in Gates

\* The source says its own state, every other card that the source has it.
SourceSkipped ==
  [e \in Envs |-> SkippedFor(IF e = source THEN RecentReachability(source)
                             ELSE CloneSourceIs[RecentReachability(source)])]

Cached(e) == inventories[e] # Nothing /\ inventories[e].age <= Refresh

\* The age of what was compared: an inventory kept, or read now.
ReadAge(e) == IF Cached(e) THEN inventories[e].read ELSE 0

\* An inventory is kept or read, and a build taken from the Availability row
\* or read: either read can fail.
EnvInventory(e, answers) == (Cached(e) \/ answers[e].plugins) /\ answers[e].build

Keeps(e, answers) == ~Cached(e) /\ answers[e].plugins

\* Mutant: reusing an inventory makes it new again.
FetchedSliding(e, answers) ==
  IF Keeps(e, answers) THEN [age |-> 0, read |-> 0]
  ELSE IF Cached(e) THEN [inventories[e] EXCEPT !.age = 0] ELSE inventories[e]

Fetched(e, answers) ==
  IF Keeps(e, answers) THEN [age |-> 0, read |-> 0] ELSE inventories[e]

\* Mutant: the gate of the source is taken for that of the others.
CollectOtherTrusting(e, answers) ==
  IF ~EnvInventory(source, answers) \/ ~EnvInventory(e, answers) THEN [kind |-> "down"]
  ELSE [kind |-> "compared", oldest |-> 0]

CollectOther(e, answers) ==
  IF RecentReachability(e) \in Gates THEN SkippedFor(RecentReachability(e))
  ELSE IF ~EnvInventory(source, answers) \/ ~EnvInventory(e, answers) THEN [kind |-> "down"]
  ELSE [kind |-> "compared",
        oldest |-> IF ReadAge(e) > ReadAge(source) THEN ReadAge(e) ELSE ReadAge(source)]

\* The Environments whose inventory a round asks for.
Compared(answers) ==
  {source} \cup {e \in Envs \ {source} :
     RecentReachability(e) \notin Gates /\ EnvInventory(source, answers)}

CollectDrift ==
  /\ pc = "drift"
  /\ pc' = "last_clone"
  /\ \E failed \in SUBSET Envs :
       IF source = NoSource
       THEN /\ WriteSome("drift", AllSkipped("no_clone_source"), failed)
            /\ UNCHANGED inventories
       ELSE IF Cardinality(Envs) < 2
       THEN /\ WriteSome("drift", AllSkipped("need_two_environments"), failed)
            /\ UNCHANGED inventories
       ELSE IF SourceGated
       THEN WriteSome("drift", SourceSkipped, failed) /\ UNCHANGED inventories
       ELSE \E answers \in [Envs -> [plugins : BOOLEAN, build : BOOLEAN]] :
              /\ inventories' = [e \in Envs |->
                   IF e \in Compared(answers) THEN Fetched(e, answers) ELSE inventories[e]]
              /\ WriteSome("drift",
                   [e \in Envs |->
                      IF e # source THEN CollectOther(e, answers)
                      ELSE IF EnvInventory(e, answers) THEN [kind |-> "source"]
                      ELSE [kind |-> "down"]], failed)
  /\ UNCHANGED <<tick, avail, group, hour>>

\* The order of the writes: first, if it is one of them, then as configured.
Before(first, e, f) ==
  /\ f # first
  /\ \/ e = first
     \/ \E i, j \in DOMAIN Environments : i < j /\ Environments[i] = e /\ Environments[j] = f

Beginnings(first) ==
  {done \in SUBSET Envs : \A f \in done, e \in Envs : Before(first, e, f) => e \in done}

\* Writes in order stop at the first that fails.
WriteInOrder(s, first, written) ==
  \E done \in Beginnings(first) :
    /\ IF done = Envs THEN UNCHANGED faults ELSE Fault
    /\ rows' = [e \in Envs |-> IF e \in done THEN [NoRows[e] EXCEPT ![s] = written[e]] ELSE NoRows[e]]
    /\ unsent' = unsent \cup done

\* Mutant: a target that is not on the page has never been cloned.
CloneRowCertain(place, truncated) ==
  IF place = "page" THEN [kind |-> "completed"] ELSE [kind |-> "never"]

CloneRow(place, truncated) ==
  CASE place = "page"               -> [kind |-> "completed"]
    [] place # "page" /\ truncated  -> [kind |-> "older_than_page"]
    [] place # "page" /\ ~truncated -> [kind |-> "never"]

Truth(row, place) == [kind |-> row.kind, place |-> place]

\* Mutant: a source that fails is told on its own card only.
TargetsAfterSilent(sourceRow, why) == [e \in Envs |-> IF e = source THEN sourceRow ELSE Nothing]

\* The source is down, or cannot list clones, and every target is told so.
TargetsAfter(sourceRow, why) ==
  [e \in Envs |-> IF e = source THEN sourceRow ELSE SkippedFor(why)]

CollectLastClone ==
  /\ pc = "last_clone"
  /\ pc' = "scan"
  /\ IF source = NoSource
     THEN WriteInOrder("last_clone", NoSource, AllSkipped("no_clone_source"))
     ELSE IF SourceGated
     THEN WriteInOrder("last_clone", source, SourceSkipped)
     ELSE \E answer \in {"listed", "refused", "malformed", "http_error", "no_answer"},
             clones \in [Envs -> Clones], full \in BOOLEAN :
            LET truncated == full \/ \E e \in Envs \ {source} : clones[e] = "later"
                written ==
                  CASE answer \in {"http_error", "no_answer"} ->
                         TargetsAfter([kind |-> "down"], "clone_source_unreachable")
                    [] answer \in {"refused", "malformed"} ->
                         TargetsAfter([kind |-> "source"], "clone_source_cannot_list_clones")
                    [] answer = "listed" ->
                         [e \in Envs |-> IF e = source THEN [kind |-> "source"]
                                         ELSE Truth(CloneRow(clones[e], truncated), clones[e])]
            IN  WriteInOrder("last_clone", source, written)
  /\ UNCHANGED <<tick, avail, group, inventories, hour>>

\* One collector over all Environments, gated like those of the groups.
CollectScan ==
  /\ pc = "scan"
  /\ pc' = "publish"
  /\ \E failed \in SUBSET Envs, verdict \in [Envs -> Probed] :
       WriteSome("scan",
         [e \in Envs |-> IF RecentReachability(e) \in Gates
                         THEN SkippedFor(RecentReachability(e)) ELSE verdict[e]], failed)
  /\ UNCHANGED <<tick, avail, group, inventories, hour>>

\* Mutant: the slow Signals run on the thread of the collector itself.
SlowPanicsOut ==
  /\ pc \in {"drift", "last_clone", "scan"}
  /\ Fault
  /\ pc' = "ended"
  /\ UNCHANGED <<tick, avail, rows, group, inventories, unsent, hour>>

\* They run on a thread of their own, joined, so that a panic ends them only.
SlowPanics ==
  /\ pc \in {"drift", "last_clone", "scan"}
  /\ Fault
  /\ pc' = "publish"
  /\ UNCHANGED <<tick, avail, rows, group, inventories, unsent, hour>>

-----------------------------------------------------------------------------
(* The publish sends every Environment in order, with its samples and its  *)
(* roll-up of the current hour, and ends at the first statement that fails.*)

\* Mutant: roll-ups ride the slow cadence.
PublishRollsSlowly ==
  /\ pc = "publish"
  /\ pc' = "idle"
  /\ unsent' = {}
  /\ rolled' = IF slowTick THEN sampled ELSE rolled
  /\ rows' = NoRows
  /\ UNCHANGED <<tick, avail, group, inventories, sampled, faults>>

\* Mutant: only Environments that answered are published.
PublishReachable ==
  /\ pc = "publish"
  /\ pc' = "idle"
  /\ unsent' = {e \in unsent : RecentReachability(e) \in Gates}
  /\ rolled' = sampled
  /\ rows' = NoRows
  /\ UNCHANGED <<tick, avail, group, inventories, sampled, faults>>

Publish ==
  /\ pc = "publish"
  /\ pc' = "idle"
  /\ \E sent \in Beginnings(NoSource) :
       /\ IF sent = Envs THEN UNCHANGED faults ELSE Fault
       /\ unsent' = unsent \ sent
       /\ rolled' = IF Head1 \in sent THEN sampled ELSE rolled
  /\ rows' = NoRows
  /\ UNCHANGED <<tick, avail, group, inventories, sampled>>

-----------------------------------------------------------------------------
(* The world outside.                                                      *)

Elapse ==
  /\ avail' = [e \in Envs |->
       IF avail[e] = Nothing THEN Nothing ELSE [avail[e] EXCEPT !.age = Older(@, Window)]]
  /\ inventories' = [e \in Envs |->
       IF inventories[e] = Nothing THEN Nothing
       ELSE [inventories[e] EXCEPT !.age = Older(@, Refresh), !.read = Older(@, Refresh)]]
  /\ UNCHANGED <<tick, rows, group, pc, unsent, hour, faults>>

\* Mutant: the bucket of the hour before is carried on.
HourTurnsKeeping ==
  /\ sampled' = 0 /\ UNCHANGED rolled
  /\ UNCHANGED <<tick, avail, rows, group, inventories, pc, unsent, faults>>

HourTurns ==
  /\ sampled' = 0 /\ rolled' = 0
  /\ UNCHANGED <<tick, avail, rows, group, inventories, pc, unsent, faults>>

\* The daemon ends anywhere and starts again: the database stays.
Restart ==
  /\ Fault
  /\ pc' = "publish" /\ phase' = 0 /\ slowTick' = FALSE
  /\ group' = [e \in Envs |-> Done]
  /\ rows' = NoRows
  /\ inventories' = [e \in Envs |-> Nothing]
  /\ UNCHANGED <<source, avail, unsent, hour>>

Collector ==
  \/ StartTick \/ JoinGroups \/ CollectDrift \/ CollectLastClone \/ CollectScan
  \/ Publish
Thread(e) == ProbeAvailability(e) \/ CollectEnvironment(e)

Next ==
  \/ Collector
  \/ \E e \in Envs : Thread(e) \/ GroupPanics(e)
  \/ SlowPanics \/ Elapse \/ HourTurns \/ Restart

\* Every request has a time limit, so that each thread goes on, and the
\* fairness of StartTick takes it that a route to the Environments returns.
Spec ==
  /\ Init /\ [][Next]_vars
  /\ WF_vars(Collector) /\ \A e \in Envs : WF_vars(Thread(e))

-----------------------------------------------------------------------------
(* Properties                                                              *)

Gated == Signals \ {"last_clone"}

\* Whatever else happens in a round, a Signal of an Environment that was
\* found asleep or unreachable in it is skipped and never probed, also by
\* the slow Signals that run after every group has joined, and one that was
\* found reachable is not skipped by its own gate: as long as Availability's
\* row is within the reuse window (recent_reachability in three collectors).
SleepersAreLeftAlone ==
  \A e \in Envs, s \in Gated :
    rows[e][s] # Nothing /\ avail[e] # Nothing /\ avail[e].round /\ avail[e].age <= Window =>
      IF avail[e].reach \in Gates THEN rows[e][s].kind = "skipped"
      ELSE s # "drift" => rows[e][s].kind # "skipped"

\* A Signal is skipped only for what the Availability row of its Environment
\* still says, and a row of an earlier round stands for this round's only
\* after a fault, a failed write or a panic: without one, a recovery or a
\* sleep found in a round reaches every gate of that round (recent_reachability
\* takes any row of the last REACHABILITY_REUSE_SECS).
OldRowsNeedAFault ==
  \A e \in Envs, s \in Gated :
    rows[e][s] # Nothing /\ rows[e][s].kind = "skipped" /\ rows[e][s].why \in Gates =>
      /\ avail[e] # Nothing /\ avail[e].reach = rows[e][s].why
      /\ avail[e].round \/ faults > 0

\* The same without the window, as drift.rs and availability.rs put it: an
\* Environment found asleep in a round is not probed by the slow Signals of
\* that round, though the group of another Environment may have run longer
\* than the window in between.
SleepersAreNeverProbed ==
  \A e \in Envs, s \in {"drift", "scan"} :
    rows[e][s] # Nothing /\ avail[e] # Nothing /\ avail[e].round /\ avail[e].reach \in Gates =>
      rows[e][s].kind = "skipped"

\* Without a fault, every slow Signal leaves every Environment a row of the
\* round, whichever branch drift and last_clone took: no clone
\* source, one that sleeps, refuses, fails or answers (skip_targets and
\* persist_all_skipped exist so that no card waits forever).
EveryCardAnswers ==
  faults = 0 =>
    \A e \in Envs :
      /\ pc = "last_clone" => rows[e]["drift"] # Nothing
      /\ pc = "scan" => rows[e]["last_clone"] # Nothing
      /\ pc = "publish" /\ slowTick => rows[e]["scan"] # Nothing

\* A panic or a failed write in the group of one Environment costs no other
\* Environment its rows of the round: one thread per group, joined one by one.
GroupsAreIndependent ==
  pc = "drift" =>
    Cardinality({e \in Envs : \E s \in Range(GroupSignals) : rows[e][s] = Nothing}) <= faults

\* "Never cloned" is said of a target only when the source holds no completed
\* clone of it, on whatever page (persist_clone_target's older_than_page).
NeverIsCertain ==
  \A e \in Envs :
    rows[e]["last_clone"] # Nothing /\ rows[e]["last_clone"].kind = "never" =>
      rows[e]["last_clone"].place = "none"

\* Two inventories are compared only while both were read within the refresh
\* interval, however often a round reuses them (DriftCollector::env_inventory).
InventoriesAreFresh ==
  \A e \in Envs :
    rows[e]["drift"] # Nothing /\ rows[e]["drift"].kind = "compared" =>
      rows[e]["drift"].oldest <= Refresh

\* A roll-up of the current hour lacks the samples of one round at most,
\* and one more for each fault: every publish recounts them (record_hour_rollup).
RollupLagsOneRound == sampled - rolled <= 1 + faults

\* A fault costs one Environment the rows of one round, and the roll-up of the
\* hour one sample (groups and record_hour_rollup).
FaultsCostLittle == GroupsAreIndependent /\ RollupLagsOneRound

\* Every Environment is polled again and again, whatever panicked before (CollectorLoop::run).
RoundsGoOn == \A e \in Envs : []<>(group[e] = 1)

\* Rows a publish did not send, because it failed at an Environment before
\* or the daemon ended, are sent by a later one.
EveryRowIsSent == \A e \in Envs : e \in unsent ~> e \notin unsent

\* The rows of the slow Signals answer for every Environment, say "never" only
\* of what is certain and compare only what is fresh, and every variable has
\* its type (drift.rs, last_clone.rs, the scan of collector.rs).
SlowRowsAreHonest == TypeOK /\ EveryCardAnswers /\ NeverIsCertain /\ InventoriesAreFresh

\* Every Environment is polled again and again, and every row is sent.
RoundsAreDelivered == RoundsGoOn /\ EveryRowIsSent
=============================================================================
