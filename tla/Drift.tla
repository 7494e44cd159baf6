-------------------------------- MODULE Drift --------------------------------
(***************************************************************************)
(* What drift and last_clone make of what they read: the difference of two *)
(* plugin inventories, the clone that belongs to an Environment, and the   *)
(* age of a date.                                                          *)
(*                                                                         *)
(* A row of an inventory has an id and a scope, either of which may be     *)
(* missing (NoId) or empty (Blank); a host name is a sequence of labels,   *)
(* so that "dev.service-now.com" is <<"dev", "domain">>.                   *)
(***************************************************************************)
EXTENDS Integers, SequencesExt

CONSTANTS
  NoId,               \* an id that is missing
  Blank,              \* an id that is empty
  Absent,             \* no record, or no build, on one side
  PluginPage,         \* PLUGIN_PAGE_LIMIT
  MismatchListLimit   \* MISMATCH_LIST_LIMIT

ASSUME DriftAssumption == PluginPage \in Nat \ {0} /\ MismatchListLimit \in Nat

-----------------------------------------------------------------------------
(* Inventories                                                             *)

\* The scope stands for an id that is missing, not for one that is empty.
PluginId(row) ==
  LET given == IF row.id # NoId THEN row.id ELSE row.scope
  IN  IF given = Blank THEN NoId ELSE given

\* A row without an id is skipped.
PluginRecord(row) == [id |-> PluginId(row), version |-> row.version, active |-> row.active]

PluginRecords(rows) ==
  FlattenSeq([i \in DOMAIN rows |->
                IF PluginId(rows[i]) = NoId THEN <<>> ELSE <<PluginRecord(rows[i])>>])

\* A page with unusable rows is still a full page; `total` is X-Total-Count.
PageTruncated(rows, total) == Len(rows) >= PluginPage \/ total > Len(rows)

\* Mutant: the first record of an id stays.
FirstById(records) ==
  [id \in {records[i].id : i \in DOMAIN records} |->
     records[Min({i \in DOMAIN records : records[i].id = id})]]

\* Plugins and then store apps.  Collected by id: the last record of an id stays.
LastById(records) ==
  [id \in {records[i].id : i \in DOMAIN records} |->
     records[Max({i \in DOMAIN records : records[i].id = id})]]

MismatchVersion(byId, id) ==
  IF id \in DOMAIN byId THEN <<byId[id].version, byId[id].active>> ELSE Absent

\* Mutant: what only the other side has goes unnoticed.
DiffPluginInventoryOneSided(source, other) ==
  LET here == LastById(source)  there == LastById(other)
  IN  {[id |-> id, source |-> MismatchVersion(here, id), other |-> MismatchVersion(there, id)] :
         id \in {i \in DOMAIN here : MismatchVersion(here, i) # MismatchVersion(there, i)}}

DiffPluginInventory(source, other) ==
  LET here == LastById(source)  there == LastById(other)
  IN  {[id |-> id, source |-> MismatchVersion(here, id), other |-> MismatchVersion(there, id)] :
         id \in {i \in DOMAIN here \cup DOMAIN there :
                   MismatchVersion(here, i) # MismatchVersion(there, i)}}

UnexpectedMismatches(mismatches, expected) == {m \in mismatches : m.id \notin expected}

\* An unknown build is neither a mismatch nor agreement.
BuildMatches(source, other) ==
  IF Absent \in {source, other} THEN "unknown" ELSE IF source = other THEN "same" ELSE "different"

\* Mutant: a build that could not be read is a different one.
BuildMatchesStrict(source, other) == IF source = other THEN "same" ELSE "different"

DriftState(buildMatches, mismatches, degradedAt) ==
  IF buildMatches # "different" /\ mismatches < degradedAt THEN "healthy" ELSE "degraded"

\* One comparison, as it is kept.
DriftCompare(c) ==
  LET full       == DiffPluginInventory(PluginRecords(c.source.rows), PluginRecords(c.other.rows))
      unexpected == Cardinality(UnexpectedMismatches(full, c.expected))
      matches    == BuildMatches(c.source.build, c.other.build)
  IN  [state      |-> DriftState(matches, unexpected, c.degradedAt),
       mismatches |-> unexpected,
       expected   |-> Cardinality(full) - unexpected,
       matches    |-> matches,
       truncated  |-> PageTruncated(c.source.rows, c.source.total)
                        \/ PageTruncated(c.other.rows, c.other.total),
       listed     |-> IF Cardinality(full) < MismatchListLimit THEN Cardinality(full)
                      ELSE MismatchListLimit,
       listTruncated |-> Cardinality(full) > MismatchListLimit]

-----------------------------------------------------------------------------
(* Clones                                                                  *)

\* A target is an instance name or a full host name, the Environment's URL
\* has either, and its id counts too.
TargetMatches(target, environment) ==
  /\ target # <<>>
  /\ \E candidate \in {environment.host, <<environment.host[1]>>, <<environment.id>>} :
       candidate = target \/ candidate = <<target[1]>>

\* Mutant: a later row replaces an earlier one of its target.
OldestPerTarget(rows) ==
  FlattenSeq([i \in DOMAIN rows |->
                IF \E j \in i + 1 .. Len(rows) : rows[j].target = rows[i].target
                THEN <<>> ELSE <<rows[i]>>])

\* Rows come newest first: of each target the first is kept.
NewestPerTarget(rows) ==
  FlattenSeq([i \in DOMAIN rows |->
                IF \E j \in 1 .. i - 1 : rows[j].target = rows[i].target
                THEN <<>> ELSE <<rows[i]>>])

\* Rows without a target or a date are skipped.
Dated(rows) ==
  FlattenSeq([i \in DOMAIN rows |->
                IF rows[i].target = <<>> \/ rows[i].completed = Absent THEN <<>> ELSE <<rows[i]>>])

ParseLastClones(rows) == NewestPerTarget(Dated(rows))

\* The first kept row that matches is the clone of the Environment.
CloneOf(rows, environment) ==
  LET kept == ParseLastClones(rows)
      matching == {i \in DOMAIN kept : TargetMatches(kept[i].target, environment)}
  IN  IF matching = {} THEN Absent ELSE kept[Min(matching)].completed

-----------------------------------------------------------------------------
(* Dates                                                                   *)

LeapYear(year) == year % 4 = 0 /\ (year % 100 # 0 \/ year % 400 = 0)

DaysInMonth(year, month) ==
  CASE month \in {1, 3, 5, 7, 8, 10, 12} -> 31
    [] month \in {4, 6, 9, 11}           -> 30
    [] month = 2                         -> IF LeapYear(year) THEN 29 ELSE 28

RealDate(d) == d.month \in 1 .. 12 /\ d.day \in 1 .. DaysInMonth(d.year, d.month)

\* Mutant: centuries are leap years like any fourth year.
DaysFromCivilJulian(d) ==
  LET y   == IF d.month <= 2 THEN d.year - 1 ELSE d.year
      doy == (153 * (d.month + (IF d.month > 2 THEN -3 ELSE 9)) + 2) \div 5 + d.day - 1
  IN  y * 365 + y \div 4 + doy - 719468

\* Days since 1970-01-01; the year starts in March.
DaysFromCivil(d) ==
  LET y   == IF d.month <= 2 THEN d.year - 1 ELSE d.year
      era == y \div 400
      yoe == y - era * 400
      doy == (153 * (d.month + (IF d.month > 2 THEN -3 ELSE 9)) + 2) \div 5 + d.day - 1
      doe == yoe * 365 + yoe \div 4 - yoe \div 100 + doy
  IN  era * 146097 + doe - 719468

\* Whole days from a date to a day, never negative; Absent for no real date.
AgeDays(d, today) ==
  IF ~RealDate(d) THEN Absent
  ELSE IF today > DaysFromCivil(d) THEN today - DaysFromCivil(d) ELSE 0
=============================================================================
