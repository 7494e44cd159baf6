----------------------------- MODULE DriftRules -----------------------------
(***************************************************************************)
(* One comparison with the clone source, one search for an Environment's   *)
(* clone, and one dating of it.                                            *)
(***************************************************************************)
EXTENDS Drift, ProbeRules

Compare   == Judge("drift", DriftCompare(input))
FindClone == Judge("clone", CloneOf(input.rows, input.environment))
DateClone == Judge("date", AgeDays(input.date, input.today))

-----------------------------------------------------------------------------
\* The verdict rests on what the two Environments hold: which of them is the
\* source does not matter, what only one of them has is always counted, Planned
\* drift included, and an unread build alone never degrades
\* (diff_plugin_inventory, unexpected_mismatches, drift_state).
DriftIsSymmetric ==
  Judged("drift") =>
    LET turned == DriftCompare([input EXCEPT !.source = input.other, !.other = input.source])
        ids(side) == {PluginId(r) : r \in Range(side.rows)} \ {NoId}
        once(side) == \A i, j \in DOMAIN side.rows :
                        i # j => PluginId(side.rows[i]) # PluginId(side.rows[j])
    IN  /\ <<result.state, result.mismatches, result.expected>>
             = <<turned.state, turned.mismatches, turned.expected>>
        /\ once(input.source) /\ once(input.other) =>
             result.mismatches + result.expected
               >= Cardinality(ids(input.source) \ ids(input.other))
                    + Cardinality(ids(input.other) \ ids(input.source))
        /\ Absent \in {input.source.build, input.other.build} /\ result.mismatches < input.degradedAt
             => result.state = "healthy"

\* A plugin and a store app with one id are the store app, which is read last:
\* an Environment that has both agrees with one that has only the app.
LastRecordCounts ==
  Judged("drift") =>
    LET last(side, r) == r \in Range(side.rows)
                          /\ \E i \in DOMAIN side.rows :
                               /\ side.rows[i] = r
                               /\ \A j \in i + 1 .. Len(side.rows) :
                                    PluginId(side.rows[j]) # PluginId(r)
        visible(side) == {<<PluginId(r), r.version, r.active>> :
                            r \in {x \in Range(side.rows) : PluginId(x) # NoId /\ last(side, x)}}
    IN  (result.mismatches + result.expected = 0)
          <=> visible(input.source) = visible(input.other)

\* The clone shown for an Environment is the newest of those the source lists
\* under any of its names: a short name and a host name for the same instance
\* are two targets to parse_last_clones, and the first found wins.
NewestCloneIsShown ==
  Judged("clone") =>
    LET mine == {i \in DOMAIN input.rows :
                   /\ TargetMatches(input.rows[i].target, input.environment)
                   /\ input.rows[i].completed # Absent}
    IN  result = IF mine = {} THEN Absent ELSE input.rows[Min(mine)].completed

\* The age counts calendar days: a day later is one day older, over month ends,
\* leap days and centuries (days_from_civil), and no impossible date has an age.
AgeCountsDays ==
  Judged("date") =>
    LET d == input.date
        next == CASE d.day < DaysInMonth(d.year, d.month) -> [d EXCEPT !.day = @ + 1]
                  [] d.day >= DaysInMonth(d.year, d.month) /\ d.month < 12 ->
                       [d EXCEPT !.day = 1, !.month = @ + 1]
                  [] d.day >= DaysInMonth(d.year, d.month) /\ d.month = 12 ->
                       [year |-> d.year + 1, month |-> 1, day |-> 1]
    IN  IF ~RealDate(d) THEN result = Absent
        ELSE /\ result \in Nat
             /\ result > 0 => AgeDays(next, input.today) = result - 1
             /\ d = [year |-> 1970, month |-> 1, day |-> 1] => result = input.today

\* What two Environments differ in, and how old a clone is, is counted exactly.
ComparisonsAreExact ==
  DriftIsSymmetric /\ LastRecordCounts /\ NewestCloneIsShown /\ AgeCountsDays

\* What a probe measures and two inventories are compared to is what the
\* platform holds, and what could not be read is said so: probes, drift and
\* the last clone.
MeasuresAreHonest == ProbesAreHonest /\ ComparisonsAreExact
=============================================================================
