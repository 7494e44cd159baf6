------------------------------ MODULE MCDashboard ------------------------------
(* Dashboards of two ServiceNow Environments and one of another platform.   *)
EXTENDS DashboardRules

CONSTANTS b1, b2

MCSignalIds ==
  [servicenow |-> <<"availability", "jobs", "syslog", "mid_ecc", "flow", "sessions", "drift", "last_clone">>,
   http       |-> <<"http_probe">>]

Obj(state, payload) == [state |-> state, payload |-> payload]

Reached(state, reach, build) ==
  [availability |-> Obj(state, [reachability |-> reach, rtt_ms |-> 1, build |-> build])]

AvailabilityRows ==
  {Reached("healthy", "reachable", b) : b \in {b1, b2, Null}}
  \cup {Reached("healthy", "asleep", Null), Reached("degraded", "reachable", b1),
        [availability |-> Obj("down", [reachability |-> "unreachable", error |-> "timeout"])]}

Failed == [reachability |-> "unreachable", detail |-> "HTTP 503"]

OtherRows ==
  {<<>>,
   [jobs |-> Obj("degraded", [overdue_ready |-> 3, error |-> 0])],
   [jobs |-> Obj("healthy", [overdue_ready |-> 0, error |-> 0]),
    syslog |-> Obj("down", Failed), last_clone |-> Obj("down", Failed)],
   [mid_ecc |-> Obj("degraded", [agents_total |-> 0, ecc_output_ready |-> 9])],
   [drift |-> Obj("healthy", [role |-> "source"])],
   [drift |-> Obj("degraded", [role |-> "other", mismatches |-> 2])],
   [drift |-> Obj("healthy", [role |-> "other", mismatches |-> 0, build_matches |-> FALSE])],
   [last_clone |-> Obj("degraded", [completed |-> Null])],
   [jobs |-> Obj("skipped", [skipped |-> "asleep"]), syslog |-> Obj("healthy", Null)]}

Merge(f, g) == [s \in DOMAIN f \cup DOMAIN g |-> IF s \in DOMAIN f THEN f[s] ELSE g[s]]

HttpRows == {[http_probe |-> Obj("healthy", [rtt_ms |-> 5, http_status |-> 200])],
             [http_probe |-> Obj("down", Failed)]}

Summary(id, platform, rows, observed) ==
  [id |-> id, platform |-> platform, observed |-> observed, url |-> TRUE, cadence |-> 1,
   health |-> DaemonHealth(rows)]

Blank0 == [connected |-> TRUE, environments |-> <<>>, selected |-> NoOne, snapshots |-> <<>>,
           samples |-> <<>>, rollups |-> <<>>, healthEvents |-> <<>>, signalEvents |-> <<>>,
           mutes |-> <<>>]

DashboardInputs ==
  \/ \E a, x \in AvailabilityRows, b, y \in OtherRows :
       \E w \in {[o |-> 5, c |-> TRUE, m |-> 0], [o |-> Never, c |-> TRUE, m |-> 0],
                 [o |-> 5, c |-> FALSE, m |-> 0], [o |-> 5, c |-> TRUE, m |-> 7]} :
         LET dev == Merge(a, b)  prod == Merge(x, y) IN
         input = [kind |-> "dashboard", now |-> 6,
                  d |-> [Blank0 EXCEPT
                    !.connected = w.c, !.selected = "dev",
                    !.environments = <<Summary("dev", "servicenow", dev, w.o),
                                       Summary("prod", "servicenow", prod, 5)>>,
                    !.snapshots = [dev |-> dev, prod |-> prod],
                    !.mutes = IF w.m = 0 THEN <<>> ELSE [dev |-> w.m],
                    !.healthEvents = [dev |-> <<[kind |-> "build", build |-> b1, at |-> 1],
                                                [kind |-> "build", build |-> b2, at |-> 4]>>]]]
  \/ \E h \in HttpRows, o \in OtherRows, m \in {6, 7} :
       input = [kind |-> "dashboard", now |-> 6,
                d |-> [Blank0 EXCEPT
                  !.selected = "site", !.mutes = [site |-> m],
                  !.environments = <<Summary("new", "servicenow", <<>>, Never),
                                     Summary("site", "http", h, 5),
                                     Summary("dev", "servicenow", o, 5)>>,
                  !.snapshots = [site |-> h, dev |-> o]]]

Skips == {[skipped |-> r] : r \in {"asleep", "no_clone_source", "other"}}

CardInputs ==
  \E s \in KnownSignals :
    \E p \in {Null, Failed} \cup Skips
         \cup (IF s = "availability" THEN {[reachability |-> "unreachable", error |-> "timeout"],
                                           [reachability |-> "reachable", rtt_ms |-> 3]} ELSE {})
         \cup (IF s = "drift" THEN {[mismatches |-> 0], [mismatches |-> 2, truncated |-> TRUE],
                                    [role |-> "source"]} ELSE {})
         \cup (IF s = "last_clone" THEN {[completed |-> Null], [age_days |-> 3, completed |-> "d"],
                                         [role |-> "source", supported |-> FALSE]} ELSE {})
         \cup (IF s \in PlainCount \cup {"jobs"} THEN {[count |-> 0], [count |-> 2, throttled |-> TRUE]} ELSE {}) :
      input = [kind |-> "card", signal |-> s, payload |-> p]

TrendInputs ==
  \E n \in 0 .. 5 : \E steps \in [1 .. n -> {1, 3}], values \in [1 .. n -> {Null, 1, 2}] :
    LET at[i \in 0 .. n] == IF i = 0 THEN 0 ELSE at[i - 1] + steps[i]
    IN  input = [kind |-> "trend", points |-> [i \in 1 .. n |-> [at |-> at[i], value |-> values[i]]]]

\* The members of a set of small numbers, in order.
Listed(S) == SelectSeq([i \in 1 .. 10 |-> i - 1], LAMBDA i : i \in S)

WeekInputs ==
  \E hours \in SUBSET (0 .. 9), v \in {0, 1}, s \in {"jobs", "flow"} :
    input = [kind |-> "weeks", signal |-> s, now |-> 9,
             d |-> [Blank0 EXCEPT !.selected = "dev",
               !.rollups = (<<"dev", s>> :> LET q == Listed(hours) IN [i \in DOMAIN q |-> [at |-> q[i], value |-> v]])]]

RowLists == {<<>>, <<[id |-> 1]>>, <<[id |-> 1], [id |-> 2]>>, <<[id |-> Null], [id |-> 2], [id |-> 3]>>,
             <<[page |-> Null], [page |-> 2], [page |-> 3]>>}

DrillInputs ==
  \E s \in {"jobs", "flow", "drift", "syslog", "actions", "table_growth", "last_clone"}, q, r \in RowLists, t, u \in BOOLEAN,
     w \in {DayWindow, 9} :
    LET p == CASE s = "jobs" -> [overdue_rows |-> q, error_rows |-> r, overdue_rows_truncated |-> t]
               [] s = "table_growth" -> [tables |-> <<[table |-> 1, count |-> 2], [table |-> 2, count |-> Null]>>]
               [] s = "last_clone" -> [completed |-> IF t THEN "d" ELSE Null]
               [] OTHER -> [rows |-> q, rows_truncated |-> t]
    IN  input = [kind |-> "drill", signal |-> s, window |-> w, now |-> 9,
                 d |-> [Blank0 EXCEPT !.selected = "dev",
                   !.environments = <<[Summary("dev", "servicenow", <<>>, 1) EXCEPT !.url = u]>>,
                   !.samples = (<<"dev", "jobs">> :> <<[at |-> 1, value |-> 1], [at |-> 2, value |-> 2]>>),
                   !.snapshots = [dev |-> (s :> Obj("degraded", p))]]]

TimelineInputs ==
  \E x \in SUBSET (1 .. 4), y \in SUBSET (5 .. 7), m \in SUBSET (1 .. 7), l \in 0 .. 3 :
    LET events(S) == LET q == Listed(S) IN [i \in DOMAIN q |-> [at |-> 3 * q[i] % 8, kind |-> "health"]]
    IN  input = [kind |-> "timeline", limit |-> l, matching |-> m,
                 d |-> [Blank0 EXCEPT !.selected = "dev",
                        !.healthEvents = [dev |-> events(x)], !.signalEvents = [dev |-> events(y)]]]

WindowInputs ==
  \/ DashboardInputs \/ CardInputs \/ TrendInputs \/ WeekInputs \/ DrillInputs \/ TimelineInputs

WindowJudges == LookAt \/ ReadCard \/ DrawLine \/ CompareWeeks \/ OpenCard \/ ReadTimeline
=============================================================================
