------------------------------- MODULE MCRules -------------------------------
(* The pure parts of the system, judged on every input of small sets.       *)
EXTENDS ProbeRules, DriftRules, EdgeRules, ScreenRules, StateStore, MCDashboard, TLC

CONSTANTS t1, t2, d1, d2, c1

(* The inputs of EdgeRules, ScreenRules and StateStore. *)

Word(w) == [word |-> w, arg |-> NoValue]
With(w, v) == [word |-> w, arg |-> v]

AllArguments ==
  {Word(w) : w \in {"doctor", "digest", "setup", "rotate-credential", "webhook-requeue", "diagnostics",
                    "--clone-source", "--no-probe", "--fix", "--env", "--help", "--bogus"}}
  \union {With(w, "x") : w \in {"--env", "--id", "--url", "--secret-file", "--out", "--credential-file",
                                "--credential-store", "--platform", "--allow-origin"}}
  \union {With("--env", Empty), With("--allow-origin", Empty), With("--credential-store", "file"),
          With("--days", 3), With("--days", 0), With("--days", NotANumber)}

LongLine ==
  <<Word("rotate-credential"), Word("setup"), With("--id", "x"), With("--url", "x"),
    With("--secret-file", "x"), With("--env", "x"), Word("--no-probe"), Word("webhook-requeue"),
    With("--days", 3)>>

LineInputs ==
  \E s \in {"key", Empty}, v \in {"file", NoValue} :
    \/ \E l \in UNION {[1 .. n -> AllArguments] : n \in 0 .. 2} :
         input = [kind |-> "line", line |-> l, secret |-> s, variable |-> v]
    \/ \E l \in [1 .. 3 -> AllArguments] :
         input = [kind |-> "line", line |-> l, secret |-> "key", variable |-> NoValue]
    \/ \E T \in SUBSET Range(LongLine) :
         /\ Cardinality(T) \in 4 .. 5
         /\ input = [kind |-> "line", line |-> SelectSeq(LongLine, LAMBDA a : a \in T),
                     secret |-> s, variable |-> v]

StartupInputs ==
  \E t \in {NoValue, Empty, "token"}, h \in SUBSET {"DAKU_HOME", "HOME"},
     r \in SUBSET {"inside", "outside"}, a \in {"inside", "outside", NoValue},
     allow, db, st, b \in BOOLEAN, list \in {"missing", "some"} :
    input = [kind |-> "startup",
             world |-> [token |-> t, homes |-> h, resolved |-> r, address |-> a, allow |-> allow,
                        database |-> db, settings |-> st, blob |-> b, list |-> list]]

HealthInputs ==
  \E S \in SUBSET {"availability", "jobs", "http_probe"} :
    \E rows \in [S -> [state : SignalStates, reach : Reachabilities, build : {NoBuild}]] :
      input = [kind |-> "rows", rows |-> rows]

Log(n, kinds, name) ==
  {[i \in 1 .. n |-> [at |-> t[i], kind |-> k[i], log |-> name, place |-> i]] :
     t \in {u \in [1 .. n -> 1 .. 3] : \A i, j \in 1 .. n : i < j => u[i] <= u[j]}, k \in [1 .. n -> kinds]}

EventInputs ==
  \E n \in 0 .. 3, m \in 0 .. 3, asked \in 0 .. 4, days \in 1 .. 3 :
    \E h \in Log(n, {"health", "build"}, "health"), s \in Log(m, {"signal"}, "signal") :
      input = [kind |-> "events", health |-> h, signal |-> s, asked |-> asked, now |-> 4, days |-> days]

SignalLists ==
  [jobs |-> {"overdue_rows", "error_rows"}, syslog |-> {"error_rows"},
   mid_ecc |-> {"agents_unhealthy_list"}, outbound |-> {"failure_rows"}, flow |-> {"error_rows"},
   email |-> {"error_rows"}, upgrade |-> {"upgrades"}, sessions |-> {"session_rows"},
   update_sets |-> {"open_rows"}, scan |-> {"finding_rows"}, drift |-> {"mismatch_list"},
   actions |-> {"run_rows"}, slow_txn |-> {"slow_rows"}]

Named(n) == UNION {[1 .. k -> {"row", Nobody}] : k \in 0 .. n}

ListInputsShown ==
  \E s \in DOMAIN SignalLists : \E l \in [SignalLists[s] -> Named(3)], m \in SUBSET SignalLists[s] :
    input = [kind |-> "list", signal |-> s, lists |-> l, marked |-> m]

Lines ==
  [kind : {"undecodable", "unparsable", "blank", "shapeless"}]
  \union [kind : {"request"}, id : {Nobody, 1, 2}, method : {"tools/list", "bogus"}]
  \union [kind : {"request"}, id : {Nobody, 1}, method : {"tools/call"},
          tool : {"health_get", "environments_list", "bogus"}, environment : {"e", "gone"},
          disk : {"readable", "list unreadable", "store unreadable"}]

\* Of three lines the calls name a listed Environment.
Mixed == {l \in Lines : l.kind = "request" /\ l.method = "tools/call" => l.environment = "e"}

SessionInputs ==
  \/ \E l \in UNION {[1 .. n -> Lines] : n \in 0 .. 2}, list \in {{}, {"e"}} :
       input = [kind |-> "session", lines |-> l, served |-> list]
  \/ \E l \in [1 .. 3 -> Mixed] :
       input = [kind |-> "session", lines |-> l, served |-> {"e"}]

Boxes ==
  LET events == [at : 1 .. 2, kind : {"health", "build"}]
  IN  {b \in [cursor : 0 .. 3, log : SUBSET events, letters : SUBSET events] :
         \A l \in b.letters : l.at <= b.cursor}

BoxInputs == \E b \in Boxes : input = [kind |-> "box", box |-> b]

Diagnosed ==
  [id : {"e"}, platform : {"servicenow", "github"}, credential : {"good", "shape", "missing", "unreadable"},
   reachability : Reachabilities, box : {[cursor |-> 0, log |-> {}, letters |-> {}]}]

DoctorInputs ==
  \/ \E n \in 0 .. 2 : \E l \in [1 .. n -> Diagnosed] :
       input = [kind |-> "doctor", list |-> l, open |-> TRUE, ticks |-> <<>>, interval |-> 2, groups |-> {}]
  \/ \E n \in 0 .. 2, o \in BOOLEAN, G \in SUBSET [id : {"e", "f"}, took : 1 .. 2] :
       \E t \in [1 .. n -> 1 .. 3] :
         input = [kind |-> "doctor", list |-> <<>>, open |-> o, ticks |-> t, interval |-> 2, groups |-> G]

HomeInputs ==
  \E n \in 0 .. 4, cap \in 1 .. 5, newest \in 1 .. 3, text, ended \in BOOLEAN,
     file \in {"absent", "garbled", "list"} :
    \E l \in [1 .. n -> 1 .. 3] :
      input = [kind |-> "home", cap |-> cap, newest |-> newest,
               home |-> [environments |-> file, settings |-> file,
                         log |-> [lines |-> l, text |-> text, ended |-> ended]]]

RoleInputs ==
  \E t, u \in DOMAIN TableChecks, a, b \in {200, 401, 403, 404} :
    input = [kind |-> "roles",
             answers |-> [x \in DOMAIN TableChecks |-> IF x = t THEN a ELSE IF x = u THEN b ELSE 200]]

EdgeInputs ==
  \/ LineInputs \/ StartupInputs \/ HealthInputs \/ EventInputs \/ ListInputsShown
  \/ SessionInputs \/ BoxInputs \/ DoctorInputs \/ HomeInputs \/ RoleInputs

-----------------------------------------------------------------------------
Texts(S, n) == UNION {[1 .. k -> S] : k \in 0 .. n}

SomeUrl == [https |-> TRUE, host |-> "x", userinfo |-> FALSE, query |-> FALSE, path |-> <<>>]

Urls ==
  [https : BOOLEAN, host : {"", "x", "github.com"}, userinfo : BOOLEAN, query : BOOLEAN,
   path : Texts({"", "o", ".git"}, 2)]

Environment(id, order) ==
  [id |-> id, label |-> <<"a">>, url |-> SomeUrl, auth |-> "basic", platform |-> "servicenow",
   cloneSource |-> FALSE, sortOrder |-> order, thresholds |-> ThresholdDefaults, drift |-> <<>>]

Lists ==
  {<<>>, <<Environment(<<"a">>, 0)>>, <<Environment(<<"a">>, 1), Environment(<<"b">>, 1)>>,
   <<Environment(<<"a">>, 0), Environment(<<"b">>, 7)>>}

Sheet(list, touched, sheet) == [kind |-> "sheet", list |-> list, touched |-> touched, sheet |-> sheet]

FilledSheet == [AddSheet EXCEPT !.label = <<"b">>, !.url = SomeUrl]

EditInputs ==
  \/ \E f, g \in DOMAIN ThresholdDefaults, m, n \in {1, U64Max, Unset} :
       LET count(h, k) == IF h \in DOMAIN CountDefaults /\ k = Unset THEN 3 ELSE k
           e == [Environment(<<"a">>, 1) EXCEPT !.thresholds =
                   [ThresholdDefaults EXCEPT ![f] = count(f, m), ![g] = count(g, n)]]
       IN  input = Sheet(<<Environment(<<"b">>, 0), e>>, FALSE, EditSheet(e))
  \/ \E d \in Texts({"p", "q", "p,q", "p q"}, 3), o \in {0, 7}, c \in BOOLEAN :
       LET e == [Environment(<<"a">>, o) EXCEPT !.drift = d, !.cloneSource = c]
       IN  input = Sheet(<<e>>, FALSE, EditSheet(e))

NameInputs ==
  \E l \in Lists, id \in Texts({"a", "b", " ", "."}, 3), label \in Texts({"b", " ", "-"}, 2) :
    input = Sheet(l, TRUE, [FilledSheet EXCEPT !.id = id, !.label = label])

UrlInputs ==
  \E u \in Urls, p \in {"servicenow", "http", "github"}, s \in {FilledSheet, EditSheet(Environment(<<"a">>, 0))} :
    input = Sheet(<<Environment(<<"a">>, 0)>>, TRUE, [s EXCEPT !.url = u, !.platform = p])

SecretInputs ==
  \E x, y \in {"", " ", "x"}, a \in {"oauth", "basic"}, s \in {FilledSheet, EditSheet(Environment(<<"a">>, 0))} :
    input = Sheet(<<Environment(<<"a">>, 0)>>, TRUE, [s EXCEPT !.secrets = <<x, y>>, !.auth = a])

TuningInputs ==
  \E f, g \in DOMAIN ThresholdDefaults, m, n \in {Typed("empty"), Typed("off"), Typed("words"), TypedNumber(7)},
     d \in {<<>>, <<"r", "">>, <<"p q">>} :
    input = Sheet(<<>>, TRUE, [FilledSheet EXCEPT !.thresholds = [@ EXCEPT ![f] = m, ![g] = n], !.drift = d])

LabelInputs ==
  \E l \in Texts({"a", "A", "-", "_", " ", "e'"}, 5) : input = [kind |-> "label", label |-> l]

MainWindow ==
  [pinned |-> NoOne, expanded |-> FALSE, open |-> NoOne, trend |-> DayWindow, palette |-> FALSE,
   local |-> TRUE, flash |-> Null, exported |-> Null]

SomeWindows ==
  {MainWindow, [MainWindow EXCEPT !.expanded = TRUE, !.open = "jobs", !.flash = "copied"],
   [MainWindow EXCEPT !.palette = TRUE, !.open = "drift", !.exported = 1],
   [MainWindow EXCEPT !.palette = TRUE, !.local = FALSE, !.open = "mid_ecc"]}

Detached(id) == {[w EXCEPT !.pinned = id] : w \in SomeWindows}

ShownRows == {Merge(a, b) : a \in AvailabilityRows, b \in OtherRows}

\* Of what a window has received: two Environments of one platform and one of
\* another, standing in any order.
ShownDashboards(dev) ==
  LET es == [dev |-> Summary("dev", "servicenow", dev, 5), new |-> Summary("new", "servicenow", <<>>, Never),
             site |-> [Summary("site", "http", [http_probe |-> Obj("down", Failed)], 5) EXCEPT !.url = FALSE]]
  IN  {[Blank0 EXCEPT !.connected = c, !.selected = s, !.mutes = m,
                      !.environments = [i \in DOMAIN o |-> es[o[i]]],
                      !.snapshots = [dev |-> dev, site |-> [http_probe |-> Obj("down", Failed)]]] :
         c \in BOOLEAN, s \in {"dev", "site"}, m \in {<<>>, [dev |-> 7], [site |-> 6]},
         o \in {<<"dev", "site">>, <<"dev", "new", "site">>, <<"dev", "site", "new">>}}

WindowsShown ==
  \/ \E dev \in ShownRows : \E d \in ShownDashboards(dev) :
       \E w \in SomeWindows \union Detached(d.selected) :
         \E matching \in IF w.palette THEN {Null, {}, {Entry("unmute", d.selected), Entry("reload", NoOne)}} ELSE {Null} :
           input = [kind |-> "window", d |-> d, window |-> w, matching |-> matching, now |-> 6]
  \/ \E dev \in ShownRows : \E d \in ShownDashboards(dev), w \in Detached("gone") :
       input = [kind |-> "window", d |-> d, window |-> w, matching |-> Null, now |-> 6]
  \/ \E w \in SomeWindows \union Detached("gone"), c \in BOOLEAN :
       input = [kind |-> "window", d |-> [Blank0 EXCEPT !.connected = c], window |-> w,
                matching |-> Null, now |-> 6]

OpenGate == [master |-> TRUE, muted |-> FALSE, allowed |-> TRUE, quiet |-> Null, hour |-> 12]

NoticeInputs ==
  \/ \E n \in 0 .. 3, boot \in 1 .. 3, shut \in BOOLEAN :
       \E events \in [1 .. n -> [at : 1 .. 3, kind : {"health", "build"}]] :
         \E seen \in SUBSET ({[at |-> events[i].at, kind |-> events[i].kind] : i \in 1 .. n}
                             \union {[at |-> 2, kind |-> "health"]}) :
           input = [kind |-> "notice", events |-> events, boot |-> boot, seen |-> seen,
                    gate |-> [OpenGate EXCEPT !.muted = shut]]
  \/ \E start, end \in {0, 7, 12, 22, 23, 25}, off, master, allowed \in BOOLEAN, hour \in {0, 6, 7, 12, 22, 23} :
       input = [kind |-> "notice", events |-> <<[at |-> 2, kind |-> "health"]>>, boot |-> 1, seen |-> {},
                gate |-> [OpenGate EXCEPT !.master = master, !.allowed = allowed, !.hour = hour,
                            !.quiet = IF off THEN Null ELSE [start |-> start, end |-> end]]]

ScreenInputs ==
  \/ WindowsShown \/ NoticeInputs \/ input = [kind |-> "desk"]
  \/ EditInputs \/ NameInputs \/ UrlInputs \/ SecretInputs \/ TuningInputs \/ LabelInputs

-----------------------------------------------------------------------------
\* One process has two threads, and the binary of the other may be a later one.
StoreInputs ==
  \E a \in 0 .. 2, k \in [{"daemon", "command"} -> 1 .. 3], n \in {"x", "y"} :
    /\ \E p \in DOMAIN k : k[p] >= a
    /\ input = [kind |-> "store", applied |-> a, known |-> k,
                name |-> [daemon |-> "x", command |-> n],
                process |-> [t \in Threads |-> IF t = c1 THEN "command" ELSE "daemon"]]

-----------------------------------------------------------------------------
(* The inputs of ProbeRules and DriftRules. *)

Tables == {t1, t2}

SeqsUpTo(S, n) == UNION {[1 .. k -> S] : k \in 0 .. n}

BlankRow == [id |-> TRUE, failed |-> FALSE, age |-> 0, open |-> TRUE,
             priority |-> "P2", up |-> TRUE, validated |-> TRUE]

Quiet == Answer("silent", <<>>)

BlankWorld ==
  [kind |-> "probe", signal |-> "none", count |-> Quiet, errorCount |-> Quiet, rows |-> <<>>,
   page |-> Quiet, errorPage |-> Quiet, degradedAt |-> 1, errorAt |-> 1, readyAt |-> 1,
   tables |-> [t \in Tables |-> Quiet], hibernating |-> FALSE, rtt |-> 0, token |-> TRUE]

Counts == {Answer("ok", n) : n \in 0 .. 2}
          \cup {Answer(o, 0) : o \in {"malformed", "silent", "throttled", "denied"}}

\* A page of the rows held, or a failed read of them.
Pages(rows, limit) ==
  {Page("ok", rows, limit)} \cup {Answer(o, <<>>) : o \in {"malformed", "silent", "throttled", "denied"}}

PlainRows == {BlankRow, [BlankRow EXCEPT !.id = FALSE]}
AgentRows == {[BlankRow EXCEPT !.up = u, !.validated = v] : u, v \in BOOLEAN}
AgedRows  == {[BlankRow EXCEPT !.failed = f, !.age = a] : f \in BOOLEAN, a \in {0, 2, NoDate}}
             \cup {[BlankRow EXCEPT !.id = FALSE, !.failed = TRUE]}
OpenRows  == {[BlankRow EXCEPT !.open = o, !.priority = p] : o \in BOOLEAN, p \in {"P1", "P4", "other"}}

CountingInputs ==
  \E s \in Counting \cup {"slow_txn"}, c \in Counts, r \in SeqsUpTo(PlainRows, 3) :
    \E p \in Pages(r, RowListLimit) :
      input = [BlankWorld EXCEPT !.signal = s, !.count = c, !.rows = r, !.page = p]

JobsInputs ==
  \E c, e \in Counts, p, q \in Pages(<<BlankRow>>, RowListLimit), d \in {1, 2}, f \in {1, Off} :
    input = [BlankWorld EXCEPT !.signal = "jobs", !.count = c, !.errorCount = e, !.page = p,
                               !.errorPage = q, !.degradedAt = d, !.errorAt = f]

AgentInputs ==
  \E c, e \in Counts, r \in SeqsUpTo(AgentRows, 3) : \E p \in Pages(r, 9) :
    input = [BlankWorld EXCEPT !.signal = "mid_ecc", !.count = c, !.errorCount = e,
                               !.rows = r, !.page = p]

ListInputs(signals, kinds, limit) ==
  \E s \in signals, r \in SeqsUpTo(kinds, 3), t \in BOOLEAN, d \in {1, 2} :
    \E p \in Pages(r, limit) \cup {Answer(o, <<>>) : o \in {"missing", "bad_table"}} :
      input = [BlankWorld EXCEPT !.signal = s, !.rows = r, !.page = p, !.token = t, !.degradedAt = d]

ReachInputs ==
  \E s \in {"availability", "http_probe"}, p \in Pages(<<BlankRow>>, 1), h \in BOOLEAN,
     r \in 0 .. 2, d \in {1, Off} :
    input = [BlankWorld EXCEPT !.signal = s, !.page = p, !.hibernating = h, !.rtt = r, !.degradedAt = d]

GrowthInputs ==
  \E f \in [Tables -> Counts] : input = [BlankWorld EXCEPT !.signal = "table_growth", !.tables = f]

ProbeInputs ==
  \/ CountingInputs \/ JobsInputs \/ AgentInputs \/ ReachInputs \/ GrowthInputs
  \/ ListInputs({"upgrade", "actions"}, AgedRows, 3)
  \/ ListInputs({"update_sets"}, OpenRows, RowListLimit)
  \/ ListInputs({"sessions"}, PlainRows, SessionsPage)
  \/ ListInputs({"scan"}, OpenRows, 3)

-----------------------------------------------------------------------------
PluginRows ==
  {[id |-> "a", scope |-> NoId, version |-> v, active |-> TRUE] : v \in {1, 2}}
  \cup {[id |-> NoId, scope |-> "a", version |-> 1, active |-> FALSE],
        [id |-> Blank, scope |-> "a", version |-> 1, active |-> TRUE],
        [id |-> "b", scope |-> NoId, version |-> 1, active |-> TRUE],
        [id |-> NoId, scope |-> NoId, version |-> 1, active |-> TRUE]}

DriftInputs ==
  \E r, q \in SeqsUpTo(PluginRows, 2), x \in SUBSET {"a"}, d \in {1, 2},
     b \in {<<1, 1>>, <<1, 2>>, <<1, Absent>>} :
    input = [kind |-> "drift", source |-> [rows |-> r, total |-> Len(r), build |-> b[1]],
             other |-> [rows |-> q, total |-> Len(q), build |-> b[2]], expected |-> x, degradedAt |-> d]

CloneInputs ==
  \E r \in SeqsUpTo({<<>>, <<"dev">>, <<"dev", "domain">>, <<"prod">>, <<"other", "domain">>}, 3),
     h \in {<<"dev", "domain">>, <<"dev">>, <<"other", "domain">>}, u \in 0 .. 3 :
    input = [kind |-> "clone", environment |-> [id |-> "prod", host |-> h],
             rows |-> [i \in DOMAIN r |->
                         [target |-> r[i], completed |-> IF i = u THEN Absent ELSE 10 - i]]]

DateInputs ==
  \E y \in {1900, 1970, 1999, 2000, 2024, 2025, 2100}, m \in 1 .. 12, d \in 1 .. 31, t \in {0, 20000, 60000} :
    input = [kind |-> "date", date |-> [year |-> y, month |-> m, day |-> d], today |-> t]

-----------------------------------------------------------------------------
Init == (ProbeInputs \/ DriftInputs \/ CloneInputs \/ DateInputs \/ WindowInputs
         \/ EdgeInputs \/ ScreenInputs \/ StoreInputs)
        /\ result = Pending

Next == CollectProbe \/ Compare \/ FindClone \/ DateClone \/ WindowJudges \/ EdgeJudges \/ ScreenJudges \/ StoreSteps

Spec == Init /\ [][Next]_<<input, result>>

\* The sessions of the MCP server alone.
Sessions == SessionInputs /\ result = Pending /\ [][Serve]_<<input, result>>

-----------------------------------------------------------------------------
\* What comes in and goes out at the edges is neither lost nor invented: the
\* commands, the reports and the tools judged in EdgeRules, and in ScreenRules
\* the sheet of an Environment and what a window draws, offers and announces.
EdgesHold == EdgesAreExact /\ ScreensAreExact
=============================================================================
