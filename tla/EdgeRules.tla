------------------------------ MODULE EdgeRules ------------------------------
(***************************************************************************)
(* The edges of the system, judged: a command line, a start of the daemon, *)
(* and the reports.                                                        *)
(***************************************************************************)
EXTENDS Commands, Reports, Judged

RunCommand ==
  Judge("line", [parsed |-> Parse(input.line),
                 run    |-> Dispatch(Parse(input.line)),
                 writes |-> CommandWrites(Parse(input.line), input.secret),
                 store  |-> ResolveCredentialStore(Parse(input.line), input.variable)])

StartDaemon ==
  Judge("startup", [steps  |-> Startup(input.world),
                    polls  |-> Collects(input.world.list),
                    writes |-> [c \in WireCommands |-> HandleCommand(input.world, c)]])

ReadHealth ==
  Judge("rows", [reported |-> ReportedHealth(input.rows), shown |-> Decide(input.rows).health])

ReadEvents ==
  Judge("events", [recent |-> EventsRecent(input.health, input.signal, input.asked),
                   digest |-> WeeklyDigest(input.health, <<>>, input.now, input.days),
                   command |-> DigestCommand(input.days), wire |-> GetDigest(input.days)])

ShowRows == Judge("list", RedactedRows(input.signal, input.lists, input.marked))

Serve == Judge("session", RunLines(input.lines, input.served))

Requeue ==
  Judge("box", [before |-> WebhookStatus(input.box), report |-> RequeueReport(input.box),
                after  |-> WebhookStatus(RequeueLetters(input.box)),
                again  |-> {e \in input.box.log : e.at > RequeueLetters(input.box).cursor}])

Diagnose ==
  Judge("doctor", LET rows == [i \in DOMAIN input.list |-> DoctorRow(input.list[i], input.open)]
                  IN  [rows |-> rows, exit |-> DoctorExitCode(rows),
                       ticks |-> TickSummary(input.ticks, input.interval, input.groups, input.open)])

Bundle == Judge("home", WriteDiagnostics(input.home, input.cap, input.newest))

CheckRoles ==
  Judge("roles", LET report == RunRoleCheck(input.answers)
                 IN  [report |-> report, denied |-> DeniedSignals(report)])

EdgeJudges ==
  \/ RunCommand \/ StartDaemon \/ ReadHealth \/ ReadEvents \/ ShowRows \/ Serve \/ Requeue
  \/ Diagnose \/ Bundle \/ CheckRoles

-----------------------------------------------------------------------------
Permuted(line) ==
  {[i \in DOMAIN line |-> line[p[i]]] :
     p \in {q \in [DOMAIN line -> DOMAIN line] : Range(q) = DOMAIN line}}

Words(line) == {a.word : a \in Range(line)}

\* A line means the same in every order, but for a repeated word, a digest
\* with an --env, and a --help; the value of an option is the last the line
\* gave it; and a command that runs has what it needs (Arguments::parse, main).
LinesAreOrderFree ==
  Judged("line") =>
    LET line == input.line
        o == result.parsed
        last(w) == {i \in DOMAIN line : line[i].word = w /\ \A j \in DOMAIN line : line[j].word = w => j <= i}
    IN  /\ (/\ Cardinality(Words(line)) = Len(line)
            /\ ~({"digest", "--env"} \subseteq Words(line))
            /\ "--help" \notin Words(line))
           => \A other \in Permuted(line) : Dispatch(Parse(other)) = result.run
                                            /\ (o.end = "line" => Parse(other) = o)
        /\ o.end = "line" =>
             \A w \in OptionWords : \A i \in last(w) : o.option[w] = line[i].arg
        /\ result.run = "digest" => o.option["--env"] \notin {NoValue, Empty} /\ o.option["--days"] > 0
        /\ result.run = "webhook-requeue" => o.requeueEnv = o.option["--env"]
        /\ result.run # "serve" /\ o.end = "line" => o.commands # {}

\* A line writes the configuration or a credential only by a command that the
\* line names: setup, rotate-credential with a secret, or doctor with --fix.
ReadersWriteNothing ==
  Judged("line") =>
    /\ "environments" \in result.writes => result.parsed.commands \intersect {"setup", "doctor"} # {}
    /\ "credentials" \in result.writes =>
         /\ result.parsed.commands \intersect {"setup", "rotate-credential"} # {}
         /\ input.secret # Empty /\ "--secret-file" \in Words(input.line)

\* Without --allow-non-loopback nothing is served outside the host, and a
\* socket is opened there only for a name that did not resolve to it before;
\* the daemon is ready only when it can serve, with its stores open; and no
\* credential is written for a command that came from outside (main,
\* ensure_bind_request_allowed, save_environment).
ServesInsideOnly ==
  Judged("startup") =>
    LET w == input.world IN
    /\ "serve" \in result.steps => w.address = "inside" \/ w.allow
    /\ "socket" \in result.steps /\ w.address = "outside" /\ ~w.allow => "outside" \notin w.resolved
    /\ "ready" \in result.steps => w.database /\ w.settings /\ "bound" \in result.steps
    /\ "serve" \in result.steps /\ w.address = "outside" =>
         \A c \in WireCommands : "credentials" \notin result.writes[c]

\* The digest and the tools report the health the dashboard shows, but for an
\* Environment without an Availability row whose own probe took it down, which
\* they report as degraded, healthy or waiting (weekly_digest, votes_of against decide).
ReportsAgree ==
  Judged("rows") =>
    \/ result.reported = result.shown
    \/ Availability \notin DOMAIN input.rows /\ result.shown = "down"

\* No event is left out of events_recent that is newer than one it gives, and
\* it is sorted; a digest lists every event of its window that it read, once,
\* oldest first (mcp call_tool, weekly_digest).
EventsAreTheNewest ==
  Judged("events") =>
    LET r == result.recent
        all == Range(input.health) \union Range(input.signal)
        d == result.digest
    IN  /\ \A i, j \in DOMAIN r : i <= j => r[i].at >= r[j].at
        /\ Len(r) = Min({Cardinality(all), Clamp(input.asked, 1, MostEvents)})
        /\ \A e \in all \ Range(r), i \in DOMAIN r : e.at <= r[i].at
        /\ Range(d.transitions) \union Range(d.builds)
             = {e \in Range(Newest(input.health, LogRead)) : e.at >= input.now - input.days}
        /\ \A i, j \in DOMAIN d.transitions : i < j => d.transitions[i].at <= d.transitions[j].at
        /\ result.wire <= LongestDigest

\* A list that does not show every row it counts says so, unless it shows no
\* names by rule, and a marked one stays marked; every list with rows is there,
\* but those of "actions" and "slow_txn", which the table has under names that
\* are no Signal's (redacted_rows, REDACTED_ROW_TABLE).
HiddenRowsAreMarked ==
  Judged("list") =>
    /\ \A l \in result :
         /\ l.truncated \/ Len(l.names) = l.count \/ input.signal \in {"outbound", "email"}
         /\ l.list \in input.marked => l.truncated
         /\ Range(l.names) \subseteq Range(input.lists[l.list]) \ {Nobody}
    /\ input.signal \notin {"actions", "slow_txn"} =>
         {l.list : l \in result} = {n \in DOMAIN input.lists : input.lists[n] # <<>>}

\* Of the lines before the first that is not UTF-8, every request with an id
\* and a method is answered, once and in order, and every line that cannot be
\* parsed gets its error; nothing else is answered, nor any line from that one
\* on.  A list or a store that one call could not read costs that call a
\* result and no later one (run_lines, call_tool).
RequestsAreAnswered ==
  Judged("session") =>
    LET heard  == {i \in DOMAIN input.lines : \A j \in 1 .. i : input.lines[j].kind # "undecodable"}
        asking == SelectSeq(SubSeq(input.lines, 1, Cardinality(heard)), LAMBDA l :
                    l.kind = "unparsable" \/ (l.kind = "request" /\ l.id # Nobody))
    IN  /\ Len(result) = Len(asking)
        /\ \A i \in DOMAIN result :
             LET l == asking[i] IN
             /\ result[i].id = IF l.kind = "unparsable" THEN Nobody ELSE l.id
             /\ result[i].body = "-32700" <=> l.kind = "unparsable"
             /\ l.kind = "request" /\ l.method = "tools/call" /\ l.disk = "readable" =>
                  (result[i].body = "result" <=>
                     l.tool = "environments_list" \/ (l.tool \in Tools /\ l.environment \in input.served))

\* "A bad stdin line is a -32700 reply, never a panic" (run_lines' comment):
\* as many such replies as there are lines that cannot be decoded or parsed.
BadLinesAreAnswered ==
  Judged("session") =>
    Cardinality({i \in DOMAIN result : result[i].body = "-32700"})
      = Cardinality({i \in DOMAIN input.lines : input.lines[i].kind \in {"unparsable", "undecodable"}})

\* After a requeue no letter is left, and every letter whose event is still
\* in the log is pending again (webhook-status after webhook-requeue).
RequeueLosesNothing ==
  Judged("box") =>
    /\ result.after.dead = 0
    /\ \A l \in input.box.letters : l \in input.box.log => l \in result.again
    /\ result.report.cleared - result.report.missing <= result.after.pending
    /\ input.box.letters = {} => result.after = result.before

\* doctor succeeds exactly if every Environment has a credential and none is
\* unreachable; asleep is no failure, and neither is a store that does not
\* open or a tick that overran (doctor_exit_code, run_doctor).
SleepIsNoFailure ==
  Judged("doctor") =>
    /\ result.exit = 0 <=>
         \A i \in DOMAIN input.list :
           /\ input.list[i].credential \in {"good", "shape"}
           /\ input.list[i].reachability \in {"reachable", "asleep"}
    /\ result.ticks.overruns <= result.ticks.count
    /\ result.ticks.slowest # Nobody => \A g \in input.groups : g.took <= result.ticks.slowest.took

\* The tail of the log is its last lines, in order and whole, and as many as
\* fit but one at most; only a single line longer than the cap is cut
\* (log_tail).
TailIsWhole ==
  Judged("home") =>
    LET log  == input.home.log
        tail == result[3].holds
        fit  == {k \in 0 .. Len(log.lines) :
                   k <= input.newest /\ Bytes(Newest(log.lines, k)) <= input.cap}
    IN  /\ \A i \in DOMAIN tail : tail[i].line = Len(log.lines) - Len(tail) + i
        /\ \A i \in DOMAIN tail : tail[i].whole \/ log.lines[tail[i].line] > input.cap
        /\ log.text => Len(tail) >= Max(fit) - 1

\* Every Signal of ServiceNow depends on a table that is checked, so one whose
\* table is denied is named (TABLE_CHECKS against signals_for).
DeniedTablesAreNamed ==
  Judged("roles") =>
    /\ UNION Range(TableChecks)
         = {"availability", "jobs", "syslog", "mid_ecc", "outbound", "flow", "email", "upgrade",
            "sessions", "table_growth", "slow_txn", "update_sets", "drift", "last_clone", "scan"}
    /\ \A t \in DOMAIN result.report :
         result.report[t] = "denied" <=> input.answers[t] \in {401, 403}

EdgesAreExact ==
  /\ LinesAreOrderFree /\ ReadersWriteNothing /\ ServesInsideOnly
  /\ ReportsAgree /\ EventsAreTheNewest /\ HiddenRowsAreMarked /\ RequestsAreAnswered
  /\ RequeueLosesNothing /\ SleepIsNoFailure /\ TailIsWhole /\ DeniedTablesAreNamed
=============================================================================
