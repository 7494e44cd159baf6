------------------------------- MODULE Reports -------------------------------
(***************************************************************************)
(* What is read from the local store without the dashboard: doctor and its *)
(* roles, the digest, the tools of the MCP server, the webhook commands.   *)
(***************************************************************************)
EXTENDS SignalRules, Integers, Sequences, FiniteSets, FiniteSetsExt, SequencesExt, TLC

CONSTANTS
  LogRead,       \* the events a report reads of each log
  MostEvents,    \* the most events_recent returns
  LongestDigest, \* the days a digest is clamped to, except on the command line
  NamesCap,      \* ROW_NAMES_CAP
  Nobody         \* no id, no name, no mark

Clamp(n, low, high) == IF n < low THEN low ELSE IF n > high THEN high ELSE n

-----------------------------------------------------------------------------
(* Health.  A report takes an Environment for reachable unless its           *)
(* Availability row says otherwise; decide looks at the other probes too.    *)

\* Mutant: a report takes any probe that is down for the whole Environment.
ReportedReachabilityAny(rows) ==
  IF \E s \in DOMAIN rows : rows[s].state = "down" THEN "unreachable" ELSE "reachable"

ReportedReachability(rows) ==
  IF Availability \in DOMAIN rows THEN rows[Availability].reach ELSE "reachable"

ReportedHealth(rows) == HealthRollup(ReportedReachability(rows), rows)

-----------------------------------------------------------------------------
(* Events.  A log is what its table gives, oldest first.                     *)

Newest(log, n) == SubSeq(log, IF Len(log) > n THEN Len(log) - n + 1 ELSE 1, Len(log))

\* weekly_digest: the window ends now, and its parts list every event in it.
DigestCommand(days) == days          \* the command line has refused days < 1
GetDigest(days) == Clamp(days, 1, LongestDigest)

WeeklyDigest(log, rows, now, days) ==
  LET inside == SelectSeq(Newest(log, LogRead), LAMBDA e : e.at >= now - days)
  IN  [health |-> ReportedHealth(rows),
       transitions |-> SelectSeq(inside, LAMBDA e : e.kind = "health"),
       builds |-> SelectSeq(inside, LAMBDA e : e.kind = "build"),
       signals |-> [s \in DOMAIN rows |-> rows[s].state]]

\* Mutant: each log gives half of what was asked for.
EventsRecentHalved(health, signal, asked) ==
  LET limit == Clamp(asked, 1, MostEvents)
      all == Newest(health, limit - limit \div 2) \o Newest(signal, limit \div 2)
  IN  SortSeq(all, LAMBDA a, b : a.at > b.at)

\* events_recent: both logs, newest first.
EventsRecent(health, signal, asked) ==
  LET limit == Clamp(asked, 1, MostEvents)
      all   == SortSeq(Newest(health, LogRead) \o Newest(signal, LogRead), LAMBDA a, b : a.at > b.at)
  IN  SubSeq(all, 1, Min({limit, Len(all)}))

-----------------------------------------------------------------------------
(* The rows a tool may show: the names of an allowed field, or counts only.  *)

List(signal, list, named) == [signal |-> signal, list |-> list, named |-> named]

RedactedRowTable ==
  {List("jobs", "overdue_rows", TRUE), List("jobs", "error_rows", TRUE),
   List("syslog", "error_rows", TRUE), List("mid_ecc", "agents_unhealthy_list", TRUE),
   List("outbound", "failure_rows", FALSE), List("flow", "error_rows", TRUE),
   List("email", "error_rows", FALSE), List("upgrade", "upgrades", TRUE),
   List("sessions", "session_rows", TRUE), List("update_sets", "open_rows", TRUE),
   List("scan", "finding_rows", TRUE), List("drift", "mismatch_list", TRUE),
   List("github", "run_rows", TRUE), List("transaction", "slow_rows", FALSE)}

NamesShown(list, named) ==
  LET names == SelectSeq(list, LAMBDA n : n # Nobody)
  IN  IF named THEN SubSeq(names, 1, Min({NamesCap, Len(names)})) ELSE <<>>

\* Mutant: only the mark of the payload counts.
RedactedRowsPlain(signal, lists, marked) ==
  {[list |-> e.list, count |-> Len(lists[e.list]), names |-> NamesShown(lists[e.list], e.named),
    truncated |-> e.list \in marked] :
     e \in {x \in RedactedRowTable : x.signal = signal /\ x.list \in DOMAIN lists /\ lists[x.list] # <<>>}}

\* signals_get: the lists of a payload that the table names, but the empty
\* ones; marked are the lists the payload itself says are cut.
RedactedRows(signal, lists, marked) ==
  {[list |-> e.list, count |-> Len(lists[e.list]), names |-> NamesShown(lists[e.list], e.named),
    truncated |-> \/ e.list \in marked
                  \/ e.named /\ Len(lists[e.list]) > Len(NamesShown(lists[e.list], e.named))] :
     e \in {x \in RedactedRowTable : x.signal = signal /\ x.list \in DOMAIN lists /\ lists[x.list] # <<>>}}

-----------------------------------------------------------------------------
(* The MCP server: one message per line, one answer for each that asks.      *)

Tools == {"environments_list", "health_get", "signals_get", "events_recent", "digest_week"}

\* A call reads the list of Environments first, whatever its tool, and the
\* store last; to list no Environment it does not open the store.
CallTool(line, list) ==
  IF /\ line.disk # "list unreadable"
     /\ line.tool \in Tools
     /\ line.tool # "environments_list" => line.environment \in list
     /\ line.disk = "store unreadable" => line.tool = "environments_list" /\ list = {}
  THEN "result" ELSE "-32602"

\* Mutant: a line that cannot be parsed gets no answer.
HandleLineUnlessBroken(answers, line, list) ==
  IF line.kind # "request" THEN answers
  ELSE Append(answers, [id |-> line.id, body |-> "result"])

\* Blank lines, notifications and messages without a method get no answer.
HandleLine(answers, line, list) ==
  CASE line.kind = "unparsable" -> Append(answers, [id |-> Nobody, body |-> "-32700"])
    [] line.kind = "request" /\ line.id # Nobody ->
         Append(answers, [id |-> line.id, body |->
           CASE line.method \in {"initialize", "tools/list"} -> "result"
             [] line.method = "tools/call" -> CallTool(line, list)
             [] OTHER -> "-32601"])
    [] OTHER -> answers

\* Mutant: a line that is not UTF-8 is passed over.
LinesReadOn(lines) == SelectSeq(lines, LAMBDA l : l.kind # "undecodable")

\* The loop ends, in an error, at the first line that is not UTF-8.
LinesRead(lines) ==
  LET broken == {i \in DOMAIN lines : lines[i].kind = "undecodable"}
  IN  IF broken = {} THEN lines ELSE SubSeq(lines, 1, Min(broken) - 1)

RunLines(lines, list) ==
  FoldLeft(LAMBDA answers, line : HandleLine(answers, line, list), <<>>, LinesRead(lines))

-----------------------------------------------------------------------------
(* The webhook commands.  A letter is an event that was given up.            *)

WebhookStatus(box) ==
  [pending |-> Cardinality({e \in box.log : e.at > box.cursor}), dead |-> Cardinality(box.letters)]

\* Mutant: the cursor is put on the oldest letter.
RequeueOnto(box) ==
  IF box.letters = {} THEN box
  ELSE [box EXCEPT !.cursor = Min({l.at : l \in box.letters}), !.letters = {}]

RequeueLetters(box) ==
  IF box.letters = {} THEN box
  ELSE [box EXCEPT !.cursor = Min({l.at : l \in box.letters}) - 1, !.letters = {}]

RequeueReport(box) ==
  [cleared |-> Cardinality(box.letters),
   missing |-> Cardinality({l \in box.letters :
                 ~\E e \in box.log : e.at = l.at /\ e.kind = l.kind})]

-----------------------------------------------------------------------------
(* doctor. *)

\* The probe that doctor makes, by the platform.
DoctorProbe ==
  [servicenow |-> "availability", http |-> "http_probe", github |-> "actions"]

\* A credential of the wrong shape is there, one that cannot be read is not;
\* a store that does not open has no letters.
DoctorRow(e, open) ==
  [id |-> e.id, present |-> e.credential \in {"good", "shape"},
   error |-> e.credential \in {"shape", "unreadable"},
   probe |-> DoctorProbe[e.platform], reachability |-> e.reachability,
   webhook |-> IF open THEN WebhookStatus(e.box) ELSE [pending |-> 0, dead |-> 0]]

\* The ticks that were kept, and the slowest Environment of them; a tick of
\* the whole interval has overrun it.
TickSummary(ticks, interval, groups, open) ==
  IF ~open THEN [count |-> 0, overruns |-> 0, slowest |-> Nobody]
  ELSE [count |-> Len(ticks),
        overruns |-> Len(SelectSeq(ticks, LAMBDA t : t >= interval)),
        slowest |-> IF groups = {} THEN Nobody
                    ELSE CHOOSE g \in groups : \A h \in groups : h.took <= g.took]

\* Mutant: a sleeping Environment is a failure.
DoctorExitCodeWake(rows) ==
  IF \E i \in DOMAIN rows : ~rows[i].present \/ rows[i].reachability # "reachable" THEN 1 ELSE 0

DoctorExitCode(rows) ==
  IF \E i \in DOMAIN rows : ~rows[i].present \/ rows[i].reachability = "unreachable" THEN 1 ELSE 0

\* One table is read with the rights of the account.
TableAccess(answer) ==
  CASE answer = 200 -> "granted"
    [] answer \in {401, 403} -> "denied"
    [] OTHER -> "error"

\* The tables that are read, and the Signals each of them feeds.
TableChecks ==
  [sys_properties |-> {"availability", "drift"}, sys_trigger |-> {"jobs"},
   syslog |-> {"syslog", "table_growth"}, ecc_agent |-> {"mid_ecc"},
   ecc_queue |-> {"mid_ecc", "table_growth"}, sys_outbound_http_log |-> {"outbound"},
   sys_flow_context |-> {"flow"}, sys_email |-> {"email", "table_growth"},
   sys_upgrade_history |-> {"upgrade"}, v_user_session |-> {"sessions"},
   sys_update_set |-> {"update_sets"}, scan_finding |-> {"scan"}, sys_plugins |-> {"drift"},
   sys_store_app |-> {"drift"}, clone_instance |-> {"last_clone"},
   syslog_transaction |-> {"slow_txn"}, sys_attachment |-> {"table_growth"}, task |-> {"table_growth"}]

RunRoleCheck(answers) == [t \in DOMAIN answers |-> TableAccess(answers[t])]
DeniedSignals(report) == UNION {TableChecks[t] : t \in {u \in DOMAIN report : report[u] = "denied"}}

-----------------------------------------------------------------------------
(* diagnostics.  A line of the log is the bytes of it, its end included.     *)

Bytes(lines) == FoldLeft(+, 0, lines)

\* Mutant: the line the tail starts in is kept.
LogTailPartial(log, cap, n) ==
  LET cut == Bytes(log.lines) - cap
      from == IF cut <= 0 THEN 1
              ELSE CHOOSE k \in DOMAIN log.lines :
                     Bytes(SubSeq(log.lines, 1, k - 1)) <= cut /\ cut < Bytes(SubSeq(log.lines, 1, k))
  IN  Newest([i \in 1 .. Len(log.lines) - from + 1 |-> [line |-> from + i - 1, whole |-> i > 1 \/ cut <= 0]], n)

\* log_tail: of a long log the last cap bytes, but for the line they start in
\* unless the log ends within it, and of those the last n lines.  A log that
\* is not all text is read only if it is long.
LogTail(log, cap, n) ==
  LET cut == Bytes(log.lines) - cap
      last == Len(log.lines)
      within == CHOOSE k \in DOMAIN log.lines :
                  Bytes(SubSeq(log.lines, 1, k - 1)) <= cut /\ cut < Bytes(SubSeq(log.lines, 1, k))
      from == IF cut <= 0 THEN 1 ELSE within + 1
      whole == [i \in 1 .. last - from + 1 |-> [line |-> from + i - 1, whole |-> TRUE]]
  IN  IF cut <= 0 /\ ~log.text THEN <<>>
      ELSE IF cut > 0 /\ within = last /\ ~log.ended THEN <<[line |-> last, whole |-> log.lines[last] <= cap]>>
      ELSE Newest(whole, n)

\* What a file of the home becomes in the bundle.
Redacted(file) ==
  CASE file = "absent" -> "missing" [] file = "garbled" -> "unparsable" [] OTHER -> "fields"

WriteDiagnostics(home, cap, n) ==
  <<[file |-> "environments.redacted.json", holds |-> Redacted(home.environments)],
    [file |-> "settings.redacted.json", holds |-> Redacted(home.settings)],
    [file |-> "daemon.log.tail.txt", holds |-> LogTail(home.log, cap, n)],
    [file |-> "census.txt", holds |-> "counts"]>>
=============================================================================
