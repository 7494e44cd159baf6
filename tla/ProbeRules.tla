----------------------------- MODULE ProbeRules -----------------------------
(***************************************************************************)
(* One probe of one Environment: the collector turns what the instance     *)
(* answered into the row it keeps.  `rows` in the input is what the        *)
(* instance holds, `page` what it gave of it.                              *)
(***************************************************************************)
EXTENDS Probes, Judged

CollectProbe == Judge("probe", SnapshotOf(ProbeOf(input)))

-----------------------------------------------------------------------------
Counting == {"syslog", "outbound", "flow", "email"}
Listing  == {"sessions", "update_sets", "actions", "scan"}

Unread(answer) == answer.status # 200 \/ answer.body = Malformed

\* The reads a Signal's verdict rests on.
VerdictUnread(w) ==
  CASE w.signal \in Counting \cup {"slow_txn"} -> Unread(w.count)
    [] w.signal = "jobs"         -> Unread(w.count) \/ Unread(w.errorCount)
    [] w.signal = "mid_ecc"      -> Unread(w.count) \/ Unread(w.errorCount) \/ Unread(w.page)
    [] w.signal = "table_growth" -> \A t \in WatchedTables : Unread(w.tables[t])
    [] w.signal = "scan"         -> Unread(w.page) /\ w.page.status \notin {400, 404}
    [] w.signal \in Listing \ {"scan"} -> Unread(w.page)
    [] w.signal = "upgrade"      -> w.page.status # 200
    [] w.signal = "http_probe"   -> w.page.status \notin 200..399
    [] w.signal = "availability" -> Unread(w.page) /\ ~(w.page.status # 0 /\ w.hibernating)

\* A Signal whose deciding read failed, was refused, was rate-limited or did
\* not parse is down: what could not be read is never shown as healthy.  The
\* other way round, no Signal is down but for that (`Err` rows of
\* PerEnvironmentCollector, and the *_required parsers of signal_eval.rs).
UnreadableIsDown ==
  Judged("probe") =>
    (result.state = "down" <=> VerdictUnread(input) \/ (input.signal = "actions" /\ ~input.token))

\* The rows fetched for the drill-in never change a verdict the count has
\* made, whatever becomes of their read: jobs, syslog, outbound, flow, email
\* and slow_txn fetch them after the counts, and swallow their errors.
RowsNeverVote ==
  Judged("probe") /\ input.signal \in Counting \cup {"jobs", "slow_txn"} =>
    LET blind == [input EXCEPT !.page = Answer("silent", <<>>), !.errorPage = Answer("silent", <<>>)]
    IN  result.state = SnapshotOf(ProbeOf(blind)).state

\* A list that leaves out a row the instance holds says so: a page that was
\* read is shown whole, or is marked as truncated (take_bounded counts a full
\* page as truncated).  It takes rows with a sys_id: one without is dropped
\* before the page is measured, so that a full page can read as short.
PartialListsAreMarked ==
  Judged("probe") /\ input.signal \in Counting \cup {"sessions", "mid_ecc"}
    /\ (\A i \in DOMAIN input.rows : input.rows[i].id) =>
    \/ Unread(input.page) \/ result.state = "down" \/ result.truncated
    \/ input.signal \in Counting /\ input.count.body = 0
    \/ input.signal # "mid_ecc" /\ result.shown = input.rows
    \/ /\ input.signal = "mid_ecc"
       /\ Len(result.shown)
            = Cardinality({i \in DOMAIN input.rows : ~(input.rows[i].up /\ input.rows[i].validated)})

\* Rate limiting is never silent: when an answer a counting Signal asked for
\* was a 429, its row says so, whichever of the reads it was: by its flag when
\* the verdict stands, by its detail when the row is down for it.
ThrottlingIsVisible ==
  Judged("probe") /\ input.signal \in Counting \cup {"jobs"} =>
    LET asked(count, page) ==
          \/ count.status = 429
          \/ ~Unread(count) /\ count.body > 0 /\ page.status = 429
        first == input.signal \in Counting \/ ~Unread(input.errorCount)
        said  == result.throttled \/ result.detail = "throttled"
    IN  /\ asked(input.count, input.page) /\ first => said
        /\ input.signal = "jobs" /\ ~Unread(input.count) /\ asked(input.errorCount, input.errorPage)
             => said

\* A row says no more, and no less, than what the instance answered.
ProbesAreHonest ==
  UnreadableIsDown /\ RowsNeverVote /\ PartialListsAreMarked /\ ThrottlingIsVisible
=============================================================================
