# daku in TLA+

daku is an operator console for ServiceNow instances: a daemon polls each
*Environment*, keeps the results in a SQLite database and decides a health, and
a desktop application shows it. This directory holds TLA+ models of daku: of
what depends on the order of things (what survives a restart, what a slow
thread may overtake, what a bounded queue may drop), and of the decisions that
do not, judged on every input of small sets. Each module is read from the code
at one commit; `PROJECT.json` maps its definitions to the lines they stand for.

## The system

| Part | State | Operations | Interacts with |
|---|---|---|---|
| Collector loop (`collector.rs`, `availability.rs`) | registered collectors, tick counter, inventories of earlier rounds | groups side by side, slow Signals, publish, pause while offline | writes snapshots and samples, calls the publish closure, spawns relay threads |
| Signal probes (`jobs.rs`, `syslog.rs`, ...) | none | read an instance, judge a number | ServiceNow client, snapshots |
| Drift and last clone (`drift.rs`, `last_clone.rs`) | inventories of a round or two | compare Environments, date a clone | collector, slow rounds |
| ServiceNow client (`servicenow.rs`) | credential memo, token cache, semaphores | authorise, send, retry, refresh | probes, tests of an Environment |
| Health decision and health events (`health.rs`, `persistence.rs`) | `dashboard_publish_state`, `health_events` | decide, record, store, prune, annotate | called by each publish; read by relay, digest, desktop |
| Signal events (`health.rs`, `persistence.rs`) | `signal_publish_state`, `signal_events` | walk the rows, record, store, prune | same publish, after the health events |
| Webhook relay (`webhook.rs`) and webhook-requeue (`main.rs`) | mark in memory, `webhook_cursor`, `webhook_dead_letters`, `in_flight` | seed, load, post, bury, advance; read, reset, clear | one thread per publish; the database; another process |
| Database (`persistence.rs`) | the file and its ledger of migrations | open, migrate | every process |
| Dashboard hub and connection loop (`server.rs`) | cache per key, bounded queue per subscriber | publish, replay, drain, notice, resync | collector thread, one thread per connection, resync threads |
| Daemon client (`client.rs`) | cache, subscribers, pending requests, flag, partial transfers | read, reassemble, forward, subscribe, request, time out | socket, windows |
| Supervisor (`process.rs`) | target, child process, list of windows to notify | poll, stop, spawn, install, notify, reload | daemon process, client, windows (`app.rs`) |
| Environments, credentials, settings (`environments.rs`, `config.rs`, `rotate.rs`, `setup.rs`, `settings*.rs`, `atomic_write.rs`) | files and the credential store | save, delete, test, set up, rotate | desktop requests, commands |
| Daemon process (`main.rs`) | none | arguments, start-up, commands | all of the above |
| Reports (`digest.rs`, `mcp.rs`, `diagnostics.rs`, `roles.rs`) | none | read the store, answer | database |
| Dashboard state (`dashboard_state.rs`, `notifications.rs`) | what a window has received, mutes, selection | apply a message, explain, summarise, compare, export | client |
| Windows (`app.rs`, `env_sheet.rs`, `palette.rs`) | main and detached windows, sheet, palette, app.json | render, select, mute, announce, edit, export | dashboard state, client, supervisor |

What is hard in it:

* **Crashes between statements.** Every SQL statement is its own transaction,
  and the desktop stops and restarts the daemon whenever its executable changes.
  Streak, event and build of a publish are three statements; post and cursor two;
  an Environment is a file and a credential.
* **Threads that overtake.** A relay pass outlives the publish that spawned it; a
  requeue or a setup runs in another process; a resync thread and the publisher
  push on one queue; a subscriber races the reader thread; an answer meets
  another sheet than the one that asked.
* **Bounded things.** The queue of a connection (512 pieces), the transfers a
  client assembles (32), the rows of a table (500), the requests in flight, the
  announced transitions a window remembers (2000).
* **Time.** Events are keyed by second and the relay's cursor is a second; rows,
  tokens and inventories have ages; roll-ups have hours, mutes and digests have days.
* **Must happen.** The backlog drains, the client converges, a window reconnects,
  a call returns, a saved Environment is polled, a transition is announced.
* **Said in many places.** Card, sidebar, menu bar, notification, digest and MCP
  tools each derive from the same rows what one of them must not contradict.

## What makes each part correct

* *Collector.* A sleeping Environment is left alone, a fault in one group costs
  no other its rows, every card gets an answer, every row is sent in the end.
* *Probes, drift, clones.* What could not be read is down or marked, never a
  number; lists never vote; a truncated list says so; comparison is symmetric.
* *ServiceNow client.* Limits hold, a request costs little, a rotated credential is
  found, every request ends.
* *Health and Signal events.* A change is recorded when, and only when, two publishes in
  a row agree on it; once; and the newest event names the state that lasts.
  Restarts, failures, skipped rows and pruning do not change that.
* *Relay.* What is skipped has one of three known causes, little is posted twice, the
  cursor does not go back, the backlog drains, and requeued letters are posted.
* *Database.* Every migration runs once, in order, whoever opens the file.
* *Connection.* The client shows only whole, published messages, never an older
  one after a newer one; it shows all that was queued; it learns of what was not;
  and it comes to show the published state.
* *Client.* No subscriber is left waiting on a dead connection, none misses a
  message, no request leaks, no call hangs.
* *Supervisor.* One daemon at a time; every window gets the next client.
* *Administration.* A write touches one entry, a credential without an Environment has
  a reason, what is served is what is stored, what was saved is polled.
* *Windows.* A transition is announced once, and announced; windows agree; a sheet
  sends what it shows and gets an answer.
* *Surfaces.* They agree with each other, and with the rows they come from.

## Modules

`Spec` of most system modules leaves out fairness and `FairSpec` adds it. An `MC...`
module holds the model values of a run; a `...Scenes` module does so and runs a few scenes side by side: instances of one
module with different constants, so that one run can ask what needs wide bounds and what needs many faults, and in
`DaemonScenes` the client and the supervisor as well, whose variables rest where the scene is not about them.

| Module | Models |
|---|---|
| `CollectorTick`, `CollectorTickProofs` | rounds of the collector loop, Availability gate, slow Signals, publish and roll-up |
| `ServiceNowClient`, `ServiceNowClientProofs` | requests against memo, token, semaphores, throttling |
| `SignalRules` | `votes`, reachability, `health_rollup`, `decide` |
| `Streaks` | last value, length of its streak and the value before: `PublishState`, `SignalPublishState` |
| `EventTable` | retention window and row limit of the two event tables |
| `HealthEvents`, `HealthEventsProofs` | one Environment's publishes: `record_health_and_build_events` |
| `SignalEvents`, `PersistenceProofs` | one Environment's walk: `record_signal_events` |
| `WebhookRelay`, `WebhookRelayProofs` | collector thread, relay thread, requeue command; theorems about them |
| `DashboardFeed` | abstract: what the connection promises a client |
| `DashboardWire`, `DaemonScenes`, `DaemonProofs` | hub, queue, connection loop, resync thread, reassembly |
| `DaemonClient`, `DaemonScenes`, `DaemonProofs` | `subscribe_dashboard`, `request`, the end of `run_client` |
| `DaemonSupervisor`, `DaemonScenes`, `DaemonProofs` | `monitor_daemon`, `replace_local_daemon`, `subscribe_clients`, `listen_dashboard` |
| `EnvironmentAdmin`, `EnvironmentAdminProofs` | save, delete, test, setup, rotate, settings, over files and credential store |
| `DesktopWindows`, `DesktopWindowsProofs` | main and detached window, notices, mutes, digest, sheet, restarts |
| `StateStore`, `PersistenceProofs` | `StateStore::open`, `apply_migrations` |
| `Probes`, `Drift`, `ServiceNowClientProofs` | what probes, drift and last clone make of their answers |
| `Dashboard`, `DashboardTrends`, `ServiceNowClientProofs` | `DashboardState`: cards, causes, surfaces; trends, timeline, drill-in, copies |
| `Commands`, `Reports` | the command line, start-up, wire requests; doctor, digest, MCP, diagnostics |
| `SheetForm`, `Screens` | the sheet and its fields; what a window draws, palette, menus, notices, exports |
| `Judged`, `ProbeRules`, `DriftRules`, `DashboardRules`, `EdgeRules`, `ScreenRules` | judge inputs of the pure modules and state their properties |

### CollectorTick

A thread per Environment runs its Signals in order, Availability first, which decides
whether the others are probed. When all have joined, every `SlowEvery`-th round runs drift, last
clone and scan over all Environments, reading Availability rows again by their age.
Then the publish walks the Environments and stops at the first statement that fails.
`GroupPanics` and `SlowPanics` are the two joins of `collect_once`. Ages count steps
and stop one above the limit they are compared with, so that the model stays finite.
`unsent`, `sampled` and `rolled` are history variables: rows waiting for a publish, samples
of the hour, and those its roll-up counted.

### ServiceNowClient

A call authorises from memo or store, grants a token for OAuth, takes the permit of the
process and that of the host, meets any answer, and repeats. The world rotates a stored
credential, then the one the instance accepts, or the reverse, revokes tokens and lets
them expire.

### HealthEvents

The variables are the three tables of one Environment (`snaps`, `state`, `log`)
and the program counter of the collector thread. A publish is `PublishStart`,
`RecordHealth`, `RecordBuild`, `StoreState`, `Prune`, `PruneRows`, one step per statement, or
`StoreState`, `RecordBootstrap` and the two prunes when there is no state yet: the code
stores before it records there and records before it stores everywhere else, and
the model keeps both orders. `Stop` may fall between any two steps, `PublishFails`
ends a publish, and `Start` prunes and publishes the stored rows before any tick.
`Annotate` is a request thread. `Tick` replaces the rows of any set of Signals:
the others were not due, or their write failed.

The history variables are read by no action; the properties compare what the
code keeps incrementally with what they say about the past. `recent` and `confirmed` are the
healths stored, `emitted` counts the events of the current streak and `cuts` the publishes of it that
ended between inserting the event and storing the streak. `astray` names what has parted the builds
logged from the build remembered since the last insertion: an event that `collided` with
one of its second, a publish that was `cut` short, a last event that was `pruned`. Nothing keeps these
from happening; `RepeatsAreCaused` and `BuildsAreAccountedFor` say that nothing else does it.

### SignalEvents

Same shape, one streak per Signal. The walk visits the rows in any order (the rows
of a table scan); skipped rows are passed over. A publish may fail before the walk (a health
statement) or inside it, which leaves some Signals one publish behind.

### WebhookRelay

One Environment. `publisher` is the collector thread: health event, build event,
the two statements of the prune, spawn. `pending` counts relay threads not yet running; `RelayStart` is the
compare-and-swap on `in_flight`. A pass (`relay`) seeds the mark when there is
none, or loads the newest events above it, and handles them in the order of
`(observed_at, kind)`: too old, posted, or buried after one retry, and in each case the
mark in memory (`mem`) moves before the cursor in the database. `Crash` takes the
memory, `Start` prunes. The three transactions of the requeue command are three
actions.

Nothing the code does not prevent is left out: a publish may record its two events in one second, with the
relay between them; either statement about a dead letter may fail; the daemon may start while a requeue is under
way. `RequeueWhen` is the one switch on the world: when the Operator runs the command.
History variables follow the three ways in which the relay lets go of an event, as each happens: `parted`, events that a
crash, an error, a row limit or a pass parted from the sibling whose second the cursor took; `lost`, refused events whose letter was not written;
`raced`, letters that a requeue beside the daemon deleted unread, or while a mark in memory stood above them. `SkipsHaveACause` says that there is no fourth.

`MaxEvents` stands for the three literals 500 (rows kept, rows loaded, letters kept).
An error at an Environment visited earlier in the same pass is `RelayFails`.
Left out: a clock that goes back, changes of the URL, a machine that is offline.

### DashboardWire and DashboardFeed

One connection, end to end. A message of version `v` of key `k` is split into
`Pieces[k][v]` pieces. `Publish` takes the hub's lock and updates `newest`, the hub's cache;
`PublisherPush` pushes piece after piece while the connection loop drains the
same queue; the first piece that does not fit drops the rest of its message.
`Connect` replays the cache to the fresh queue under the lock, before the loop
runs, and counts what did not fit; the loop is drain, notice, read. The resync thread
waits for the lock and replays. `Ingested` is `insert_chunk`: the first piece of a
transfer evicts the remains of its series, then the oldest transfer.

The socket is part of the queue: a piece leaves the queue when the client has it.
The hub counts transfer ids up; the model picks one that is in use nowhere. A tick starts when the
connection has caught up, or uses up one of `MaxStalls`: a tick comes every 60
seconds and the loop turns every 25 milliseconds, so a connection that is still behind
is the exception, and must be allowed as one.

`DashboardFeed` knows only `published` and `seen`. `FeedSpec` is the refinement
with `published <- newest`, `seen <- have`. `owed` is a history variable: per key the last version
all of whose pieces found room on this connection.

### DaemonClient

The reader thread holds no lock while it waits; `Receive` and `Send` take the lock
of the cache and of the list one after the other, and a subscriber takes both. The
end of the thread is four steps, in the order of the code: raise the flag, fail the pending
requests, clear the list, forget the cache. A request checks the flag, enters the
map, sends, waits. Versions count messages; `view[s][k]` is the newest version sent to `s`.

### DaemonSupervisor

Clients are numbered in the order they connect. `monitor` walks through
`replace_local_daemon`: mark the target as restarting (`Replace`), stop the old process
(`StopOld`), spawn until it is ready (`Spawn`, which may fail and back off), install it
under the lock of the target, notify the windows after releasing it. A window subscribes
under the same lock, then takes clients from its mailbox and follows each until its
channel closes, which is what `DaemonClient` says of the end of a connection. The daemon is the
spawned one; `monitor_remote` is not modelled. The newest client that `MaxClients` allows
does not die, since nothing could replace it.

### EnvironmentAdmin

Two request threads of the daemon and one command at a time share a list and a key store. A
save is: take the lock of the process, read, replace the file, store the credential, answer. A
failure can come before the rename or after it, a death anywhere. An editor may change or break the
file. The desktop restarts the daemon after a save it was told of, which then polls what it reads.
`Probe` of setup may be refused before anything is written.

### DesktopWindows

A publish puts its messages at the end of each window's queue and waits for none; `Backlog` bounds the messages
that may still be there when the next one comes. A window applies them, decides on a
notification, paints what it shows; menu bar and badge belong to whoever painted last. Settings
are one record in memory and in app.json. The sheet is opened in the main window only; the
daemon is the local one; answers are applied to whichever sheet is open. `seen` is cut to the `SeenCap` newest transitions, and `again` holds those
posted a second time or after a newer one.

### StateStore

Threads of two processes open one file: lock of the process, create, WAL, check, begin, check again, run, commit. Two
binaries may know a different number of migrations and other names for one.

### The pure modules

Probes, drift, dashboard, commands, reports, sheet and screens are functions of the code, written as
operators. A rule module extends `Judged`: its step takes one input, applies the operators and stores the
result; its properties relate input and result, and often two results of the same input (what the
card says and what the digest says). `MCDashboard` and `MCRules` give the inputs.
Texts are sequences of a few letters or model values, payloads functions of their keys.

## Runs

All bounds are constants named in the modules and given in the `.cfg` files, or in the `...Scenes` modules.

| Run | Question | Bounds, and why they suffice |
|---|---|---|
| `HealthEvents` | Do events follow the confirmed changes, does the newest name what lasts, do notes survive? What makes a change be announced again, or a build go without its event? | mixed: two Signals, five publishes (two confirmed changes and the flap between them), one stop anywhere, one failed statement, two rows kept, two publishes per second. Builds: health and two builds of one Signal with the same bounds, so that a build can collide, be cut short or be pruned. 1.7 million states |
| `SignalEvents` | The same for Signals, with skips | two Signals, five publishes, one stop, one failed statement, four seconds and two rows kept |
| `Relay` | Why is an event skipped, who is to blame for a repeat, does the cursor only advance? | two seconds with two events each, two rows, so that siblings are parted and rows pushed out; one crash, one failed statement, one requeue at any time. 16.3 million states |
| `RelayDrains` | Does the backlog drain, and again after a requeue? | the same without a failed statement, the requeue while the daemon is down; an event of the second before is too old to post |
| `Daemon` | Does the connection refine the feed, is what was queued shown, is a lossy replay learnt, does the client converge? Who is left behind by the end of a connection, does every call return? One daemon, a next client for every window, and do windows reconnect? | wide: three keys, messages of one and two pieces, a queue of five, which is a tick, one stalled tick, one disconnect. Narrow: two keys, a queue of two. Both: one incomplete transfer, two versions. Client: two keys, subscribers and requests, two messages. Supervisor: two windows, four clients, two failed spawns. 493,000 states |
| `Tick` | Are sleepers left alone, do groups fail alone, does every card get its answer and every row get sent? | two Environments, the second a clone source or not, one Signal beside Availability, a slow round in two, one fault, no bound on the rounds |
| `ServiceNow` | Do the limits hold, is a rotation found, does every call end? | three threads, two Environments on the hosts and authentications of `MCServiceNowClient`, three calls, one change, one retry, two requests in all and one to a host |
| `Admin` | Does a write touch its own entry, do orphans have a reason, is what is served stored, is what was saved polled? | two request threads and a command, two ids, two operations, one fault |
| `Desktop` | Is a transition announced, and once? Do windows and menu bar agree, does a sheet get its answer? | alerts: two Environments, two transitions, mutes, a lost connection, a restart, one message waiting. Crowd: three transitions of which two are remembered and two sent, two messages waiting, a lost connection. Desk: one transition, a detached window, sheet, mutes, four clicks. Weeks: two weeks, switch, restart, lost connection |
| `Rules` | Does every decision hold on every input, and do concurrent openers migrate once? | the inputs of `MCRules` and `MCDashboard`: limits of two or three, so that zero, below, at and above each occur; two threads of the daemon and one of a command |
| `ServiceNowRotation` | Is a rotated OAuth credential found? | as `ServiceNow`; the answer is no |
| `McpLines` | Is every bad line of the MCP bridge answered? | the sessions of `Rules`: up to three lines, one of which may not be UTF-8; the answer is no |

Deadlock is checked everywhere but in `ServiceNow`, `Rules` and their two counterexamples: the return of the last call is the end of
the one, the judgement of an input the end of the other.
Models whose bounds run out say so with a `Done` step, or go on with what is not bounded.

The properties of `Rules` are conjunctions of the named parts of the rule modules:

* `MeasuresAreHonest`: `ProbeRules` (unreadable is down, rows never vote, partial lists are marked,
  throttling is visible) and `DriftRules` (symmetry, the last record counts, the newest clone, days).
* `SurfacesAreHonest`: `DashboardRules` (a trouble is explained, causes come first, surfaces agree, copies agree, the strip agrees with the rows,
  no invented counts, nothing hidden unsaid).
* `TrendsAreExact`: a line breaks at gaps, weeks share no hour, the newest events are shown.
* `EdgesHold`: `EdgeRules` (lines are free of order, readers write nothing, one health in every report,
  newest events, marked lists, one answer for each request up to a line that is not UTF-8, requeue, doctor, log tail, roles) and
  `ScreenRules` (untouched edits, sheet and daemon agree, ids, cards, dots, keys, palette, notices, exports).
* `MigrationsRunOnce`: `StateStore`.

### Where the code and its words differ

`ServiceNowRotation` checks "A 401 drops the entry and retries once (`request`), so rotation is picked
up" (`servicenow.rs:186`). For OAuth the 401 drops the token only, and a refused grant drops nothing: the memo of the old
credential stays until the daemon restarts.

`McpLines` checks "a bad stdin line is a `-32700` reply, never a panic" (`mcp.rs:376`). A line that is not UTF-8 is an error of
`reader.lines()`, which `let line = line?` (`mcp.rs:385`) returns from the loop: it gets no reply, and the bridge ends before the lines that
follow it. What is true, and checked by `Rules`, is that every line before it is answered as it should be (`RequestsAreAnswered`).

### Refuted statements

These properties are stated in the modules, or are stated there with the excuse named, and no run holds them as given here: TLC finds the counterexample.
Some are defects, others sentences that promise more than is needed.

| Property, constants | The sentence | What happens |
|---|---|---|
| `HealthEvents!RepeatsAreCaused` without `cuts` | "a restarted daemon cannot duplicate events" (`persistence.rs:575`) | stopped between insert and store, the daemon confirms the change again in a later second |
| `HealthEvents!FlapIsNotAnEvent`, `SignalEvents!SignalFlapIsNotHistory` | "a single flap is not an event" (`health.rs:390`), "not history" (`health.rs:503`) | healthy, degraded, healthy, healthy records degraded to healthy: the flap became the value before the streak |
| `HealthEvents!BuildsAreAccountedFor` without `astray` | "any newly observed build string is an event immediately" (`health.rs:394`) | the first publish stores first; stopped there, the event never comes; two builds in one second collide and the second is dropped |
| `HealthEvents!FirstBuildIsBootstrap` | "a bootstrap event (no `from`) on the first build seen" (`health.rs:395`) | the startup publish usually has no build, so the first build seen carries a `from` |
| `WebhookRelay!SkipsHaveACause` without `raced`, requeue while the daemon runs; `EventuallySettled` without `Expired` | "the existing relay reposts the surviving events on its next tick", "reported, not silently skipped" (`persistence.rs:1063`) | the mark in the memory of a running daemon wins over the reset cursor; an event older than a day is passed over |
| `WebhookRelay!SkipsHaveACause` without `parted`, `CrashSkipsNothing` | "every new health/build event" (`webhook.rs:3`), the order by kind keeps a crash from skipping the sibling (`webhook.rs:283`) | the cursor keeps the second only: a pass between the two inserts of a publish, or a crash between two posts, skips the second |
| `WebhookRelay!SkipsHaveACause` without `lost` | "dead-letter it and advance past it" (`webhook.rs:312`) | the result of the insert is ignored |
| `WebhookRelay!OnlyDeliveryAdvances` | "a failed POST retries on later ticks" (`webhook.rs:16`) | it is buried after one immediate retry |
| `DashboardWire!Converges`, a queue smaller than a tick | "the next live tick converges" (`server.rs:155`) | a replay is lossy when the cache outgrows the queue; ticks then drop the same tail again and again |
| `DaemonSupervisor!SentOnce` | old then new, or the new client directly (`process.rs:372`) | subscribing between installation and notification gets the new client twice |
| `CollectorTick!SleepersAreNeverProbed` | slow Signals skip what the round found asleep (`drift.rs`, `availability.rs`) | a group that runs longer than the reuse window makes its row too old to be read |
| `ServiceNowClient!TestsUseWhatWasTyped` | a test holds the typed credential in an ephemeral store (`environments.rs:231`) | the client of the daemon, and its memo, are shared (`main.rs:119`) |

Other disagreements met while reading, for which the models take what the code does:

* Reports. `mcp.rs:316` files rows of two Signals under "github" and "transaction", names no Signal has, so the tool never shows
  them. Digest and MCP take an Environment without an Availability row for reachable, and report degraded or healthy what the
  dashboard shows down. `digest` on the command line has no upper limit of days (`README.md:72` says 90). `doctor` and
  `webhook-status`, "read-only", open the store, which creates and migrates it. A small log that is not UTF-8 has an empty tail, a large one a lossy one.
  A reader of the MCP bridge that goes away ends it too, as its comment says; the model has a reader that stays.
* Commands. Options are called order-free (`main.rs:775`), but `--env x digest` is refused. Two command words: the first
  of main's order wins.
* Sheet. "Reports every problem at once" (`app.rs:534`): the first bad threshold hides the others. "Off" of a count whose
  default is a number, an unset round-trip and an id of drift with a comma cannot be shown and are sent as something
  else. With the advanced part folded a bad field blocks Save unseen. A fresh id sorts last only while no stored order exceeds the length of the list. The hint "Save will overwrite it" shows exactly when Save is refused.
* Windows. The failure of an export is "surfaced in the footer" (`app.rs:856`), which a detached window does not have. Two exports
  of one second share a directory, and the failure of one removes it. The timer of an older footer text clears a newer one. A detached window whose Environment was removed still copies
  and exports another. Chips without a reading have the solid dot of a muted card; the drill-in's dot ignores a mute. The palette
  offers what it then refuses (another Environment in a detached window, reload of a remote daemon). Slot numbers
  follow the sidebar's groups, the keys follow the list.
* Notices. The body names the health of now, not of the event. A transition that `NOTIFY_SEEN_CAP` newer ones have
  followed is forgotten, and a replay can post it again. Quiet hours edited by hand leave no menu item checked.
* Store. The first open of a fresh file by two processes can fail on WAL. Rows of `signal_publish_state` and of snapshots outlive
  their Environment. A restart over an hour boundary leaves the last samples out of their roll-up: those that `RollupLagsOneRound`, a part of `FaultsCostLittle`, allows when the hour turns.
* Administration. No lock is shared between processes (`environments.rs:160`): two of them can lose each other's entry, which
  `WritesTouchOneEntry` excepts. One entry that does not load
  stops the collector. What setup writes is polled after a restart only.

## Fairness

* `WebhookRelay`: the collector publishes again and again while the daemon runs, a
  spawned thread runs, a running pass or command goes on (a post ends by its timeout), and
  the desktop restarts a daemon that stopped. Nothing is assumed of the clock, the receiver or the Operator.
* `DashboardWire`: every thread of the daemon is scheduled and the desktop
  reconnects. Weak fairness is enough: a resync thread that the publisher always overtakes may wait for the hub's lock for ever,
  as the code's mutex allows, and the client converges by the ticks. Disconnections are bounded and not fair.
* `DaemonClient`: the steps of the reader that follow from its own state, and of the threads that call, weakly.
  That a message arrives, that the daemon answers or that the connection ends is not assumed.
* `DaemonSupervisor`: the monitor polls, windows run, a client notices that its daemon is gone.
* `CollectorTick`: the loop and each thread go on, since every request has a time limit; a machine that
  is offline is taken to come back. Panics, restarts and failures are not fair.
* `ServiceNowClient`: a request ends by its timeout and permits are given on; no answer is promised.
* `EnvironmentAdmin`: request threads and commands go on, and a daemon that is down or was told to reload starts. Failures, deaths and the editor are not fair.
* `DesktopWindows`: the daemon publishes, requests are answered or fail, windows take their messages and
  paint. Nothing is assumed of the Operator.

## Proofs

Every theorem holds for all values of the constants that meet the named assumptions of the module, which TLC evaluates in each
run. The bounds of the runs (`MaxPublishes`, `MaxClicks`, ...) are constants like others, so the theorems hold for
runs of any length. Each proof has a step for each action over an inductive invariant, whose parts the module names.

### WebhookRelayProofs

For every backfill window, table limit and number of
crashes, errors and requeues:

* `TypeCorrect`: `TypeOK`, from `RelayAssumption` and `EventTableAssumption`.
* `CursorMonotone`: `CursorNeverRewinds`, if requeues run only while the daemon is
  stopped. The proof rests on `Ahead`, that the cursor is not above what a pass has in
  hand, and a reset beside the pass may put it there; for requeues beside the daemon the run alone speaks, on its instance.
* `RelaySkipsForACause`: `SkipsHaveACause`, without any condition.
* `RepeatsAreFew`: `RepeatsAreBounded`, without any condition, until an Operator requeues.

`SkipsHaveACause` is not inductive: it speaks of the cursor, while what a step
does depends on the mark in memory, the batch and the event at hand. `SkipInv` adds, in
named parts, what an idle or stopped relay holds (`Idle`, `Offline`); how the event in hand stands in the batch (`InHand`,
`CurrentExcused`); what the letters read have to do with the table and when a command beside the daemon is told from one
while it is down (`Letters`); that events carry times the clock has reached, with the newest at `lastAt` (`Clocks`); that pruning took nothing newer
than what is left (`Suffix`); and, for each way an event can be passed, by the cursor, the mark, the batch or a reset to come, that it
is settled, shadowed by `MaxEvents` newer ones or unlucky (`BelowMark`, `BelowBatch`, `BelowLetters`, `AboveCursor`). `Shadowed` is what
the row limits force: an event pushed out of every query may leave without a trace. The
proof has a step per action, and lemmas about `NewestRows` and `Aged` carry what pruning and
the load limit do to shadowing.

That repeats are few needs to know which acknowledgements can still be repeated: `Exposed` are the events acknowledged
beyond the cursor, which a crash or a failed statement would send again, and `Owed` says that those sent again so far and those whose
sending again is already decided are paid for by a crash or an error each.


### DaemonProofs

`DaemonClient`, for any keys, subscribers, requests and messages:

* `Swept` (`ClientSpec => []RegistriesAreSwept`). The invariant adds which step holds which lock (`Locks`),
  that the flag goes up before the list is cleared (`Flagged`), and that a pending entry belongs to a
  call that waits for its answer (`Waiting`).
* `NoneMissed` (`ClientSpec => []NothingSlipsPast`) uses the same invariant: a registered subscriber was
  sent all of the cache but the message that is being forwarded (`Sent`), which holds because the
  cache keeps its lock from the replay to the registration.

`DaemonSupervisor`, for any windows, number of clients and failed spawns: `OneForAll`
(`Spec => []OneDaemonForAll`). `Processes` names, at each step of the monitor, the one process there may be;
`Targets` what the target says meanwhile; `Mails` that a window with a subscription is on the list and gets its
clients in order.

`DashboardWire`, for any keys, orders of publishing and replay, numbers of pieces, queue, limit of transfers, versions, stalls and lost
connections, from `WireAssumption`: `WireReceivesWhole` (`WireSpec => []ReceivesWhole`: the bounds of queue and transfers hold,
and who has drained its queue shows what it is owed) and `WireImplementsFeed` (`WireSpec => FeedSpec`). One invariant, `WireInv`, gives both; its parts
are statements about what is on the way, from the thread that sends to the client's transfers:

* `Locked`: who sends holds the lock, so that two threads never interleave the pieces of two messages on the queue.
* `Bounded` and `Ordered`: nothing on the way is older than what is shown or newer than what is published, the versions of a key
  come in order, and what is being sent is the newest of its key. The refinement needs the first, and that a piece completes a message only of a version on its way.
* `Coherent`: pieces of one transfer are of one version, on the way and assembled, so that no message is put together of two (`Torn` is never shown).
  It needs `Fresh`: a transfer starts once, since its number is in use nowhere.
* `Contiguous` and `Continued`: a piece on the way comes right after the one before it, or the client has those before in its youngest
  transfer. This is why the eviction of the oldest transfer costs no message whose pieces all found room, whatever the limit of transfers.
* `Settled`: the last whole message of a key in the queue is the one owed, or the one owed is shown.

A replay flattens the pieces of every message of the cache (`ReplayFacts`). What a flattened sequence holds is an induction over its parts, made
in set form: `NatInd` derives that a set with 0 and every successor holds all numbers from the well-foundedness of `<`,
and `FlattenBy` applies it to the recursive function inside `FlattenSeq`.

### ServiceNowClientProofs

For any threads, Environments, limits and retries: `Admitted`
(`Spec => []LoadIsBounded`). Two facts are not inductive alone. That permits are bounded needs that a permit is
counted for exactly those who wait for a host or are in flight (`Permits`), by cardinalities that
change by one. That a call sends at most so many requests needs what it may have sent at every
point (`Cheap`): what the refresh allowed before, what the token cost, the attempts of this request; and that
only OAuth asks for tokens (`Routed`). The assumptions are `ClientAssumption`: finite threads, positive limits.

`HonestMeasures` (`MeasuresSpec => []MeasuresAreHonest`) is about the functions of `Probes` and `Drift` and the rules of `ProbeRules` and
`DriftRules`, on every input and not only those of `MCRules`. `World` says what an input is: a probe of any of the Signals with any
count or refusal for each question, any rows (an agents page holds them all, the pages of lists are cut where the code asks), any thresholds; two inventories
of any plugins with or without an id, in any order, repeated or not, whole or cut; any sequence of clone rows; any date of the
calendar's shape, real or not, and any today. `MeasuresSpec` lets any such input be judged once, and its
invariant is that the result is the verdict of the input, so that each rule is a lemma about an operator:

* `UnreadableHolds`, `RowsHold`, `ThrottlingHolds`: from one lemma for each kind of probe that says when it is down and which numbers it reads.
* `PartialHolds`: a page shorter than its limit is all the instance holds, and no row with an id is dropped. `Filtered`
  describes a filter that is a flattened sequence by the increasing map of its indices; `AllKept` and `KeptCount` follow.
* `SymmetryHolds`, `LastRecordHolds`: both directions of a comparison count the same sets of ids, by bijections (`Counts`, `SameNumber`); for a
  repeated id the last index decides (`HeldRows`, `Recorded`).
* `CloneHolds`: the first row of an Environment's names among those dated is kept by the removal of later repeats of a target.
* `DatesHold`: a year is taken from March on, so that the leap day is its last; `YearStep` and `DayAfter` show that a day later is one
  more by the cases of month end, February and December, over 400 years that repeat (`Eras`, `Leaps`).

`ExactTrends` (`TrendsSpec => []TrendsAreExact`) is about the same kind of rule one step later, where `DashboardTrends` draws what was
stored; it stands here because it needs the same lemmas about sequences. An input (`Drawn`) is any sequence of samples, of hours or of events, each with a time;
that a week is a positive number of seconds (`DashboardAssumption`) is all it assumes of the constants.

* `Ordered`, `Sorted`: a stable order by keys is the sequence in another order. The rank is injective into `1 .. n`, hence onto, so that every place is taken.
* `LineHolds`: by `FlattenBy` over the points, with a statement about every prefix: it shows the values so far, and after its m-th value
  it has as many breaks as there were gaps after that value. `ValuedAppend` and `BreaksAppend` are its two steps.
* `WeeksHold`: both weeks keep disjoint sets of hours whose union is the fortnight, counted by `KeptLists`.
* `TimelineHolds`: what is cut from a sorted sequence is older than what stays.

`HonestSurfaces` (`SurfacesSpec => []SurfacesAreHonest`) is about everything else a window shows. It assumes of the constants what the
tables of the code have: each platform lists a Signal once, every Signal has exactly one arm of `summarize_value`, Availability and the probes that stand for
a platform vote. An input (`Seen`) is any dashboard of distinct Environments, any card or any Drill-in, of what the daemon writes:

* `LookWorld`: the health of each Environment is the daemon's roll-up of the rows shown (`Watched`), its rows are of its platform's Signals, and one of the
  Environments is selected. Between an update of the list and that of the rows the two may differ for a message; no statement is made of that moment.
* `RowTable`: a row that says unreachable is down; without an Availability row, one of those that say so votes; a drift that differs has its count and
  is not the source's.
* `CardWorld`, `DrillWorld`: a payload without error, detail or skip has the number its card shows (`Legible`); a list is a list, and only jobs have two.

One lemma shows each part:

* `ExplainedHolds`: `DaemonTrouble` finds the voting row behind a health that is degraded or down, and `Causes` finds it among the card ids of the platform.
* `CausesFirstHold`: the cards are `Ordered` by rank, and no rank but those of down and degraded is below 2.
* `AgreeHold`: the troubled Environments attended to are mapped into the rows of the sidebar, one to one (`Attended`); of any healths there is a worst (`Worst`);
  the first Environment of each platform heads a group with all of them (`Platforms`).
* `CopiesHold`, `StripHold`, `CountsHold`: arm by arm.
* `DrillHold`: a list that is not cut shows every row (`ShownRows`), also when two are put together (`JobsTold`).

### PersistenceProofs

`SignalEvents`, for any Signals, publishes, stops and failed statements: `NewestIsStable`
(`Spec => []LogIsSound`) and `SkipsLeaveNoTrace` (`Spec => SkipsAreInvisible`). A streak keeps a count and the value
before it; `Remembered` relates both to the last three states stored, and the lemma `Together` shows that a change is
confirmed exactly when those three say so. `Inserted` carries the recorded event over to the step that stores the
streak, `Dated` says that a Signal has one event a second, so that the one just recorded is the newest, and `Newness`
survives pruning because pruning drops the oldest rows. `SignalAssumption` keeps "no value yet" apart from the states.

`StateStore`, for any threads, binaries, number of migrations and age of the file: `EachMigrationOnce`
(`StoreSpec => []MigrationsRunOnce`). `StoreSpec` lets the opens of one file take any steps; its input is any age of the
file, any number of migrations each binary knows and any process for each thread. The property is not inductive: that
no migration runs twice needs that a thread between `BEGIN` and `COMMIT` has the lock, that its second look
under the lock found the next migration missing (`at = Len(sql) + 1` from then on), and that no thread has passed one that has not run
(`Held`). `Migrated` adds that the table has one row a number, whatever names the binaries give.

### HealthEventsProofs

For any Signals, rows, notes, stops, restarts, failed statements, retention and table limit:

* `NewestEventLasts` (`LogIsSound`) and `EventsAreConfirmedChanges` (`EventIffConfirmedChange`), if at most two publishes
  share a second (`AtMostTwo`). The hypothesis is needed and the code meets it: the primary key of an event is its second, so that
  a third publish of one second could confirm a change back whose event is dropped; one daemon publishes twice
  in a second at most, since the poll interval is 30 seconds at least. `Grounded` relates streak and last
  healths and keeps keys unique, `SameSecond` says what an event of this second can be, which is what could stand in the way
  of another one, `Inserted` and `Newness` are as above. Notes are factored out (`Marks`).
* `NotesAreKept` (`NoteSurvives`) and `AlwaysGrounded`, without a condition.
* `ChangesAndBuildsAreExplained` (`LogIsExplained`), without a condition on stops, failures, prunes or the second, from a lemma for each part.
* `ChangesRepeatForACause` (`RepeatsAreCaused`): while the published health stays the same the log gains one event, and
  one more for each publish that was cut short between insertion and storing (`Fresh`: a streak of one has none yet; `Announced`: one that may
  still announce has as many as its cuts).
* `BuildsAreLoggedOrExplained` (`BuildsAreAccountedFor`): `Accounted` follows the newest build
  event through the step that inserts it and the step that stores its build (`Underway`, `Expected`).
  A build event is only ever inserted as the newest or collides, and a prune that leaves any leaves the newest.

### CollectorTickProofs

For any Environments, Signals, faults and ages, from `TickAssumption` and `RowAssumption`; one inductive invariant
(`Inductive`) gives three theorems:

* `HonestSlowRows`: the rows of drift, last clone and scan are written for every Environment or at the price of a fault; an
  inventory is as old as what was read (`Inventoried`), and "never" is said of a page that had every clone.
* `SleepersUntouched`: an Environment found asleep is skipped while its row is young (`Begun` says that who has not begun has written nothing).
* `FaultsAreContained` (`FaultsCostLittle`): the Environments that lack a row, `Short`, are no more than the faults, by cardinality at each
  step; `Lag` counts the samples that no roll-up has yet, one and one for each fault.

### EnvironmentAdminProofs

For any threads, ids, settings, failures, deaths and edits, from `AdminAssumption`:

* `ServesTheStored` (`ServedIsStored`), with `Served`: memory is what a restart would read, unless torn.
* `OneEntryAtATime` (`WritesTouchOneEntry`). What an operation knows of the files is so (`Informed`) as long as it was not raced
  by another process or an editor, because from reading the list to its last write a worker holds the lock of its
  process (`NeedsLock`, `Orderly`), so that nobody there writes in between.
* `OrphansExplained` (`OrphansHaveAReason`): each step that could leave a credential without its Environment is that of a
  failed write, a death, an editor, or a worker that was raced.

### DesktopWindowsProofs

For any number of Environments, transitions, publishes, restarts, cuts, clicks and weeks, from `DesktopAssumption` and `NoneAssumption`:

* `WindowsShowWhatTheyList` (`WindowsStandFirm`), without a condition.
* `EachIsAnnouncedOnce` (`AnnouncedOnce`), without a condition. The property itself says what the code cannot promise: an
  Environment that left the list and came back, and a transition that `SeenCap` newer ones have followed. It speaks of one step; what it rests on is `Settled`: of an
  Environment that never left the list, every transition that a queued message, the cache or the next publish can still bring
  and that is no newer than one already posted is remembered, or outlived (`Outlived`). For that, the batches of one Environment on the way follow each
  other in order, and each holds the newest of the log of its time (`Leads`, `Complete`, `Agreed` in `Batches`), each batch comes after a list
  that has its Environment (`Listed`), and transitions are numbered apart (`Numbered`), so that the cap cuts by age (`RankRule`).
  `Marked`: unless a write has failed, the digest's mark is on the disk before a restart can read it.

### Only model-checked

* Liveness, which TLAPS does not treat: `EventuallySettled`, `Converges` and the other temporal properties of the runs.
* `OldRowsNeedAFault`, which says of the collector where a row of an earlier round may stand for this one's.
* `EdgesHold`: statements about operators on every input of small sets. Most of their operators
  sort, filter or fold with an order or a test as a parameter (`SortSeq`, `SelectSeq`, `FoldFunction`), which the prover cannot instantiate.

## Not modelled

* HTTP, TLS, JSON, SQL planning, layout, colours and wording. A probe's answer, a payload and a text are values of small sets.
* Handshake and authentication of a connection; `monitor_remote`; the quarantine of a corrupt file on the
  desktop's side.
* `test_support.rs`, `payload_contract.rs`, `tests/`: they run in tests only.
* `updater.rs`, `theme.rs`, the platform glue of `platform.rs` and `lib.rs`: calls of the operating system, and a check for a release
  that keeps no state of its own.
* A wall clock that goes back: the cursor of the relay is a second of it, and no statement about the backlog survives.
* Sharing of one database by Environments: the event and relay models follow one, `CollectorTick` two.

`PROJECT.json` lists every part with its reason, and every hazard of the code
with the properties about it or the reason there is none.

## Plan

1. Proofs: the orders and filters of `EdgeRules` and `ScreenRules` in the index form of `Kept` and `ByKey`, with which `EdgesHold` could be proved for every input.
2. `RemoteMonitor`: `monitor_remote`, composed with `DaemonClient`.
3. `DesktopWindows` with two detached windows and a sheet in each.
4. The quarantine of corrupt settings, and the release check of `updater.rs`.
