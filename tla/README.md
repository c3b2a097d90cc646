# SIEM-Plus: a verification project

TLA+ models of the parts of SIEM-Plus that move, keep or lose security events,
the TLC runs that check them on small instances, and theorems about them that
TLAPS checks for every instance.  Paths below are relative to `src/`.

## 1. The system

SIEM-Plus collects events on endpoints, ships them to a manager, runs detection
rules over a topic of events, and shows alerts to analysts.

| Part | Code | State it keeps | Operations |
| --- | --- | --- | --- |
| Agent process | `agent/src/main.rs`, `op/` | spawned tasks, the original channel sender | start services, wait for ctrl-c, join |
| Uploader | `agent/src/uploader/` | unbounded channel, in-memory batch, `last_flush` | receive, flush on size / on interval / on close |
| Telemetry, procmon, netmon | `agent/src/telemetry/`, `procmon/`, `network/` | none (Windows procmon: last process snapshot) | sample, send, sleep |
| File integrity monitor | `agent/src/fim/` | hash cache, watcher queue | scan, watch, hash on event, report |
| Manager API | `manager/internal/` | PostgreSQL rows, Redis counter, JWTs | login, CRUD of agents, alerts, cases, rules; ingest; dashboard |
| Detection engine | `detect/src/` | Kafka group offsets, loaded rules | receive, evaluate every rule, count alerts |
| Detection process | `detect/src/main.rs`, `metrics.rs`, `sigma/mod.rs` | rules, counters, two tasks | load the rules directory, run the engine and the metrics server, scrape |
| Agent configuration | `agent/src/config.rs` | `agent_key` and the other values, read once | expand `${VAR}` from the environment |
| SOAR | `soar/soar/` | none | run the actions of a playbook |
| UI | `ui/src/` | persisted session, query cache | login, logout, queries |
| Deployment, scripts, marketplace | `infra/`, `scripts/`, `marketplace/` | declarative | none of its own |

Interaction: collectors --(crossbeam channel)--> uploader --(HTTP POST
`/api/v1/events`)--> manager; topic `events` --(Kafka consumer group)-->
detection engine; SOAR and UI call the manager or its database.  The manager
does not publish to Kafka yet (`events.go:33`) and the engine does not publish
alerts yet (`engine.rs:81`), so the two halves of the pipeline are modelled
separately, each with the other end as an environment.

What is hard, and what would make each part correct:

* **Uploader.** A post can be refused, time out after 30 s while the manager
  still works on it, or succeed with the answer lost; the batch must survive all
  of these, without loss, reordering or clearing what was not processed, and be
  retried.  Everything is in memory, so a restart loses what was not
  acknowledged.  The task stops only when the last sender is gone.
* **Agent process.** Blocking receives inside async tasks share a fixed number
  of worker threads with timers, sockets and signals, which only the one idle
  worker parked on tokio's driver sees; shutdown joins tasks that hold each
  other's channel ends.
* **File integrity monitor.** Files change during the scan, before their watch
  is registered, and between an event and its hash; and the watcher does not
  notice every change.
* **Detection engine.** Offsets are committed by a timer, independently of
  processing; replicas crash, lose their session, are rebalanced and stopped.
* **Detection process.** The rules directory is listed and read while operators
  edit it; counters are read one by one while the engine increments them; one of
  two tasks may end without the other.
* **Manager.** Rows are deleted while others are being made to refer to them; the
  dashboard issues nine statements without a transaction; handlers use
  rows-affected to tell errors from missing rows; a crash falls between a
  statement and its answer, and a database reply may be lost after the commit;
  tokens expire and nothing renews them; the Redis client repeats increments.
* **Agent configuration.** `agent_key` is expanded when the process starts: a
  token that is renewed later reaches the agent only through a restart, which
  loses what it held.
* **UI.** The query cache knows pages and not sessions, and survives a logout;
  fetches outlive the page and the session that began them; a persisted login
  outlives its token.

`PROJECT.json` lists every component with its status and every hazard with its
line and the properties aimed at it.

## 2. Modules

| Module | What it is | Code it models |
| --- | --- | --- |
| `AtLeastOnce` | what the event pipeline promises: in-order, at-least-once, only unacknowledged events can be lost | (abstract) |
| `Uploader` | channel, batch, posts, manager's answers, late requests, shutdown, restart | `agent/src/uploader/mod.rs`, `main.rs`, the collectors' sends, `events.go`, `middleware/auth.go` |
| `UploaderProofs` | theorems about `Uploader` | |
| `MCUploader` | symmetry for TLC | |
| `UploaderTimed` | `Uploader` with the clocks of its loop | `agent/src/uploader/mod.rs` |
| `IngestPath` | `Uploader` composed with the configured key, the token check and the Redis counter of the ingestion endpoint | `agent/src/config.rs`, `middleware/auth.go`, `api/auth.go`, `events.go`, `database/redis.go` |
| `PipelineProofs` | theorems about `UploaderTimed` and `IngestPath`, the two specifications built on `Uploader` | |
| `ManagerStore` | requests from acceptance to answer: the handlers that write, the dashboard, stops and crashes of the server, over the tables | `manager/internal/api/`, `cmd/server/main.go`, `infra/postgres/init.sql` |
| `ManagerProofs` | theorems about `ManagerStore` | |
| `AgentRuntime` | the services on tokio's worker threads and its driver; start and shutdown | `agent/src/main.rs` and the top-level loop of each service |
| `AgentRuntimeProofs` | theorems about `AgentRuntime` | |
| `DetectEngine` | replicas of the engine over the group's offsets; the rule loop and `evaluate_rule` | `detect/src/engine.rs`, `main.rs`, `sigma/mod.rs` |
| `MCDetectEngine` | three rules over three payload kinds | |
| `DetectEngineProofs` | theorems about `DetectEngine` | |
| `DetectProcess` | the engine's process: loading rules, its two tasks, its counters and their scrapes | `detect/src/main.rs`, `metrics.rs`, `sigma/mod.rs`, `engine.rs` |
| `DetectProcessProofs` | theorems about `DetectProcess` | |
| `Session` | a browser tab: login, logout, expiry, the Alerts page and its query | `ui/src/stores/authStore.ts`, `App.tsx`, `pages/Login.tsx`, `pages/Alerts.tsx`, `main.tsx`, `manager/internal/api/auth.go` |
| `SessionProofs` | theorems about `Session` | |
| `Fim` | scan, watches, event processing, hash cache | `agent/src/fim/` |
| `FimProofs` | theorems about `Fim` | |
| `MCFim` | a recursive directory, and an entry for one of its files | |

Operators marked `mutant:` in a module are faulty variants of the operation that
follows them.  No specification uses them: they document which bug each property
would catch, and `PROJECT.json` pairs them with properties.

### Uploader

One action per outcome of a channel operation or await in `run` and
`flush_batch`.  `pc` is `init` (building the HTTP client), `recv`
(`recv_timeout`), `flush` or `closing` (inside `flush_batch`, called from the
loop or after `Disconnected`), `done`.  `due` says that `flush_interval` has
elapsed since `last_flush`; `Tick` sets it, the end of a flush resets it.  `req`
is the exchange: `sent`, then the manager's `ok` or `rejected`, read by `RespOk`
and `RespRejected`; `GiveUp` is every error of `send().await` (refused,
time-out, answer lost).  A request that was still `sent` when the agent gave up
or was killed goes to `late`, from where the manager may process it at any time
or never.  `Restart` is a kill and a new start of the process.  The history
variables `accepted`, `acked`, `lost` and `delivered` record what became of each
event; `accepted` forgets what `lost` gains.

`Restart` is no step of the running agent (`AgentStep`): `IngestPath` gives it
a configuration to load.

### UploaderTimed

Extends `Uploader`, whose `Tick` lets `flush_interval` elapse at any moment.
Here time passes (`Pass`) while the task waits in `recv_timeout` with nothing
to receive, one unit at a time and never beyond the timeout; `RecvOk` starts the
next call from zero, and only a call that waited in full reaches the branch that
looks at `last_flush`.  `since` is what `last_flush.elapsed()` says, capped at the
interval; `held` is a history of how long the batch has held events.  Time spent
elsewhere (an exchange, a busy channel) is not counted, since `last_flush` is
taken anew when an exchange ends, and a channel that is never empty fills the
batch.

### AtLeastOnce

The abstract specification: a queue of accepted events, a prefix of it
acknowledged, events seen by the other end, events lost when what is not
acknowledged is dropped.  `Uploader` implements it with `seen` mapped to the
events the manager has processed at least once (`Implements`).

### IngestPath

Extends `Uploader`: the agent's steps are the same, the manager's answers now
depend on `key`, what the agent has as `agent_key`: a JWT that `Expire` ends for
good (nothing renews it), or something the middleware never accepts, such as a
registration key or the placeholder `${...}` that `expand_env` leaves for a
variable that is not set.  `Login` issues a new token and puts it in the
environment (`env`); only `Reload`, a restart, takes it up.  `sent` remembers
the key of each request that was given up on, which the manager checks when the
late request arrives.  An exchange is known by the number of faults before it;
`passed` holds those that the middleware has let through (`Check`, `CheckLate`) and
the handler has not come to, so a token may expire in between.  `count` is the
tenant's Redis counter.  The Redis client is external: `redis.go` leaves go-redis's
`MaxRetries` as it is, so an `IncrBy` whose attempt fails is sent again, whether or
not Redis had carried it out, and `Count` is any outcome of that; `slips` counts
the failed attempts, which nobody looks at.  A late request is counted like any
other.  `CounterFollows` compares the counter with what is `confirmed`:
acknowledged, or about to be (`Unconfirmed`, a success whose answer is under way).
A behaviour is about finitely many events and at least one token, since the agent
may start with one.

### ManagerStore

One action per handler that writes, named `<Resource><Method>`; `live` is the set
of rows of all tables, `status` their status or `enabled` column, of which only
"does the dashboard count it as active, enabled or open" matters; `refs` and
`links` are the foreign keys.  Severity does not change after insertion in this
model, though `CaseHandler.Update` and `RuleHandler.Update` may change theirs,
which nobody counts.  `busy` holds the requests the listener has accepted and not
yet answered, the dashboard's included: they reach their statements whether or not
the server is draining by then.  `Request` is a statement and the answer made ready
after it: the handler's own, or, when the database commits and its reply is lost,
the one it gives for an error.  `StatementFails` is any error that leaves the rows
alone.  `reply` holds answers ready and not sent, with whether the row existed when
the statement ran.  Nothing in the repository inserts alerts yet, so `AlertInsert`
is the environment's, under the table's constraints.  The dashboard's nine queries
are nine steps `StatsQuery` or `StatsQueryFails`, then `StatsAnswer`.  `Shutdown`
closes the listener, `ExitDrained` follows when every accepted request is answered,
`ExitForced` when five seconds have passed before that.

### AgentRuntime

`st` gives each task's state: `queued` for a worker, `running` on one (the blocking
receives of the uploader and the file monitor keep theirs), `waiting` for a timer, a
socket or a name, `finished`, or `dead` by a panic or the end of the process.  The
scheduler is external and follows tokio 1.35's multi-thread runtime, of which
`src/` relies on the defaults.  An idle worker is parked on the driver of timers,
sockets and signals if nobody is (`driving`), and sleeps on its own condition variable
otherwise (`asleep`).  A task made runnable wakes one parked worker, unless some
worker is `searching` already (`Notify`); a worker that comes back from a task takes
from its own queue without telling anyone (`Take`).  `DriverTurn` is the step that
matters: the worker on the driver wakes the tasks whose timers or sockets are ready,
leaves the driver and runs one of them; it notifies another worker only if there is
a second.  So when the one it runs is the uploader, back from a post, it goes into
the next `recv_timeout` with nobody on the driver, and the sleeping workers are not
told.

`run_agent` itself runs on the thread that called `block_on`, so it needs no worker,
but its ctrl-c future is woken by the driver.  Its errors end the process (`Fail`): a
signal handler that cannot be installed, or the JoinError of a task that panicked,
which telemetry may at every sample (`TelemetryPanics`).  `enabled` is chosen in
`Init`.  The operations service and the process and network monitors only sleep; on
Windows the process monitor also diffs process lists before it sleeps, and sends
nothing.  Left out are the short look at the driver that a worker takes once in 61
rounds of its loop (it adds wake-ups, but a worker that parks in that instant finds
the driver taken and sleeps, which is one more way to lose it), requests that fail
before they are sent because the configured URL or key makes none, and the order in
which the runtime drops its tasks at the end.

### DetectEngine

`log`, `committed` and `owner` are the broker's; `pos` is the offset stored by
the client library, which advances when `recv()` returns (`Recv`).  `AutoCommit`
may happen at any time between `Recv` and `Done`.  `Revoke` happens inside
`recv()`, so with no message in hand; `SessionLost` does not wait for that.
`RunRule` is one iteration of the loop in `process_event`, so a crash can fall
between two rules.  A rule is its set of conditions; a condition is true of a set
of payloads, and its operator is one the evaluator knows or not.  As in the code,
`detection.condition` plays no part.

### DetectProcess

The process around the engine.  `Edit` is the world: files of the rules
directory are created, removed and overwritten in place, a half-written file
being one of its contents.  `Entry` is one iteration of `load_rules`: a name the
listing returns, read and parsed, or warned about and skipped; files created or
removed during the listing (`moved`) may be returned or not, all others are.
`TaskEnds` is either task returning an error before its loop, `Select` the end of
`select!`.  `Recv` and `Tally` are the increments of the engine's counters in their
order, `Gather` and `Answer` the handler of `/metrics`, which reads the counters
one at a time.  Which rule matches is left open here.

### Session

Tokens are numbered by session.  `Submit`, `SignedIn`, `LoginFails` and `Logout`
are the login form and the store that keeps `isAuthenticated` in local storage;
`Expire` is the manager's, and nothing in the tab notices it.  The query library
is external, modelled as the page uses it: one cache entry under the key
`["alerts"]` for all sessions, a fetch at every mount unless one is under way
(which is then joined), one retry, by which time another session may be signed
in.  `Reload` keeps local storage only.

### Fim

`ScanFile` hashes one file for one entry (subdirectories are not scanned, even for
recursive entries; a file under two entries is hashed for each, and keeps its hash
when the second reading fails), `Watch` registers one entry, `Process` is one
iteration of the event loop: watch errors, events without a path and excluded paths
are passed over; else hash before from the cache, hash after from the file as it is
now, cache update, report.  `Change` and `Rename` are the world; a rename raises
three events, as the watcher library does.  The watcher is external and does not
notice every change of a watched file: a directory renamed or removed above it, a
file in a subdirectory that is too new to be watched, a watch that went with the
file or directory it was on, each raise none (`Seen`), and a full queue drops the last
events of a change (`Happen`); a message that names no file (`NoPath`) may follow.
`missed` records the files that changed, or existed, with no event raised and none to
come from the scan.  Exclusion is a set of files: `should_exclude` tests the patterns
of all entries on every path, as literal substrings (so `*.log` of the example
configuration excludes nothing).

## 3. Runs

| Run | Instance | What it shows |
| --- | --- | --- |
| `uploader_safety` | 4 events, 2 collectors, batch size 2, 2 faults, symmetry | `Accounting`, `AckedWasDelivered`, `DuplicatesNeedFaults`, `OverfullOnlyAfterFailure`; `EveryEventOnce`: each event is still to come, accepted once, or lost, and never two of these; `Implements`: the uploader refines `AtLeastOnce` |
| `uploader_timed` | 3 events, batch size 3, 1 fault, a timeout of 2 and an interval of 3, no symmetry | a stream puts a flush off by one timeout per event and no more; every event taken is uploaded or lost; the task stops once the last sender is gone |
| `agent_runtime` | 3 workers, every subset of telemetry, fim and procmon, batch size 1, 1 event in the channel | a queued task always has a worker, and the driver is lost in one way only (`NeverStarved`); services start; sampling goes on and ctrl-c is noticed unless the driver is lost; the uploader stops last; `JoinHangs`: after ctrl-c run_agent does not get past its joins |
| `agent_starved` (violated) | the same with 2 workers | two blocked workers and nothing else ever starts |
| `agent_shutdown` (violated) | the same with 3 workers | shutdown never completes |
| `detect_engine` | 2 replicas, 1 partition, 2 events, 3 rules, 2 faults, no symmetry | loss and repetition are bounded by crashes and lost sessions; order; alerts; commits never move back; every event is processed or lost with a replica |
| `detect_process` | 2 files, 2 edits, 2 messages | the rules loaded are those on disk but for files edited meanwhile; what two scrapes have in common; both tasks end together |
| `ingest_path` | 2 events, batch size 2, 2 faults, 2 tokens, 1 retry, 2 failed attempts at Redis | the tenant's counter against what was acknowledged, or is about to be; uploads settle unless the key is refused for good |
| `session` | 3 logins | the page shows the answer of the session signed in; answers never go back |
| `manager_store` | 1 row per table, 4 writes, 1 fault, 1 write in flight beside the dashboard | references, dashboard counts, what clients are told |
| `manager_not_found` (violated) | the same without faults | a broken foreign key is answered 404 |
| `fim` | 3 files (one excluded, one below), a directory and an entry for one of its files, 2 contents, 2 changes | the cache is out of date only for changes without an event; reports chain and catch up |

Bounds.  Two faults allow a request to be abandoned, retried, abandoned again
and both late copies to arrive in either order, or a restart in between; four
events with a batch size of two allow two batches and an overfull one.  With
clocks, one fault is enough to keep a batch for a retry, and a timeout shorter
than the interval with room for three events lets the flush be put off twice,
which is as far as `HeldBounded` allows.  Three
workers are the least with which the two blocking services leave one, two
the most with which they do not; the network monitor is one more task like
procmon, and one event in the channel and one in the batch are enough for a flush
that is followed by another receive.  Two replicas, two events and two faults let a
partition change hands with a message in hand before, at and after the committed
offset, and both replicas hold the same message; the proofs cover more.  Two
files and two edits allow one file to appear and another to break while they are
listed; two messages, an error between two alerts.  Two tokens are an old and a
new one; one retry and two failed attempts let an increment be repeated, be given
up, or be carried out and reported as failed, in two exchanges or in one; three
logins, a fetch, its retry and a page of three sessions.  Two changes suffice for a
change before or during start-up and one after it, or a rename over a file that was
just written; the proofs cover more.  Four writes are the least that create a case
and an alert, link them and delete the case, or create and activate an agent between
two counts.  `QueueCap` saturates the number of events
in the channel in `AgentRuntime`, and `BatchSize` those in the batch, whose properties
only ask whether there are any.

Fairness.  `UploaderTimed`: weak fairness of the uploader task, which the runtime
polls (`AgentRuntime` says when it does), and of time while it waits; strong
fairness of the manager accepting a batch it is offered again and again, an
assumption about the environment that an expired token breaks.  Faults are
finitely many.  `Uploader` itself states none: its run checks safety.
`IngestPath`: the agent as before, and the manager checks and handles what it is
sent; nobody has to log in, and tokens may expire or not.  `AgentRuntime`: threads
run, and so does a task that has a worker (weak); strong fairness of the workers that
look for a queued task, which are there again and again, and of their parking when
there is none; and of `DriverTurn` for telemetry's timer and of `CtrlC`, which both
need a worker on the driver: they are promised only if one comes back there again and
again, and `TelemetryKeepsSampling` and `CtrlCNoticed` state what happens if none does.
Nothing is assumed of file events, of answers to posts, or of a worker that would take
the driver over.
`DetectEngine`: replicas run and are restarted, and neither rebalances nor stops
come between a replica and its next message for ever.  `DetectProcess`: the
directory is read on, and the runtime polls `select!` once a task has ended.
`Fim`: the monitor's task runs; it has a worker to itself.

Deadlock is not checked where the code may stop: an uploader that has returned, a
monitor whose files no longer change, and, in `detect_process`, where the bounds
leave nothing to do.

## 4. What the violations say

* `agent_starved`: on two cores, the uploader in `recv_timeout` and the file
  monitor in `rx.recv()` can hold both workers from the start; no event is ever
  produced to make the uploader yield, and even ctrl-c is not noticed.  More cores
  let every service start, but do not take this away: see below.
* `manager_not_found`: `RowsAffected` is zero for a missing row and for a statement
  that broke a foreign key alike, and both are answered 404.
* `agent_shutdown`: the uploader waits for the collectors' senders, the
  collectors never return, and if none is enabled `op::run` does not either.  The
  run shows one behaviour; `JoinHangs`, which is proved, says that every one ends
  like this, or with an error, on any number of workers and with any collectors.

Limits the properties state rather than violate:

* With any number of workers, the one that is parked on the driver may resume the
  uploader from a post and go with it into `recv_timeout`, while all others sleep.
  Nobody looks at timers and signals then: sampling stops and ctrl-c is not
  noticed until a file event makes the uploader post again, and for good if none
  comes (`DriverLost`, the exception in `TelemetryKeepsSampling` and `CtrlCNoticed`).
  `NeverStarved`, which is proved, says that this is the only way with the scheduler
  as modelled.
* Nothing bounds the batch while the manager refuses it (`OverfullOnlyAfterFailure`
  says that it grows only then); `max_memory_mb` is parsed and never used.
* A change the watcher does not notice leaves a wrong hash in the cache until the
  file's next event: nothing scans again, and a rescan notice, which names no file,
  is dropped (`fim/mod.rs:122`).  `StaleOnlyIfMissed` says that these are the only
  wrong hashes.
* A row can be written and its creator be told 500 (`CreatedIsTold` counts these), and
  the event counter can run ahead of what was uploaded (`CounterFollows`).

## 5. Proofs

Each theorem holds for every value of the constants that satisfies the named
assumption of its module.

**`UploaderProofs`**, for every set of events and collectors, every batch size
(zero included) and every number of faults, assuming only `UploaderAssumption`
(the constants have their types, run_agent is not a collector):

* `TypeCorrect`: `Spec => []TypeOK`.  `TypeOK` is inductive because it also says
  that a flush has a non-empty batch and that only a waiting task has a request
  on the wire.
* `AccountingCorrect`: `Spec => []Accounting`.  `accepted = acked \o (batch \o
  queue)` is inductive relative to `TypeOK`; the lemmas `ShiftHead` and
  `DiscardAccounts` carry the sequence algebra.
* `AckedCorrect`: `Spec => []AckedWasDelivered`.  By itself not inductive: the
  agent clears the batch one step after the manager answered, so the
  strengthening `OkMeansDelivered` says that while a 2xx answer is on its way the
  manager has processed the batch.
* `OverfullCorrect`: `Spec => []OverfullOnlyAfterFailure`, strengthened by
  `InitEmpty`: the batch is empty until the client is built.
* `DuplicatesCorrect`: `Spec => []DuplicatesNeedFaults`, by a potential (`DupInv`):
  the times the manager processed an event, plus the late requests that hold it,
  plus one if its present exchange is still ahead, is at most one more than the
  faults.  It needs `Single`: an event is in one place of the batch and the queue.
* `ImplementsCorrect`: `Spec => Implements`, the refinement of `AtLeastOnce`.
  `QueueInv` is what the mapping needs beyond the theorems above: what the
  manager has, alone or with any one late request, is the oldest of the accepted
  events, so processing the batch or a late request keeps the order.  `Send`,
  `SendFails`, `PeerAccept` and `LateAccept`, `RespOk` and `Discard` are the steps
  of the abstract queue; all others stutter.
* `OnceCorrect`: `Spec => []EveryEventOnce`, inductive relative to `TypeOK`,
  `Accounting` and `Single`; the step to see is `Discard` (`DiscardOnce`): what is
  written off is disjoint from what was uploaded because `accepted`, of which both
  are parts, repeats nothing.
* `LeavesNothing`: `Spec => []NothingLeftBehind`, the half of `EverySentIsSettled`
  that needs no fairness: when the task has returned, everything the channel took
  is uploaded or written off.

**`PipelineProofs`**, on the two specifications built on `Uploader`.  For the clocks,
assuming `TimedAssumption` (a timeout of at least one unit):

* `TimedImplements`: `TimedSpec => Spec`, so the theorems above hold with clocks.
  Only `Pass` needs an argument: it raises `due`, as `Tick` does, or leaves it.
* `HeldCorrect`: `TimedSpec => []HeldBounded`.  `ClockInv` says how `due`, `since`
  and `wait` agree; `HeldInv` counts, with `Carried`, the timeouts that the events
  now in the batch have begun anew.

For the ingestion path, assuming `IngestAssumption` (finitely many events, which the
counter is compared with; at least one token, since `IngestInit` may start with
one: without this `TokensCorrect` is false):

* `IngestImplements`: `IngestSpec => Spec`, so that the theorems above hold of the
  agent against the real endpoint; `PathImplements` says so of `Implements`.
* `TokensCorrect`: `IngestSpec => []TokenInv`.  The key of each failed exchange and
  each restart is on record in the order of the faults, so the one a late request
  was sent with is found under its number.
* `CounterCorrect`: `IngestSpec => []CounterFollows`, for any number of retries.  Not
  inductive: a request that was given up on is counted when it arrives late, in a
  step without a fault.  `CounterInv` therefore leaves room for each late request, as
  large as all events (`BatchFits`: a batch holds an event once, by `Single`), within
  what the faults allow; giving up takes the room (`CounterFault`), a late arrival
  uses it up (`CounterLate`), an answer moves what was counted to what is confirmed
  (`CounterAccept`, `CounterConfirm`).  One handling counts a batch once, give or take
  once for each attempt that fails (`Handled`, `Attempts`).

**`AgentRuntimeProofs`**, assuming `RuntimeAssumption` (at least one worker):

* `StopsLastCorrect`: `Spec => []StopsLast`.  `RunInv` says that services are
  spawned in order and that an uploader that is closing or finished has drained
  its channel with every enabled collector gone.
* `TypeCorrect`: `Spec => []TypeOK`; that every worker is in one place at most follows
  from counting those on tasks, parked and searching before and after each step
  (`Fits`).
* `JoinHangsCorrect`: `Spec => []JoinHangs`.  `JoinInv` says that the tasks that only
  sleep or sample never finish, that only telemetry panics while run_agent goes on,
  and that run_agent is past the uploader only once that one has finished; with
  `StopsLast`, an enabled collector that is alive keeps it there.
* `NeverStarvedCorrect`: `Spec => NeverStarved`, an invariant and an action property.
  `WakeInv`: only the uploader, the file monitor and the sampling of telemetry hold a
  worker between two steps, and while a task is queued some worker searches or none
  is parked; so of three workers one is awake.  A step that leaves nobody on the
  driver, and nobody awake, is a turn of the driver that resumed the uploader
  (`DriverStep`).

**`DetectEngineProofs`**, for any number of replicas, partitions, events, rules and
faults, assuming `EngineAssumption`.  `EngineInv` is the base: nothing is
committed or stored beyond the topic, an owner runs and has stored at least what
is committed, a replica holds one message.  `GroupStep` is what commits,
rebalances, stops and crashes have in common, so that each argument makes it once.

* `CommitsCorrect`: `Spec => CommitsAdvance`, from the owner's stored offset being
  at least the committed one.
* `InOrderCorrect`: `Spec => []InOrder`, from `OrderInv`: everything before a
  processed message, or one in hand, is committed or processed; everything before
  a stored offset is that or in the owner's hand.
* `LossCorrect`: `Spec => []LossNeedsFaults`.  `LostSteps` shows that a message
  becomes lost only when a replica drops it from its hand, and only a crash does
  that, with one message.  `OnlyCrashesCorrect` says this of every step
  (`OnlyCrashesLose`).
* `NothingSkippedCorrect`: `Spec => []NothingSkipped`: a message that is not
  processed, in hand or lost is still ahead of where its partition will next be
  read, which is what `EventuallyHandled` needs beyond fairness.
* `RepeatsCorrect`: `Spec => []RepeatsNeedFaults`, by a potential (`RepeatInv`): the
  times a message was processed, plus the replicas that hold it, plus one if it
  is still ahead of where its partition will next be read, is at most one more
  than the faults.
* `AlertsCorrect`: `Spec => []AlertsComplete`, from `AlertInv`: a message in hand
  has raised the alerts of the rules already run.
* `TypeCorrect`: `Spec => []TypeOK`.

**`DetectProcessProofs`**, for finitely many files, assuming `ProcessAssumption`:

* `StaleCorrect`: `Spec => []StaleOnlyIfWritten`.  `LoadInv` states it file by
  file while the listing goes on.
* `ScrapesCorrect`: `Spec => []LaterScrapeCovers`.  `CountInv` bounds the errors by
  the messages, and the alerts by the rules times the messages that were no
  errors, counts of one reading by the counters, and so by any later reading.
* `TypeCorrect`: `Spec => []TypeOK`.

**`FimProofs`**, for any files, entries, contents and changes, assuming
`FimAssumption` (directories hold files; a message without a path is about none):

* `StaleCorrect`: `Spec => []StaleOnlyIfMissed` and `ChainCorrect`: `Spec =>
  ReportsChain`.  `FimInv` says that the scan precedes the watches and that a failed
  monitor watches nothing; with it, `CacheInv`: a file that is neither still to be
  scanned, nor the subject of a queued event, nor missed, is cached as it is, and
  the last report of a file agrees with the cache.  Nothing is assumed of the
  watcher: any change may go without its event.
* `CurrentCorrect`: `Spec => []ReportsCurrent`, the half of `ReportsCatchUp` that needs
  no fairness: with no event of a file waiting, its last report says what it is.
* `TypeCorrect`: `Spec => []TypeOK`.

**`SessionProofs`**, for any number of logins:

* `ShowsOwnCorrect`: `Spec => []ShowsOwnAnswer` and `AdvanceCorrect`: `Spec =>
  AnswersAdvance`, from `TabInv`: there is at most one fetch, it began no earlier
  than the answer in the cache, and a page that joined nobody waits for a fetch
  of its own session.

**`ManagerProofs`**, for every finite set of rows, any clients and bounds, assuming
`StoreAssumption`: the tables are disjoint (an alert is not a case, and neither is
an agent or a rule), the clients finitely many, the dashboard's request none of them,
and NULL is neither a status nor an answer.

* `StoreTypeCorrect`: `Spec => []TypeOK`, one lemma for what requests have in
  common and one for each kind of statement.
* `ReferencesHold`: `Spec => []NoDangling`, inductive relative to `TypeOK`.  An
  alert is inserted with references to live rows and never deleted; a row
  outside the table of alerts is deleted only if no live alert refers to it, and
  takes its links along.
* `StatsCorrect`: `Spec => []StatsAgree`.  `StatsInv` bounds what each whole would be
  counted as now: no more than its count plus the rows written since the request
  began, since a statement writes one row (`OneRow`); the part is counted later,
  among the rows of the whole.
* `CreatedCorrect`: `Spec => []CreatedIsTold`.  `ToldInv` counts as told only those
  whose own 201 is ready, not whom some other request is about, so that an answer
  leaves nobody behind; a lost database reply leaves one row (`OneMore`), and what an
  exit cuts off is one row per client (`CutOff`).
* `AnswersCorrect`: `Spec => AnswersHonest`.  When an answer is computed, an error has
  changed nothing, but for a lost database reply, and a success had its row; and an
  existing row is answered 404 only if alerts refer to it, if it is an alert or a case
  (which can be given to a user without a row), or if the statement failed or its reply
  was lost.  This is how far the violation
  of `manager_not_found` goes.

Every safety invariant and action property of a passing run is stated by a theorem.
Only model-checked: the liveness properties, `AllServicesStart`,
`TelemetryKeepsSampling`, `CtrlCNoticed`, `EverySentIsSettled`, `UploaderStops`,
`EventuallyHandled`, `HalvesEndTogether`, `SettledOrRefused` and `ReportsCatchUp`,
which rest on fairness and are beyond the prover.  What they need of safety is
proved where there is something to prove: `NeverStarved` for the first three,
`NothingLeftBehind`, `NothingSkipped` and `ReportsCurrent`.  The three violations are TLC's too.

## 6. Not modelled

* Values measured by telemetry, sizes and permissions of files, logging, the
  UI's rendering and its other pages (which query as the Alerts page does), and
  the reads of the manager that are one statement and change nothing: no property
  here depends on them.  Of the configuration only `agent_key` and the enabled
  flags matter; a file that does not parse ends the process before it does
  anything.
* The Windows process monitor compares process lists and only logs what it finds.
* SOAR: actions of a playbook run one after the other, keep no state, and every
  connector is a stub.  The state store of the engine is never called.  The
  crypto helpers are never called either.
* The status of an alert and its `resolved_at` are written by handlers that do not
  look at each other, and a query without a row is answered 200 with null: both
  are what the code does on its own, without any interleaving, and are listed as
  hazards without a property.
* An expired token leaves the Alerts page without data, and a page without data
  reads "No alerts found": a matter of rendering, which `Session` leaves at
  `failed`.
* `load_rules` does not look into subdirectories, where the marketplace rules
  lie; a rule that is in two files is loaded twice.  `DetectProcess` has one flat
  directory and a rule per file.
* Scripts and deployment files.  `scripts/import-sigma-rules.sh` copies rules once
  and offline; under `set -e` its first `((IMPORTED_COUNT++))` ends it.

## 7. Plan

1. Proofs: what the promise of `AtLeastOnce` gives a reader of it (what is
   acknowledged was seen, and is a prefix of what was accepted), for every
   implementation of it.
2. Registration of users and the manager's reads with their missing-row answers,
   should the code come to check what it reads before it writes.
