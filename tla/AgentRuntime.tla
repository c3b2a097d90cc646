---------------------------- MODULE AgentRuntime ----------------------------
(***************************************************************************)
(* The agent process: run_agent spawns its services on a tokio runtime,     *)
(* waits for ctrl-c and joins them.  A task keeps its worker thread until    *)
(* it awaits; the uploader's recv_timeout and the file monitor's rx.recv are *)
(* blocking calls inside async tasks, so they keep theirs.  Timers, sockets  *)
(* and signals are seen only by the one idle worker that is parked on the    *)
(* driver; the other idle workers sleep until they are notified.            *)
(***************************************************************************)
EXTENDS Naturals, Sequences, FiniteSets

CONSTANTS
  Workers,     \* number of worker threads, by default the number of cores
  BatchSize,   \* performance.batch_size
  QueueCap,    \* the model counts queued events up to this bound
  Configs      \* the sets of collectors that a configuration may enable

Collector == {"telemetry", "fim", "procmon", "netmon"}

ASSUME RuntimeAssumption ==
  /\ Workers \in Nat \ {0}
  /\ BatchSize \in Nat
  /\ QueueCap \in Nat \ {0}
  /\ Configs \subseteq SUBSET Collector
\* The order in which run_agent spawns the services, and joins them.
Order == <<"uploader", "telemetry", "fim", "procmon", "netmon", "op">>
Services == {"uploader", "op"} \cup Collector
Sleepers == {"procmon", "netmon", "op"}

VARIABLES
  enabled,     \* the collectors the configuration enables
  main,        \* run_agent: spawning, waiting for ctrl-c, joining, stopped, failed
  next,        \* the service it spawns or joins next
  signal,      \* ctrl-c has been pressed
  st,          \* each task: unspawned, queued, running, waiting, finished, dead
  started,     \* tasks that have been polled at least once
  driving,     \* an idle worker is parked on the driver
  asleep,      \* number of idle workers that sleep on their condition variable
  searching,   \* number of workers woken to look for a queued task
  up,          \* the uploader: building its client, receiving, flushing
  queue, batch \* number of events in the channel and in the batch

workers == <<driving, asleep, searching>>
vars == <<enabled, main, next, signal, st, started, workers, up, queue, batch>>

Init ==
  /\ enabled \in Configs
  /\ main = "spawning" /\ next = 1
  /\ signal = FALSE
  /\ st = [t \in Services |-> "unspawned"]
  /\ started = {}
  /\ driving = FALSE /\ asleep = 0 /\ searching = 0
  /\ up = "init"
  /\ queue = 0 /\ batch = 0

Spawned == {"uploader", "op"} \cup enabled
OnWorker == {t \in Services : st[t] = "running"}
Queued == {t \in Services : st[t] = "queued"}
Waiting == {t \in Services : st[t] = "waiting"}
Become(t, s) == st' = [st EXCEPT ![t] = s]

\* Workers that neither run a task nor are parked; those that do not search have
\* just come back from a task, or from the start.
Parked == asleep + (IF driving THEN 1 ELSE 0)
Awake == Workers - Cardinality(OnWorker) - Parked

\* One parked worker, on the driver or not, is woken to search, unless one of s
\* searches already; drv says whether one is parked on the driver.
Notify(s, drv) ==
  \/ s = 0 /\ asleep > 0
     /\ searching' = 1 /\ asleep' = asleep - 1 /\ driving' = drv
  \/ s = 0 /\ drv
     /\ searching' = 1 /\ driving' = FALSE /\ UNCHANGED asleep
  \/ (s > 0 \/ (asleep = 0 /\ ~drv))
     /\ searching' = s /\ driving' = drv /\ UNCHANGED asleep

-----------------------------------------------------------------------------
(* run_agent, on the thread that called block_on *)

\* mutant: the enabled flags are not looked at
SpawnsAll(t) == TRUE
Spawns(t) == t \in Spawned

Spawn ==
  /\ main = "spawning" /\ next <= Len(Order)
  /\ next' = next + 1
  /\ IF Spawns(Order[next])
       THEN Become(Order[next], "queued") /\ Notify(searching, driving)
       ELSE UNCHANGED <<st, workers>>
  /\ UNCHANGED <<enabled, main, signal, started, up, queue, batch>>

\* run_agent returns an error: the process ends and the runtime drops its tasks
\* (those on a worker when they next wait, which the model does at once).
Fail ==
  /\ main' = "failed"
  /\ st' = [t \in Services |-> IF t \in Spawned THEN "dead" ELSE "unspawned"]
  /\ UNCHANGED next

\* The handler of the signal is installed, or cannot be.
AwaitCtrlC ==
  /\ main = "spawning" /\ next > Len(Order)
  /\ \/ main' = "waiting" /\ UNCHANGED <<next, st>>
     \/ Fail
  /\ UNCHANGED <<enabled, signal, started, workers, up, queue, batch>>

PressCtrlC ==
  /\ main = "waiting" /\ ~signal
  /\ signal' = TRUE
  /\ UNCHANGED <<enabled, main, next, st, started, workers, up, queue, batch>>

\* The worker on the driver sees the signal and wakes run_agent, which drops its
\* sender; the worker goes back to the driver.
CtrlC ==
  /\ main = "waiting" /\ signal /\ driving
  /\ main' = "joining" /\ next' = 1
  /\ UNCHANGED <<enabled, signal, st, started, workers, up, queue, batch>>

\* The JoinError of a task that panicked ends run_agent.
Join ==
  /\ main = "joining"
  /\ Order[next] \in Spawned => st[Order[next]] \in {"finished", "dead"}
  /\ \/ st[Order[next]] = "dead" /\ Fail
     \/ /\ st[Order[next]] # "dead"
        /\ IF next < Len(Order) THEN next' = next + 1 /\ UNCHANGED main
                                ELSE main' = "stopped" /\ UNCHANGED next
        /\ UNCHANGED st
  /\ UNCHANGED <<enabled, signal, started, workers, up, queue, batch>>

-----------------------------------------------------------------------------
(* The scheduler; the short look at the driver that a worker takes once in 61  *)
(* rounds of its loop is left out.                                          *)

\* mutant: the loop ends after its first sleep
SleepOnce == "finished"
\* mutant: std::thread::sleep in place of tokio::time::sleep
SleepHolding == "running"
\* tokio::time::sleep gives the worker back
Slept == "waiting"

\* A poll of a task that only sleeps, for ever, ends at its next sleep.
Polled(t) == IF t \in Sleepers THEN Slept ELSE "running"

\* A worker that searches takes a queued task; the last to search wakes another.
Steal(t) ==
  /\ st[t] = "queued" /\ searching > 0
  /\ Notify(searching - 1, driving)
  /\ Become(t, Polled(t))
  /\ started' = started \cup {t}
  /\ UNCHANGED <<enabled, main, next, signal, up, queue, batch>>

\* One that comes back from a task takes the next from its queues and tells nobody,
\* or begins to search and steals it.
Take(t) ==
  /\ st[t] = "queued" /\ Awake > searching
  /\ UNCHANGED workers \/ Notify(searching, driving)
  /\ Become(t, Polled(t))
  /\ started' = started \cup {t}
  /\ UNCHANGED <<enabled, main, next, signal, up, queue, batch>>

\* Nothing is queued: a worker parks on the driver, or sleeps if one is there.
Park ==
  /\ Queued = {} /\ Awake > 0
  /\ IF driving THEN asleep' = asleep + 1 /\ UNCHANGED driving
                ELSE driving' = TRUE /\ UNCHANGED asleep
  /\ \/ searching > 0 /\ searching' = searching - 1
     \/ Awake > searching /\ UNCHANGED searching
  /\ UNCHANGED <<enabled, main, next, signal, st, started, up, queue, batch>>

\* The driver has woken the tasks in ts.  Its worker leaves it and runs one of
\* them; a worker is notified only if there are others to run.
DriverTurn(t, ts) ==
  /\ driving /\ t \in ts /\ ts \subseteq Waiting
  /\ st' = [u \in Services |-> IF u = t THEN Polled(t)
                               ELSE IF u \in ts THEN "queued" ELSE st[u]]
  /\ IF ts = {t} THEN driving' = FALSE /\ UNCHANGED <<asleep, searching>>
                 ELSE Notify(searching, FALSE)
  /\ UNCHANGED <<enabled, main, next, signal, started, up, queue, batch>>

\* A name has been resolved, or not, on a thread outside of the workers.
Resolved ==
  /\ st["uploader"] = "waiting"
  /\ Become("uploader", "queued")
  /\ Notify(searching, driving)
  /\ UNCHANGED <<enabled, main, next, signal, started, up, queue, batch>>

-----------------------------------------------------------------------------
(* The services, while they have a worker *)

\* A send on the unbounded channel; once the receiver is gone it only logs.
Enqueue ==
  queue' = IF st["uploader"] = "finished" \/ queue = QueueCap
             THEN queue ELSE queue + 1

\* mutant: the collector gives up after one sample
SampledOnce == "finished"
Sampled == "waiting"

Telemetry ==
  /\ st["telemetry"] = "running"
  /\ Enqueue
  /\ Become("telemetry", Sampled)
  /\ UNCHANGED <<enabled, main, next, signal, started, workers, up, batch>>

\* used = total - available underflows in a build that checks it; unwinding
\* drops the sender.
TelemetryPanics ==
  /\ st["telemetry"] = "running"
  /\ Become("telemetry", "dead")
  /\ UNCHANGED <<enabled, main, next, signal, started, workers, up, queue, batch>>

\* rx.recv() returned a file event; the task loops without awaiting anything.
FimEvent ==
  /\ st["fim"] = "running"
  /\ Enqueue
  /\ UNCHANGED <<enabled, main, next, signal, st, started, workers, up, batch>>

\* A scan or watch error, or the watcher's channel is gone.
FimReturns ==
  /\ st["fim"] = "running"
  /\ Become("fim", "finished")
  /\ UNCHANGED <<enabled, main, next, signal, started, workers, up, queue, batch>>

\* A collector that has returned or panicked has dropped its sender.
Gone(c) == st[c] \in {"finished", "dead"}

\* mutant: only run_agent's own sender keeps the channel connected
ConnectedByMain == main \in {"spawning", "waiting"}

\* Some task, or run_agent itself, still holds a sender.
Connected ==
  \/ main \in {"spawning", "waiting"}
  \/ \E c \in enabled : ~Gone(c)

BuildClient ==
  /\ st["uploader"] = "running" /\ up = "init"
  /\ up' = "recv"
  /\ UNCHANGED <<enabled, main, next, signal, st, started, workers, queue, batch>>

BuildFails ==
  /\ st["uploader"] = "running" /\ up = "init"
  /\ Become("uploader", "finished")
  /\ queue' = 0
  /\ UNCHANGED <<enabled, main, next, signal, started, workers, up, batch>>

\* The post waits for a name, a connection and the response.  (The configured URL
\* and key are taken to make a request: one that cannot be built fails at once.)
Post(phase) == up' = phase /\ Become("uploader", "waiting")

\* Batches that failed to upload stay; beyond BatchSize they are not counted.
RecvOk ==
  /\ st["uploader"] = "running" /\ up = "recv" /\ queue > 0
  /\ queue' = queue - 1
  /\ batch' = IF batch < BatchSize THEN batch + 1 ELSE batch
  /\ IF batch + 1 >= BatchSize THEN Post("flush") ELSE UNCHANGED <<up, st>>
  /\ UNCHANGED <<enabled, main, next, signal, started, workers>>

\* recv_timeout gave up after a second and flush_interval has elapsed.
RecvTimeout ==
  /\ st["uploader"] = "running" /\ up = "recv" /\ queue = 0 /\ Connected
  /\ batch > 0
  /\ Post("flush")
  /\ UNCHANGED <<enabled, main, next, signal, started, workers, queue, batch>>

RecvDisconnected ==
  /\ st["uploader"] = "running" /\ up = "recv" /\ queue = 0 /\ ~Connected
  /\ IF batch > 0 THEN Post("closing")
                  ELSE Become("uploader", "finished") /\ UNCHANGED up
  /\ UNCHANGED <<enabled, main, next, signal, started, workers, queue, batch>>

\* Woken for one of them, the post has the next to wait for.
FlushAwaits ==
  /\ st["uploader"] = "running" /\ up \in {"flush", "closing"}
  /\ Become("uploader", "waiting")
  /\ UNCHANGED <<enabled, main, next, signal, started, workers, up, queue, batch>>

\* The post has been answered, or has failed or timed out.
FlushDone ==
  /\ st["uploader"] = "running"
  /\ batch' \in {0, batch}
  /\ \/ up = "flush" /\ up' = "recv" /\ UNCHANGED st
     \/ up = "closing" /\ Become("uploader", "finished") /\ UNCHANGED up
  /\ UNCHANGED <<enabled, main, next, signal, started, workers, queue>>

-----------------------------------------------------------------------------
Main == Spawn \/ AwaitCtrlC \/ CtrlC \/ Join
Poll(t) == Steal(t) \/ Take(t)
Sample == Telemetry \/ TelemetryPanics
Uploader ==
  \/ BuildClient \/ RecvOk \/ RecvTimeout \/ RecvDisconnected
  \/ FlushAwaits \/ FlushDone

Next ==
  \/ Main \/ PressCtrlC
  \/ \E t \in Services : Poll(t)
  \/ Park
  \/ \E ts \in SUBSET Waiting : \E t \in ts : DriverTurn(t, ts)
  \/ Resolved
  \/ Sample \/ FimEvent \/ FimReturns
  \/ Uploader \/ BuildFails

\* The driver wakes a task whose timer has expired, or whose socket is ready.
Wakes(u) == \E ts \in SUBSET Waiting : u \in ts /\ \E t \in ts : DriverTurn(t, ts)

\* Threads run; a queued task is taken by the workers that look for one; a worker
\* that finds none parks; as long as workers come back to the driver it sees the
\* timers that have expired, the sockets that are ready and the signals.
Fairness ==
  /\ WF_vars(Main) /\ SF_vars(CtrlC)
  /\ SF_vars(\E t \in Services \ started : Poll(t))
  /\ SF_vars(Poll("telemetry")) /\ SF_vars(Wakes("telemetry"))
  /\ SF_vars(\E t \in Sleepers : Poll(t)) /\ SF_vars(Poll("uploader"))
  /\ SF_vars(Park)
  /\ WF_vars(Sample)
  /\ WF_vars(Uploader)

Spec == Init /\ [][Next]_vars /\ Fairness

-----------------------------------------------------------------------------
\* Types; every worker is in one place, and a task that is not spawned never runs.
TypeOK ==
  /\ enabled \subseteq Collector
  /\ main \in {"spawning", "waiting", "joining", "stopped", "failed"}
  /\ next \in 1..Len(Order) + 1
  /\ signal \in BOOLEAN
  /\ st \in [Services ->
               {"unspawned", "queued", "running", "waiting", "finished", "dead"}]
  /\ driving \in BOOLEAN /\ asleep \in Nat /\ searching \in Nat
  /\ Cardinality(OnWorker) + Parked + searching <= Workers
  /\ started \subseteq Spawned
  /\ up \in {"init", "recv", "flush", "closing"}
  /\ queue \in 0..QueueCap /\ batch \in 0..BatchSize

\* An uploader that got going returns only when nothing is left in the channel
\* and nobody is left to fill it, whatever run_agent has dropped: the clones of
\* the sender keep it alive (main.rs:174, uploader/mod.rs:44).
StopsLast ==
  st["uploader"] = "finished" /\ up # "init" =>
    queue = 0 /\ \A c \in enabled : Gone(c)

\* Joining, run_agent gets no further than the uploader: that one waits for the
\* last clone of the sender, and the monitors that only sleep, or a telemetry
\* collector that has not panicked, never drop theirs (main.rs:175,
\* uploader/mod.rs:44, procmon/tracker.rs:97, telemetry/mod.rs:153); and the
\* operation mode loop is the last it would join, and never ends either.  What is
\* left to end run_agent is an error: no handler for ctrl-c (main.rs:170), or the
\* JoinError of a panicked telemetry (main.rs:176).
JoinHangs ==
  /\ main # "stopped"
  /\ /\ main = "joining" /\ up # "init"
     /\ \/ enabled \cap {"procmon", "netmon"} # {}
        \/ "telemetry" \in enabled /\ ~Gone("telemetry")
     => next = 1

\* Nobody is parked on the driver, and nobody is awake to go there: the uploader
\* and the file monitor hold their workers and the others sleep.
DriverLost ==
  /\ ~driving /\ Awake = 0
  /\ st["uploader"] = "running" /\ OnWorker \subseteq {"uploader", "fim"}

\* Only the uploader and the file monitor keep their worker while they wait
\* (uploader/mod.rs:27, fim/mod.rs:59).  With three workers a task in a run queue
\* always has one that is looking for it, or telemetry has that one for the time
\* of a sample; and the driver loses its worker in one way only: that one resumes
\* the uploader after a post (uploader/mod.rs:75) and goes with it into the next
\* recv_timeout, while the others sleep.
NeverStarved ==
  /\ [](Workers >= 3 /\ Queued # {} =>
         Awake > 0 \/ st["telemetry"] = "running")
  /\ [][Workers >= 3 /\ DriverLost' =>
           DriverLost \/ (driving /\ up \in {"flush", "closing"})]_vars

\* main.rs:167 "All agent services started successfully".
AllServicesStart == <>(Spawned \subseteq started \/ main = "failed")

\* Samples keep coming, unless telemetry panics, run_agent fails, or the driver is
\* lost for good: the post was the last, and no file event comes that would make
\* the uploader wait again.
TelemetryKeepsSampling ==
  "telemetry" \in enabled =>
    \/ []<>(st["telemetry"] = "running")
    \/ <>(st["telemetry"] = "dead")
    \/ <>[]DriverLost

\* A ctrl-c is noticed by run_agent, unless the driver is lost for good.
CtrlCNoticed == signal ~> (main # "waiting" \/ []DriverLost)

\* FEATURES.md:64 "Graceful shutdown", main.rs:173 "Cleanup and wait for all
\* tasks", main.rs:182 "Agent stopped successfully": once it has noticed the
\* ctrl-c, run_agent returns.
ShutdownCompletes == main = "joining" ~> main \in {"stopped", "failed"}
=============================================================================
