------------------------- MODULE AgentRuntimeProofs -------------------------
(***************************************************************************)
(* Proofs about the agent process, for any number of worker threads and any  *)
(* batch size: types and the places of the workers, when the uploader may     *)
(* return, that shutdown hangs, how many workers it takes for a queued task   *)
(* to find one, and the one way in which the driver loses its worker.         *)
(***************************************************************************)
EXTENDS AgentRuntime, FiniteSetTheorems, TLAPS

Live == {"queued", "running", "waiting"}
State == Live \cup {"unspawned", "finished", "dead"}

\* Nothing of the enabled collectors is left that could fill the channel.
Drained == queue = 0 /\ \A c \in enabled : Gone(c)

\* Services are spawned in order, only those enabled; an uploader in its last
\* flush, or back from one, finds the channel drained for good.
RunInv ==
  /\ enabled \subseteq Collector
  /\ main \in {"spawning", "waiting", "joining", "stopped", "failed"}
  /\ next \in 1..7
  /\ signal \in BOOLEAN
  /\ st \in [Services -> State]
  /\ \A t \in Services : st[t] # "unspawned" => t \in Spawned
  /\ main = "spawning" => \A i \in next..6 : st[Order[i]] = "unspawned"
  /\ driving \in BOOLEAN /\ asleep \in Nat /\ searching \in Nat
  /\ started \subseteq Spawned
  /\ up \in {"init", "recv", "flush", "closing"}
  /\ queue \in 0..QueueCap /\ batch \in 0..BatchSize
  /\ up = "closing" => Drained
  /\ st["uploader"] = "finished" /\ up # "init" => Drained

LEMMA OrderIs ==
  /\ Len(Order) = 6
  /\ \A i \in 1..6 : Order[i] \in Services
  /\ \A i, j \in 1..6 : Order[i] = Order[j] => i = j
  BY DEF Order, Services, Collector

LEMMA ServicesAre ==
  /\ Collector = {"telemetry", "fim", "procmon", "netmon"}
  /\ Services = {"uploader", "telemetry", "fim", "procmon", "netmon", "op"}
  BY DEF Services, Collector

\* A notification moves one worker, or none, from where the parked are to where
\* they search; after it one searches or none is parked.
LEMMA NotifyMoves ==
  ASSUME asleep \in Nat, NEW s \in Nat, NEW drv \in BOOLEAN, Notify(s, drv)
  PROVE  /\ driving' \in BOOLEAN /\ asleep' \in Nat /\ searching' \in Nat
         /\ Parked' + searching' = asleep + (IF drv THEN 1 ELSE 0) + s
         /\ searching' > 0 \/ (asleep' = 0 /\ ~driving')
<1>1. CASE s = 0 /\ asleep > 0 /\ searching' = 1 /\ asleep' = asleep - 1
           /\ driving' = drv
  <2>1. CASE drv
    BY <1>1, <2>1 DEF Parked
  <2>2. CASE ~drv
    BY <1>1, <2>2 DEF Parked
  <2> QED
    BY <2>1, <2>2
<1>2. CASE s = 0 /\ drv /\ searching' = 1 /\ driving' = FALSE /\ asleep' = asleep
  <2> DEFINE one == IF drv THEN 1 ELSE 0
  <2>1. one = 1 /\ Parked' = asleep
    BY <1>2 DEF Parked
  <2>2. driving' \in BOOLEAN
    BY <1>2
  <2> HIDE DEF one
  <2>3. Parked' + searching' = asleep + one + s
    BY <1>2, <2>1
  <2>4. asleep' \in Nat /\ searching' \in Nat /\ searching' > 0
    BY <1>2
  <2> QED
    BY <2>2, <2>3, <2>4 DEF one
<1>3. CASE /\ s > 0 \/ (asleep = 0 /\ ~drv)
           /\ searching' = s /\ driving' = drv /\ asleep' = asleep
  <2>1. CASE drv
    BY <1>3, <2>1 DEF Parked
  <2>2. CASE ~drv
    BY <1>3, <2>2 DEF Parked
  <2> QED
    BY <2>1, <2>2
<1> QED
  BY <1>1, <1>2, <1>3 DEF Notify

\* What the scheduler and the services do to tasks: only those that live change.
LEMMA LiveKeeps ==
  ASSUME RunInv, UNCHANGED <<enabled, main, next>>, st' \in [Services -> State],
         \A t \in Services :
           st'[t] = st[t] \/ (st[t] \in Live /\ st'[t] # "unspawned")
  PROVE  /\ Spawned' = Spawned
         /\ \A t \in Services : st'[t] # "unspawned" => t \in Spawned
         /\ main = "spawning" => \A i \in next..6 : st'[Order[i]] = "unspawned"
         /\ Drained => \A c \in enabled : Gone(c)'
<1>1. Spawned' = Spawned
  BY DEF Spawned
<1>2. \A t \in Services : st'[t] # "unspawned" => t \in Spawned
  BY DEF RunInv, Live
<1>3. main = "spawning" => \A i \in next..6 : st'[Order[i]] = "unspawned"
  <2> SUFFICES ASSUME main = "spawning", NEW i \in next..6
               PROVE  st'[Order[i]] = "unspawned"
    OBVIOUS
  <2>1. st[Order[i]] = "unspawned" /\ i \in 1..6
    BY DEF RunInv
  <2> QED
    BY <2>1, OrderIs DEF Live
<1>4. Drained => \A c \in enabled : Gone(c)'
  BY ServicesAre DEF RunInv, Drained, Gone, Live
<1> QED
  BY <1>1, <1>2, <1>3, <1>4

\* One task that lives changes its state.
LEMMA BecomeKeeps ==
  ASSUME RunInv, UNCHANGED <<enabled, main, next>>, NEW t \in Services,
         st[t] \in Live, NEW s \in State \ {"unspawned"}, Become(t, s)
  PROVE  /\ st' \in [Services -> State]
         /\ Spawned' = Spawned
         /\ \A u \in Services : st'[u] # "unspawned" => u \in Spawned
         /\ main = "spawning" => \A i \in next..6 : st'[Order[i]] = "unspawned"
         /\ Drained => \A c \in enabled : Gone(c)'
<1>1. st' = [st EXCEPT ![t] = s]
  BY DEF Become
<1>2. st' \in [Services -> State]
  BY <1>1 DEF RunInv
<1>3. \A u \in Services :
        st'[u] = st[u] \/ (st[u] \in Live /\ st'[u] # "unspawned")
  BY <1>1 DEF RunInv
<1> QED
  BY <1>2, <1>3, LiveKeeps

-----------------------------------------------------------------------------
(* The invariant, action by action *)

LEMMA SpawnKeeps ==
  ASSUME RunInv, Spawn
  PROVE  RunInv'
<1>1. /\ main = "spawning" /\ main' = main /\ next \in 1..6 /\ next' = next + 1
      /\ UNCHANGED <<enabled, signal, started, up, queue, batch>>
  BY OrderIs DEF RunInv, Spawn
<1>2. Spawned' = Spawned
  BY <1>1 DEF Spawned
<1>3. Order[next] \in Services /\ st[Order[next]] = "unspawned"
  BY <1>1, OrderIs DEF RunInv
<1>4. CASE Order[next] \in Spawned
  <2>1. st' = [st EXCEPT ![Order[next]] = "queued"] /\ Notify(searching, driving)
    BY <1>4 DEF Spawn, Spawns, Become
  <2>2. st' \in [Services -> State]
    BY <2>1 DEF RunInv, State, Live
  <2>3. \A t \in Services : st'[t] # "unspawned" => t \in Spawned
    BY <2>1, <1>3, <1>4 DEF RunInv
  <2>4. \A i \in next'..6 : st'[Order[i]] = "unspawned"
    <3> SUFFICES ASSUME NEW i \in next'..6
                 PROVE  st'[Order[i]] = "unspawned"
      OBVIOUS
    <3>1. i \in next..6 /\ i \in 1..6 /\ i # next
      BY <1>1
    <3>2. Order[i] # Order[next] /\ Order[i] \in Services
      BY <1>1, <3>1, OrderIs
    <3> QED
      BY <1>1, <2>1, <3>1, <3>2 DEF RunInv
  <2>5. up = "closing" \/ (st["uploader"] = "finished" /\ up # "init") =>
          Order[next] \notin enabled
    BY <1>3 DEF RunInv, Drained, Gone
  <2>6. up = "closing" \/ (st'["uploader"] = "finished" /\ up # "init") => Drained'
    BY <1>1, <1>3, <2>1, <2>5, ServicesAre DEF RunInv, Drained, Gone
  <2>7. driving' \in BOOLEAN /\ asleep' \in Nat /\ searching' \in Nat
    BY <2>1, NotifyMoves DEF RunInv
  <2> QED
    BY <1>1, <1>2, <2>2, <2>3, <2>4, <2>6, <2>7 DEF RunInv
<1>5. CASE Order[next] \notin Spawned
  <2>1. UNCHANGED <<st, driving, asleep, searching>>
    BY <1>5 DEF Spawn, Spawns, workers
  <2>2. \A i \in next'..6 : i \in next..6
    BY <1>1
  <2> QED
    BY <1>1, <1>2, <2>1, <2>2 DEF RunInv, Drained, Gone
<1> QED
  BY <1>4, <1>5

\* A run_agent that fails takes its tasks along.
LEMMA FailKeeps ==
  ASSUME RunInv, Fail,
         UNCHANGED <<enabled, signal, started, workers, up, queue, batch>>
  PROVE  RunInv'
<1>1. /\ main' = "failed" /\ UNCHANGED next
      /\ st' = [t \in Services |-> IF t \in Spawned THEN "dead" ELSE "unspawned"]
  BY DEF Fail
<1>2. Spawned' = Spawned
  BY DEF Spawned
<1>3. st' \in [Services -> State]
  BY <1>1 DEF State
<1>4. \A c \in enabled : Gone(c)'
  BY <1>1, ServicesAre DEF RunInv, Spawned, Gone
<1>5. /\ \A t \in Services : st'[t] # "unspawned" => t \in Spawned
      /\ st'["uploader"] # "finished"
  BY <1>1, ServicesAre
<1>6. up = "closing" => Drained'
  BY <1>4 DEF RunInv, Drained
<1> QED
  BY <1>1, <1>2, <1>3, <1>5, <1>6 DEF RunInv, workers

LEMMA MainKeeps ==
  ASSUME RunInv, AwaitCtrlC \/ PressCtrlC \/ CtrlC \/ Join
  PROVE  RunInv'
<1>1. UNCHANGED <<enabled, started, workers, up, queue, batch>>
  BY DEF AwaitCtrlC, PressCtrlC, CtrlC, Join
<1>2. CASE Fail
  <2>1. UNCHANGED signal
    BY <1>2 DEF Fail, AwaitCtrlC, PressCtrlC, CtrlC, Join
  <2> QED
    BY <1>1, <1>2, <2>1, FailKeeps
<1>3. CASE ~Fail
  <2>1. UNCHANGED st /\ main' \in {"waiting", "joining", "stopped"}
    BY <1>3 DEF RunInv, AwaitCtrlC, PressCtrlC, CtrlC, Join
  <2>2. signal' \in BOOLEAN
    BY DEF RunInv, AwaitCtrlC, PressCtrlC, CtrlC, Join
  <2>3. next' \in 1..7
    <3>1. CASE Join
      BY <1>3, <3>1, OrderIs DEF RunInv, Join
    <3>2. CASE AwaitCtrlC \/ PressCtrlC \/ CtrlC
      BY <1>3, <3>2 DEF RunInv, AwaitCtrlC, PressCtrlC, CtrlC
    <3> QED
      BY <3>1, <3>2
  <2> QED
    BY <1>1, <2>1, <2>2, <2>3 DEF RunInv, Spawned, Drained, Gone, workers
<1> QED
  BY <1>2, <1>3

LEMMA PolledIs ==
  ASSUME NEW t
  PROVE  Polled(t) = IF t \in Sleepers THEN "waiting" ELSE "running"
  BY DEF Polled, Slept

LEMMA PollKeeps ==
  ASSUME RunInv, NEW t \in Services, Poll(t)
  PROVE  RunInv'
<1>1. /\ st[t] = "queued" /\ Become(t, Polled(t)) /\ started' = started \cup {t}
      /\ UNCHANGED <<enabled, main, next, signal, up, queue, batch>>
  BY DEF Poll, Steal, Take
<1>2. driving' \in BOOLEAN /\ asleep' \in Nat /\ searching' \in Nat
  <2>1. CASE Notify(searching - 1, driving) /\ searching > 0
    <3>1. searching - 1 \in Nat
      BY <2>1 DEF RunInv
    <3> QED
      BY <2>1, <3>1, NotifyMoves DEF RunInv
  <2>2. CASE Notify(searching, driving)
    BY <2>2, NotifyMoves DEF RunInv
  <2>3. CASE UNCHANGED workers
    BY <2>3 DEF workers, RunInv
  <2> QED
    BY <2>1, <2>2, <2>3 DEF Poll, Steal, Take
<1>3. /\ st' \in [Services -> State]
      /\ Spawned' = Spawned
      /\ \A u \in Services : st'[u] # "unspawned" => u \in Spawned
      /\ main = "spawning" => \A i \in next..6 : st'[Order[i]] = "unspawned"
      /\ Drained => \A c \in enabled : Gone(c)'
  BY <1>1, PolledIs, BecomeKeeps DEF State, Live
<1>4. st'["uploader"] = "finished" => st["uploader"] = "finished"
  BY <1>1, PolledIs, ServicesAre DEF Become, RunInv
<1>5. t \in Spawned
  BY <1>1 DEF RunInv
<1>6. Drained => Drained'
  BY <1>1, <1>3 DEF Drained
<1> QED
  BY <1>1, <1>2, <1>3, <1>4, <1>5, <1>6 DEF RunInv

LEMMA DriverKeeps ==
  ASSUME RunInv, NEW ts \in SUBSET Waiting, NEW t \in ts, DriverTurn(t, ts)
  PROVE  RunInv'
<1>1. /\ st' = [u \in Services |-> IF u = t THEN Polled(t)
                                  ELSE IF u \in ts THEN "queued" ELSE st[u]]
      /\ UNCHANGED <<enabled, main, next, signal, started, up, queue, batch>>
  BY DEF DriverTurn
<1>2. driving' \in BOOLEAN /\ asleep' \in Nat /\ searching' \in Nat
  <2>1. CASE Notify(searching, FALSE)
    BY <2>1, NotifyMoves DEF RunInv
  <2>2. CASE driving' = FALSE /\ UNCHANGED <<asleep, searching>>
    BY <2>2 DEF RunInv
  <2> QED
    BY <2>1, <2>2 DEF DriverTurn
<1>3. \A u \in ts : u \in Services /\ st[u] = "waiting"
  BY DEF Waiting
<1>4. st' \in [Services -> State]
  BY <1>1, PolledIs DEF RunInv, State, Live
<1>5. \A u \in Services :
        st'[u] = st[u] \/ (st[u] \in Live /\ st'[u] # "unspawned")
  BY <1>1, <1>3, PolledIs DEF Live
<1>6. /\ Spawned' = Spawned
      /\ \A u \in Services : st'[u] # "unspawned" => u \in Spawned
      /\ main = "spawning" => \A i \in next..6 : st'[Order[i]] = "unspawned"
      /\ Drained => \A c \in enabled : Gone(c)'
  BY <1>1, <1>4, <1>5, LiveKeeps
<1>7. st'["uploader"] = "finished" => st["uploader"] = "finished"
  BY <1>1, PolledIs, ServicesAre
<1>8. Drained => Drained'
  BY <1>1, <1>6 DEF Drained
<1>9. UNCHANGED <<enabled, main, next, signal, started, up, queue, batch>>
  BY <1>1
<1> QED
  BY <1>2, <1>4, <1>6, <1>7, <1>8, <1>9 DEF RunInv

LEMMA WorkersKeep ==
  ASSUME RunInv, Park \/ Resolved
  PROVE  RunInv'
<1>1. CASE Park
  <2>1. driving' \in BOOLEAN /\ asleep' \in Nat
    <3>1. CASE driving
      BY <1>1, <3>1 DEF Park, RunInv
    <3>2. CASE ~driving
      BY <1>1, <3>2 DEF Park, RunInv
    <3> QED
      BY <3>1, <3>2
  <2>2. searching' \in Nat
    BY <1>1 DEF Park, RunInv
  <2>3. UNCHANGED <<enabled, main, next, signal, st, started, up, queue, batch>>
    BY <1>1 DEF Park
  <2> QED
    BY <2>1, <2>2, <2>3 DEF RunInv, Spawned, Drained, Gone
<1>2. CASE Resolved
  <2>1. /\ st["uploader"] = "waiting" /\ Become("uploader", "queued")
        /\ UNCHANGED <<enabled, main, next, signal, started, up, queue, batch>>
    BY <1>2 DEF Resolved
  <2>2. driving' \in BOOLEAN /\ asleep' \in Nat /\ searching' \in Nat
    BY <1>2, NotifyMoves DEF Resolved, RunInv
  <2>3. /\ st' \in [Services -> State]
        /\ Spawned' = Spawned
        /\ \A u \in Services : st'[u] # "unspawned" => u \in Spawned
        /\ main = "spawning" => \A i \in next..6 : st'[Order[i]] = "unspawned"
        /\ Drained => \A c \in enabled : Gone(c)'
    BY <2>1, BecomeKeeps, ServicesAre DEF State, Live
  <2>4. st'["uploader"] # "finished"
    BY <2>1, ServicesAre DEF Become, RunInv
  <2>5. Drained => Drained'
    BY <2>1, <2>3 DEF Drained
  <2> QED
    BY <2>1, <2>2, <2>3, <2>4, <2>5 DEF RunInv
<1> QED
  BY <1>1, <1>2

\* A collector that runs is enabled, and so the channel is not drained.
LEMMA CollectorRuns ==
  ASSUME RunInv, NEW c \in Collector, st[c] = "running"
  PROVE  ~Drained
<1>1. c \in Spawned /\ c \notin {"uploader", "op"}
  BY ServicesAre DEF RunInv
<1> QED
  BY <1>1 DEF Spawned, Drained, Gone

LEMMA CollectorKeeps ==
  ASSUME RunInv, Sample \/ FimEvent \/ FimReturns
  PROVE  RunInv'
<1>1. PICK c \in {"telemetry", "fim"} :
        /\ st[c] = "running"
        /\ \/ Become(c, "waiting") \/ Become(c, "finished") \/ Become(c, "dead")
           \/ UNCHANGED st
  BY DEF Sample, Telemetry, TelemetryPanics, FimEvent, FimReturns, Sampled
<1>2. UNCHANGED <<enabled, main, next, signal, started, workers, up, batch>>
  BY DEF Sample, Telemetry, TelemetryPanics, FimEvent, FimReturns
<1>3. queue' \in 0..QueueCap
  <2>1. Enqueue \/ UNCHANGED queue
    BY DEF Sample, Telemetry, TelemetryPanics, FimEvent, FimReturns
  <2> QED
    BY <2>1, RuntimeAssumption DEF RuntimeAssumption, Enqueue, RunInv
<1>4. c \in Services /\ c \in Collector /\ ~Drained
  BY <1>1, CollectorRuns, ServicesAre
<1>5. up # "closing" /\ (st["uploader"] = "finished" => up = "init")
  BY <1>4 DEF RunInv
<1>6. /\ st' \in [Services -> State]
      /\ Spawned' = Spawned
      /\ \A u \in Services : st'[u] # "unspawned" => u \in Spawned
      /\ main = "spawning" => \A i \in next..6 : st'[Order[i]] = "unspawned"
  <2>1. CASE UNCHANGED st
    BY <1>2, <2>1 DEF RunInv, Spawned
  <2>2. CASE ~UNCHANGED st
    BY <1>1, <1>2, <1>4, <2>2, BecomeKeeps DEF State, Live
  <2> QED
    BY <2>1, <2>2
<1>7. st'["uploader"] = st["uploader"]
  BY <1>1, ServicesAre DEF Become, RunInv
<1> QED
  BY <1>2, <1>3, <1>5, <1>6, <1>7 DEF RunInv, workers

\* What the uploader does while it has a worker.
LEMMA UploaderSteps ==
  ASSUME Uploader \/ BuildFails
  PROVE  /\ st["uploader"] = "running"
         /\ UNCHANGED <<enabled, main, next, signal, started, workers>>
         /\ \/ Become("uploader", "waiting") \/ Become("uploader", "finished")
            \/ UNCHANGED st
  BY DEF Uploader, BuildClient, RecvOk, RecvTimeout, RecvDisconnected, FlushAwaits,
         FlushDone, BuildFails, Post

LEMMA UploaderKeeps ==
  ASSUME RunInv, Uploader \/ BuildFails
  PROVE  RunInv'
<1>1. /\ st["uploader"] = "running" /\ "uploader" \in Services
      /\ UNCHANGED <<enabled, main, next, signal, started, workers>>
  BY UploaderSteps, ServicesAre
<1>2. \/ Become("uploader", "waiting") \/ Become("uploader", "finished")
      \/ UNCHANGED st
  BY UploaderSteps
<1>3. /\ st' \in [Services -> State]
      /\ Spawned' = Spawned
      /\ \A u \in Services : st'[u] # "unspawned" => u \in Spawned
      /\ main = "spawning" => \A i \in next..6 : st'[Order[i]] = "unspawned"
      /\ Drained => \A c \in enabled : Gone(c)'
  <2>1. CASE UNCHANGED st
    BY <1>1, <2>1 DEF RunInv, Drained, Spawned, Gone
  <2>2. CASE Become("uploader", "waiting") \/ Become("uploader", "finished")
    BY <1>1, <2>2, BecomeKeeps DEF State, Live
  <2> QED
    BY <1>2, <2>1, <2>2
<1>4. up' \in {"init", "recv", "flush", "closing"}
  BY DEF Uploader, BuildClient, RecvOk, RecvTimeout, RecvDisconnected, FlushAwaits,
         FlushDone, BuildFails, Post, RunInv
<1>5. queue' \in 0..QueueCap
  BY RuntimeAssumption
  DEF RuntimeAssumption, Uploader, BuildClient, RecvOk, RecvTimeout,
      RecvDisconnected, FlushAwaits, FlushDone, BuildFails, RunInv
<1>6. batch' \in 0..BatchSize
  <2>1. CASE RecvOk
    BY <2>1, RuntimeAssumption DEF RuntimeAssumption, RecvOk, RunInv
  <2>2. CASE FlushDone
    BY <2>2, RuntimeAssumption DEF RuntimeAssumption, FlushDone, RunInv
  <2>3. CASE BuildClient \/ RecvTimeout \/ RecvDisconnected \/ FlushAwaits \/ BuildFails
    BY <2>3 DEF BuildClient, RecvTimeout, RecvDisconnected, FlushAwaits, BuildFails,
                RunInv
  <2> QED
    BY <2>1, <2>2, <2>3 DEF Uploader
<1>7. up' = "closing" \/ (st'["uploader"] = "finished" /\ up' # "init") => Drained'
  <2>1. CASE BuildClient
    BY <1>1, <2>1 DEF BuildClient
  <2>2. CASE RecvOk
    BY <1>1, <2>2 DEF RecvOk, Post, Become, RunInv
  <2>3. CASE RecvTimeout
    BY <1>1, <2>3 DEF RecvTimeout, Post, Become, RunInv
  <2>4. CASE RecvDisconnected
    <3>1. Drained /\ queue' = queue
      BY <2>4 DEF RecvDisconnected, Connected, Drained
    <3> QED
      BY <1>1, <1>3, <3>1 DEF Drained
  <2>5. CASE FlushDone \/ FlushAwaits
    <3>1. CASE up = "closing"
      <4>1. Drained /\ queue' = queue
        BY <2>5, <3>1 DEF FlushDone, FlushAwaits, RunInv
      <4> QED
        BY <1>1, <1>3, <4>1 DEF Drained
    <3>2. CASE up = "flush"
      BY <1>1, <2>5, <3>2 DEF FlushDone, FlushAwaits, Become, RunInv
    <3> QED
      BY <2>5, <3>1, <3>2 DEF FlushDone, FlushAwaits
  <2>6. CASE BuildFails
    BY <1>1, <2>6 DEF BuildFails
  <2> QED
    BY <2>1, <2>2, <2>3, <2>4, <2>5, <2>6 DEF Uploader
<1> QED
  BY <1>1, <1>3, <1>4, <1>5, <1>6, <1>7 DEF RunInv, workers

LEMMA RunStep ==
  ASSUME RunInv, [Next]_vars
  PROVE  RunInv'
<1>1. CASE Spawn
  BY <1>1, SpawnKeeps
<1>2. CASE AwaitCtrlC \/ PressCtrlC \/ CtrlC \/ Join
  BY <1>2, MainKeeps
<1>3. CASE \E t \in Services : Poll(t)
  BY <1>3, PollKeeps
<1>4. CASE \E ts \in SUBSET Waiting : \E t \in ts : DriverTurn(t, ts)
  BY <1>4, DriverKeeps
<1>5. CASE Park \/ Resolved
  BY <1>5, WorkersKeep
<1>6. CASE Sample \/ FimEvent \/ FimReturns
  BY <1>6, CollectorKeeps
<1>7. CASE Uploader \/ BuildFails
  BY <1>7, UploaderKeeps
<1>8. CASE UNCHANGED vars
  BY <1>8 DEF vars, workers, RunInv, Spawned, Drained, Gone
<1> QED
  BY <1>1, <1>2, <1>3, <1>4, <1>5, <1>6, <1>7, <1>8 DEF Next, Main

LEMMA RunCorrect == Spec => []RunInv
<1>1. Init => RunInv
  <2> SUFFICES ASSUME Init
               PROVE  RunInv
    OBVIOUS
  <2>1. \A t \in Services : st[t] = "unspawned"
    BY DEF Init
  <2>2. \A i \in next..6 : st[Order[i]] = "unspawned"
    BY <2>1, OrderIs DEF Init
  <2>3. st \in [Services -> State] /\ st["uploader"] # "finished"
    BY <2>1, ServicesAre DEF Init, State
  <2>4. signal \in BOOLEAN /\ enabled \subseteq Collector
    BY RuntimeAssumption DEF RuntimeAssumption, Init
  <2>5. queue \in 0..QueueCap /\ batch \in 0..BatchSize /\ next \in 1..7
    BY RuntimeAssumption DEF RuntimeAssumption, Init
  <2> QED
    BY <2>1, <2>2, <2>3, <2>4, <2>5 DEF Init, RunInv
<1> QED
  BY <1>1, RunStep, PTL DEF Spec

\* An uploader that got going returns only when the channel is empty and no
\* enabled collector is left to fill it (uploader/mod.rs:44).
THEOREM StopsLastCorrect == Spec => []StopsLast
<1>1. RunInv => StopsLast
  BY DEF RunInv, Drained, StopsLast
<1> QED
  BY <1>1, RunCorrect, PTL

-----------------------------------------------------------------------------
(* Shutdown *)

\* run_agent joins in order: past the uploader only once that one has returned,
\* and past the operation mode loop never.  The loops that only sleep, or sample,
\* have no way out; only telemetry's may panic.
JoinInv ==
  /\ \A t \in {"telemetry"} \cup Sleepers : st[t] # "finished"
  /\ main # "failed" => \A t \in {"uploader"} \cup Sleepers : st[t] # "dead"
  /\ main # "stopped"
  /\ main = "joining" => next <= 6
  /\ main = "joining" /\ next > 1 => st["uploader"] = "finished"

\* What run_agent does not do leaves the endless tasks alive.
LEMMA EndlessKeeps ==
  ASSUME RunInv, JoinInv, NEW t \in Services, NEW s \in Live, st[t] \in Live,
         Become(t, s)
  PROVE  /\ \A u \in {"telemetry"} \cup Sleepers : st'[u] # "finished"
         /\ main # "failed" => \A u \in {"uploader"} \cup Sleepers : st'[u] # "dead"
         /\ st["uploader"] = "finished" => st'["uploader"] = "finished"
  BY ServicesAre DEF JoinInv, RunInv, Sleepers, Become, Live

LEMMA OthersKeep ==
  ASSUME RunInv, JoinInv, [Next]_vars,
         ~(Spawn \/ AwaitCtrlC \/ CtrlC \/ Join)
  PROVE  /\ UNCHANGED <<main, next>>
         /\ \A u \in {"telemetry"} \cup Sleepers : st'[u] # "finished"
         /\ main # "failed" => \A u \in {"uploader"} \cup Sleepers : st'[u] # "dead"
         /\ st["uploader"] = "finished" => st'["uploader"] = "finished"
<1>1. CASE \E t \in Services : Poll(t)
  <2>1. PICK t \in Services : Poll(t)
    BY <1>1
  <2>2. st[t] = "queued" /\ Become(t, Polled(t)) /\ UNCHANGED <<main, next>>
    BY <2>1 DEF Poll, Steal, Take
  <2> QED
    BY <2>2, PolledIs, EndlessKeeps DEF Live
<1>2. CASE \E ts \in SUBSET Waiting : \E t \in ts : DriverTurn(t, ts)
  <2>1. PICK ts \in SUBSET Waiting : \E t \in ts : DriverTurn(t, ts)
    BY <1>2
  <2>2. PICK t \in ts : DriverTurn(t, ts)
    BY <2>1
  <2>3. \A u \in Services : st'[u] = st[u] \/ st'[u] \in Live
    BY <2>2, PolledIs DEF DriverTurn, Live
  <2>4. \A u \in Services : st[u] = "finished" => st'[u] = st[u]
    BY <2>2 DEF DriverTurn, Waiting
  <2>5. UNCHANGED <<main, next>>
    BY <2>2 DEF DriverTurn
  <2> QED
    BY <2>3, <2>4, <2>5, ServicesAre DEF JoinInv, Sleepers, Live
<1>3. CASE Resolved
  BY <1>3, EndlessKeeps, ServicesAre DEF Resolved, Live
<1>4. CASE Sample \/ FimReturns
  BY <1>4, ServicesAre
  DEF Sample, Telemetry, TelemetryPanics, FimReturns, Sampled, Become, JoinInv, RunInv,
      Sleepers
<1>5. CASE Uploader \/ BuildFails
  <2>1. /\ st["uploader"] = "running" /\ UNCHANGED <<main, next>>
        /\ \/ st' = [st EXCEPT !["uploader"] = "waiting"]
           \/ st' = [st EXCEPT !["uploader"] = "finished"]
           \/ UNCHANGED st
    BY <1>5, UploaderSteps DEF Become
  <2> QED
    BY <2>1, ServicesAre DEF JoinInv, RunInv, Sleepers
<1>6. CASE PressCtrlC \/ Park \/ FimEvent \/ UNCHANGED vars
  BY <1>6, ServicesAre DEF PressCtrlC, Park, FimEvent, vars, JoinInv, Sleepers
<1> QED
  BY <1>1, <1>2, <1>3, <1>4, <1>5, <1>6 DEF Next, Main

\* Whatever the number of workers, ctrl-c never ends the agent in good order:
\* run_agent does not get past the uploader while a monitor that sleeps is enabled,
\* or a telemetry collector that has not panicked, nor ever past the operation mode
\* loop (main.rs:175, main.rs:180).
THEOREM JoinHangsCorrect == Spec => []JoinHangs
<1>1. Init => JoinInv
  BY ServicesAre DEF Init, JoinInv, Sleepers
<1>2. RunInv /\ JoinInv /\ [Next]_vars => JoinInv'
  <2> SUFFICES ASSUME RunInv, JoinInv, [Next]_vars
               PROVE  JoinInv'
    OBVIOUS
  <2>1. CASE ~(Spawn \/ AwaitCtrlC \/ CtrlC \/ Join)
    BY <2>1, OthersKeep DEF JoinInv
  <2>2. CASE Spawn
    <3>1. main = "spawning" /\ main' = main
      BY <2>2 DEF Spawn
    <3>2. \/ UNCHANGED st
          \/ st' = [st EXCEPT ![Order[next]] = "queued"]
      BY <2>2 DEF Spawn, Become
    <3> QED
      BY <3>1, <3>2, ServicesAre DEF JoinInv, RunInv, Sleepers
  <2>3. CASE Fail
    BY <2>3, ServicesAre DEF Fail, JoinInv, Sleepers
  <2>4. CASE CtrlC \/ (AwaitCtrlC /\ ~Fail)
    BY <2>4 DEF CtrlC, AwaitCtrlC, JoinInv
  <2>5. CASE Join /\ ~Fail
    <3>1. next \in 1..6
      BY <2>5 DEF Join, RunInv, JoinInv
    <3>2. next # 6
      <4>1. Order[6] = "op" /\ "op" \in Spawned
        BY DEF Order, Spawned
      <4>2. st["op"] \notin {"finished", "dead"}
        BY <2>5 DEF Join, JoinInv, Sleepers
      <4> QED
        BY <2>5, <4>1, <4>2 DEF Join
    <3>3. next = 1 => st["uploader"] = "finished"
      <4>1. Order[1] = "uploader" /\ "uploader" \in Spawned
        BY DEF Order, Spawned
      <4>2. st["uploader"] # "dead"
        BY <2>5 DEF Join, JoinInv
      <4> QED
        BY <2>5, <4>1, <4>2 DEF Join
    <3>4. UNCHANGED <<main, st>> /\ next' = next + 1
      BY <2>5, <3>1, <3>2, OrderIs DEF Join
    <3>5. st["uploader"] = "finished"
      BY <2>5, <3>1, <3>3 DEF Join, JoinInv
    <3> QED
      BY <2>5, <3>1, <3>2, <3>4, <3>5 DEF JoinInv
  <2> QED
    BY <2>1, <2>2, <2>3, <2>4, <2>5
<1>3. RunInv /\ JoinInv => JoinHangs
  <2> SUFFICES ASSUME RunInv, JoinInv, main = "joining", up # "init",
                      \/ enabled \cap {"procmon", "netmon"} # {}
                      \/ "telemetry" \in enabled /\ ~Gone("telemetry")
               PROVE  next = 1
    BY DEF JoinInv, JoinHangs
  <2>1. \E c \in enabled : ~Gone(c)
    <3>1. CASE "telemetry" \in enabled /\ ~Gone("telemetry")
      BY <3>1
    <3>2. CASE enabled \cap {"procmon", "netmon"} # {}
      <4>1. PICK c \in enabled : c \in {"procmon", "netmon"}
        BY <3>2
      <4>2. c \in Sleepers
        BY <4>1 DEF Sleepers
      <4> QED
        BY <4>1, <4>2 DEF JoinInv, Gone
    <3> QED
      BY <3>1, <3>2
  <2>2. st["uploader"] # "finished"
    BY <2>1 DEF RunInv, Drained
  <2> QED
    BY <2>2 DEF RunInv, JoinInv
<1> QED
  BY <1>1, <1>2, <1>3, RunCorrect, PTL DEF Spec

-----------------------------------------------------------------------------
(* The workers *)

LEMMA OnWorkerFinite ==
  /\ IsFiniteSet(OnWorker) /\ Cardinality(OnWorker) \in Nat
  /\ IsFiniteSet(OnWorker') /\ Cardinality(OnWorker') \in Nat
<1>1. IsFiniteSet(Services)
  <2> DEFINE S1 == {} \cup {"uploader"}
             S2 == S1 \cup {"telemetry"}
             S3 == S2 \cup {"fim"}
             S4 == S3 \cup {"procmon"}
             S5 == S4 \cup {"netmon"}
             S6 == S5 \cup {"op"}
  <2>1. Services = S6
    BY ServicesAre
  <2> HIDE DEF S1, S2, S3, S4, S5, S6
  <2>2. IsFiniteSet(S1)
    BY FS_EmptySet, FS_AddElement DEF S1
  <2>3. IsFiniteSet(S3)
    BY <2>2, FS_AddElement DEF S2, S3
  <2>4. IsFiniteSet(S5)
    BY <2>3, FS_AddElement DEF S4, S5
  <2> QED
    BY <2>1, <2>4, FS_AddElement DEF S6
<1> QED
  BY <1>1, FS_Subset, FS_CardinalityType DEF OnWorker

\* What a step may do to the set of running tasks.
LEMMA OneMore ==
  ASSUME NEW t, OnWorker' \subseteq OnWorker \cup {t}
  PROVE  Cardinality(OnWorker') <= Cardinality(OnWorker) + 1
<1>1. /\ IsFiniteSet(OnWorker \cup {t})
      /\ Cardinality(OnWorker \cup {t}) =
           IF t \in OnWorker THEN Cardinality(OnWorker)
                             ELSE Cardinality(OnWorker) + 1
  BY OnWorkerFinite, FS_AddElement
<1>2. Cardinality(OnWorker \cup {t}) \in Nat
  BY <1>1, FS_CardinalityType
<1>3. Cardinality(OnWorker') <= Cardinality(OnWorker \cup {t})
  BY <1>1, FS_Subset
<1> QED
  BY <1>1, <1>2, <1>3, OnWorkerFinite

LEMMA NoneMore ==
  ASSUME OnWorker' \subseteq OnWorker
  PROVE  Cardinality(OnWorker') <= Cardinality(OnWorker)
  BY OnWorkerFinite, FS_Subset

LEMMA OneLess ==
  ASSUME NEW t \in OnWorker, OnWorker' \subseteq OnWorker \ {t}
  PROVE  Cardinality(OnWorker') <= Cardinality(OnWorker) - 1
<1>1. /\ IsFiniteSet(OnWorker \ {t})
      /\ Cardinality(OnWorker \ {t}) = Cardinality(OnWorker) - 1
  BY OnWorkerFinite, FS_RemoveElement
<1>2. Cardinality(OnWorker') <= Cardinality(OnWorker \ {t})
  BY <1>1, FS_Subset
<1> QED
  BY <1>1, <1>2

\* Every worker is in one place: with a task, parked, searching, or on its way.
Fits == Cardinality(OnWorker) + Parked + searching <= Workers

LEMMA ParkedIs ==
  ASSUME RunInv
  PROVE  /\ Parked \in Nat /\ searching \in Nat /\ Workers \in Nat
         /\ driving => Parked = asleep + 1
         /\ ~driving => Parked = asleep
  BY RuntimeAssumption DEF RuntimeAssumption, RunInv, Parked

\* A task that ends its poll, or its life, gives its worker back.
Yields(t) ==
  /\ t \in {"uploader", "telemetry", "fim"} /\ st[t] = "running"
  /\ \E s \in {"waiting", "finished", "dead"} : Become(t, s)

\* All that a step does, as far as workers and tasks go.
LEMMA StepIs ==
  ASSUME RunInv, [Next]_vars
  PROVE  \/ \E t \in Services : /\ st[t] = "unspawned" /\ Become(t, "queued")
                                /\ Notify(searching, driving)
         \/ Fail /\ UNCHANGED workers
         \/ \E t \in Services : Poll(t)
         \/ Park
         \/ \E ts \in SUBSET Waiting : \E t \in ts : DriverTurn(t, ts)
         \/ Resolved
         \/ (\E t \in Services : Yields(t)) /\ UNCHANGED workers
         \/ UNCHANGED <<st, workers>>
<1>1. CASE Spawn
  <2>1. next \in 1..6 /\ main = "spawning"
    BY <1>1, OrderIs DEF Spawn, RunInv
  <2>2. Order[next] \in Services /\ st[Order[next]] = "unspawned"
    BY <2>1, OrderIs DEF RunInv
  <2> QED
    BY <1>1, <2>2 DEF Spawn
<1>2. CASE AwaitCtrlC \/ PressCtrlC \/ CtrlC \/ Join \/ FimEvent
  BY <1>2 DEF AwaitCtrlC, PressCtrlC, CtrlC, Join, FimEvent
<1>3. CASE Sample \/ FimReturns
  BY <1>3, ServicesAre
  DEF Sample, Telemetry, TelemetryPanics, FimReturns, Sampled, Yields
<1>4. CASE Uploader \/ BuildFails
  BY <1>4, UploaderSteps, ServicesAre DEF Yields
<1>5. CASE UNCHANGED vars
  BY <1>5 DEF vars
<1> QED
  BY <1>1, <1>2, <1>3, <1>4, <1>5 DEF Next, Main
LEMMA PollRuns ==
  ASSUME RunInv, NEW t \in Services, Become(t, Polled(t)), st[t] = "queued"
  PROVE  /\ OnWorker' \subseteq OnWorker \cup {t}
         /\ t \in Sleepers => OnWorker' \subseteq OnWorker
         /\ Queued' \subseteq Queued
  BY PolledIs DEF Become, OnWorker, Queued, RunInv

LEMMA PlacesNat ==
  ASSUME RunInv, [Next]_vars
  PROVE  Parked' \in Nat /\ searching' \in Nat /\ asleep' \in Nat
  BY RunStep DEF RunInv, Parked

LEMMA Arith ==
  ASSUME NEW c \in Nat, NEW d \in Nat, NEW q \in Nat, NEW r \in Nat, NEW k \in Nat,
         NEW p \in Nat, NEW s \in Nat, NEW w \in Nat,
         d <= c + k, c + p + s <= w,
         \/ q + r + k = p + s
         \/ q + r = p + s /\ c + p + s + k <= w
  PROVE  d + q + r <= w
  OBVIOUS

\* The sum that stays within the workers, term by term.
LEMMA FitsBy ==
  ASSUME RunInv, [Next]_vars, Fits, NEW k \in Nat,
         Cardinality(OnWorker') <= Cardinality(OnWorker) + k,
         \/ Parked' + searching' + k = Parked + searching
         \/ /\ Parked' + searching' = Parked + searching
            /\ Cardinality(OnWorker) + Parked + searching + k <= Workers
  PROVE  Fits'
<1>1. PICK c \in Nat, d \in Nat :
        c = Cardinality(OnWorker) /\ d = Cardinality(OnWorker')
  BY OnWorkerFinite
<1>2. Parked \in Nat /\ searching \in Nat /\ Workers \in Nat
  BY ParkedIs
<1>3. PICK q \in Nat, r \in Nat : q = Parked' /\ r = searching'
  BY PlacesNat
<1>4. /\ d <= c + k /\ c + Parked + searching <= Workers
      /\ \/ q + r + k = Parked + searching
         \/ q + r = Parked + searching /\ c + Parked + searching + k <= Workers
  BY <1>1, <1>3 DEF Fits
<1>5. d + q + r <= Workers
  BY <1>1, <1>2, <1>3, <1>4, Arith
<1> QED
  BY <1>1, <1>3, <1>5 DEF Fits

LEMMA NotifySums ==
  ASSUME RunInv, NEW s \in Nat, Notify(s, driving)
  PROVE  Parked' + searching' = Parked + s
  BY NotifyMoves DEF RunInv, Parked

LEMMA FitsStep ==
  ASSUME RunInv, Fits, [Next]_vars
  PROVE  Fits'
<1>0. /\ Parked \in Nat /\ searching \in Nat /\ Workers \in Nat
      /\ Cardinality(OnWorker) \in Nat
      /\ Cardinality(OnWorker) + Parked + searching <= Workers
  BY ParkedIs, OnWorkerFinite DEF Fits
<1>1. ASSUME OnWorker' \subseteq OnWorker, Parked' + searching' = Parked + searching
      PROVE  Fits'
  <2>1. Cardinality(OnWorker') <= Cardinality(OnWorker) + 0
    BY <1>0, <1>1, NoneMore
  <2>2. /\ Parked' + searching' = Parked + searching
        /\ Cardinality(OnWorker) + Parked + searching + 0 <= Workers
    BY <1>0, <1>1
  <2> QED
    BY <2>1, <2>2, FitsBy
<1>2. ASSUME NEW t, OnWorker' \subseteq OnWorker \cup {t},
             Parked' + searching' + 1 = Parked + searching
      PROVE  Fits'
  BY <1>2, OneMore, FitsBy
<1>3. ASSUME NEW t, OnWorker' \subseteq OnWorker \cup {t}, Awake > searching,
             Parked' + searching' = Parked + searching
      PROVE  Fits'
  <2>1. Cardinality(OnWorker) + Parked + searching + 1 <= Workers
    BY <1>0, <1>3 DEF Awake
  <2> QED
    BY <1>3, <2>1, OneMore, FitsBy
<1>4. ASSUME Notify(searching, driving)
      PROVE  Parked' + searching' = Parked + searching
  BY <1>0, <1>4, NotifySums
<1>5. ASSUME UNCHANGED workers
      PROVE  Parked' + searching' = Parked + searching
  BY <1>5 DEF workers, Parked
<1>6. ASSUME NEW t \in Services, Poll(t)
      PROVE  Fits'
  <2>1. OnWorker' \subseteq OnWorker \cup {t}
    BY <1>6, PollRuns DEF Poll, Steal, Take
  <2>2. CASE searching > 0 /\ Notify(searching - 1, driving)
    <3>1. searching - 1 \in Nat /\ Parked + (searching - 1) + 1 = Parked + searching
      BY <1>0, <2>2
    <3>2. Parked' + searching' = Parked + (searching - 1)
      BY <2>2, <3>1, NotifySums
    <3> QED
      BY <1>2, <2>1, <3>1, <3>2
  <2>3. CASE Awake > searching /\ (UNCHANGED workers \/ Notify(searching, driving))
    BY <1>3, <1>4, <1>5, <2>1, <2>3
  <2> QED
    BY <1>6, <2>2, <2>3 DEF Poll, Steal, Take
<1>7. CASE Park
  <2>1. OnWorker' = OnWorker
    BY <1>7 DEF Park, OnWorker
  <2>2. Parked' = Parked + 1
    <3>1. CASE driving
      BY <1>7, <3>1 DEF Park, Parked, RunInv
    <3>2. CASE ~driving
      BY <1>7, <3>2 DEF Park, Parked, RunInv
    <3> QED
      BY <3>1, <3>2
  <2>3. CASE searching > 0 /\ searching' = searching - 1
    <3>1. (Parked + 1) + (searching - 1) = Parked + searching
      BY <1>0
    <3> QED
      BY <1>1, <2>1, <2>2, <2>3, <3>1
  <2>4. CASE Awake > searching /\ searching' = searching
    <3>1. Cardinality(OnWorker) + (Parked + 1) + searching <= Workers
      BY <1>0, <2>4 DEF Awake
    <3> QED
      BY <2>1, <2>2, <2>4, <3>1 DEF Fits
  <2> QED
    BY <1>7, <2>3, <2>4 DEF Park
<1>8. ASSUME NEW ts \in SUBSET Waiting, NEW t \in ts, DriverTurn(t, ts)
      PROVE  Fits'
  <2>1. OnWorker' \subseteq OnWorker \cup {t}
    BY <1>8 DEF DriverTurn, OnWorker
  <2>2. driving /\ Parked = asleep + 1 /\ asleep \in Nat
    BY <1>8, ParkedIs DEF DriverTurn, RunInv
  <2>3. asleep + 0 + searching + 1 = Parked + searching
    BY <1>0, <2>2
  <2>4. CASE Notify(searching, FALSE)
    <3>1. (IF FALSE THEN 1 ELSE 0) = 0
      OBVIOUS
    <3>2. Parked' + searching' = asleep + (IF FALSE THEN 1 ELSE 0) + searching
      BY <1>0, <2>2, <2>4, NotifyMoves
    <3>3. Parked' + searching' = asleep + 0 + searching
      BY <3>1, <3>2
    <3> QED
      BY <1>2, <2>1, <2>3, <3>3
  <2>5. CASE driving' = FALSE /\ UNCHANGED <<asleep, searching>>
    <3>1. Parked' = asleep + 0
      BY <2>5 DEF Parked
    <3>2. Parked' + searching' = asleep + 0 + searching
      BY <2>5, <3>1
    <3> QED
      BY <1>2, <2>1, <2>3, <3>2
  <2> QED
    BY <1>8, <2>4, <2>5 DEF DriverTurn
<1>9. CASE \/ \E t \in Services : /\ st[t] = "unspawned" /\ Become(t, "queued")
                                  /\ Notify(searching, driving)
           \/ Resolved
  <2>1. OnWorker' \subseteq OnWorker
    BY <1>9 DEF Resolved, Become, OnWorker, RunInv
  <2> QED
    BY <1>1, <1>4, <1>9, <2>1 DEF Resolved
<1>10. CASE /\ \/ Fail \/ \E t \in Services : Yields(t)
               \/ UNCHANGED st
            /\ UNCHANGED workers
  <2>1. OnWorker' \subseteq OnWorker
    BY <1>10 DEF Fail, Yields, Become, OnWorker, RunInv
  <2> QED
    BY <1>1, <1>5, <1>10, <2>1
<1> QED
  BY <1>6, <1>7, <1>8, <1>9, <1>10, StepIs

\* The types hold, and every worker is in one place at most.
THEOREM TypeCorrect == Spec => []TypeOK
<1>1. Init => Fits
  <2> SUFFICES ASSUME Init
               PROVE  Fits
    OBVIOUS
  <2>1. OnWorker = {} /\ Parked = 0 /\ searching = 0
    BY DEF Init, OnWorker, Parked
  <2> QED
    BY <2>1, FS_EmptySet, RuntimeAssumption DEF RuntimeAssumption, Fits
<1>2. RunInv /\ Fits => TypeOK
  BY OrderIs DEF RunInv, TypeOK, State, Live, Fits
<1> QED
  BY <1>1, <1>2, FitsStep, RunCorrect, PTL DEF Spec

-----------------------------------------------------------------------------
(* Starvation *)

\* A queued task has a worker that searches, or all have been told; only three
\* tasks hold a worker beyond a poll; the driver wakes the uploader out of a post.
WakeInv ==
  /\ Queued # {} => searching > 0 \/ (asleep = 0 /\ ~driving)
  /\ OnWorker \subseteq {"uploader", "telemetry", "fim"}
  /\ st["uploader"] = "waiting" => up \in {"flush", "closing"}
  /\ st["fim"] # "waiting"

LEMMA HeldSmall ==
  ASSUME NEW S \in SUBSET {"uploader", "fim"}
  PROVE  Cardinality(S) \in Nat /\ Cardinality(S) <= 2
<1> DEFINE one == {"uploader"}
           two == one \cup {"fim"}
<1>1. IsFiniteSet(one) /\ Cardinality(one) = 1
  BY FS_Singleton
<1>2. IsFiniteSet(two) /\ Cardinality(two) = 2
  <2>1. "fim" \notin one
    OBVIOUS
  <2> HIDE DEF one
  <2> QED
    BY <1>1, <2>1, FS_AddElement
<1>3. S \subseteq two
  OBVIOUS
<1> HIDE DEF two
<1> QED
  BY <1>2, <1>3, FS_Subset, FS_CardinalityType

LEMMA WakeStep ==
  ASSUME RunInv, WakeInv, [Next]_vars
  PROVE  WakeInv'
<1>0. asleep \in Nat /\ searching \in Nat /\ driving \in BOOLEAN
  BY DEF RunInv
<1>1. (Queued # {} => searching > 0 \/ (asleep = 0 /\ ~driving))'
  <2>1. CASE Notify(searching, driving)
    BY <1>0, <2>1, NotifyMoves
  <2>2. CASE UNCHANGED workers /\ Queued' \subseteq Queued
    BY <2>2 DEF workers, WakeInv
  <2>3. ASSUME NEW t \in Services, Poll(t)
        PROVE  (Queued # {} => searching > 0 \/ (asleep = 0 /\ ~driving))'
    <3>1. CASE searching > 0 /\ Notify(searching - 1, driving)
      <4>1. searching - 1 \in Nat
        BY <1>0, <3>1
      <4> QED
        BY <1>0, <3>1, <4>1, NotifyMoves
    <3>2. Queued' \subseteq Queued
      BY <2>3, PollRuns DEF Poll, Steal, Take
    <3> QED
      BY <2>1, <2>2, <2>3, <3>1, <3>2 DEF Poll, Steal, Take
  <2>4. CASE Park
    BY <2>4 DEF Park, Queued
  <2>5. ASSUME NEW ts \in SUBSET Waiting, NEW t \in ts, DriverTurn(t, ts)
        PROVE  (Queued # {} => searching > 0 \/ (asleep = 0 /\ ~driving))'
    <3>1. CASE Notify(searching, FALSE)
      BY <1>0, <3>1, NotifyMoves
    <3>2. CASE ts = {t} /\ driving' = FALSE /\ UNCHANGED <<asleep, searching>>
      <4>1. Queued' \subseteq Queued
        BY <2>5, <3>2, PolledIs DEF DriverTurn, Queued
      <4> QED
        BY <2>5, <3>2, <4>1 DEF WakeInv, DriverTurn
    <3> QED
      BY <2>5, <3>1, <3>2 DEF DriverTurn
  <2>6. CASE Resolved
    BY <2>1, <2>6 DEF Resolved
  <2>7. CASE (\E t \in Services : Yields(t)) /\ UNCHANGED workers
    <3>1. Queued' \subseteq Queued
      BY <2>7 DEF Yields, Become, Queued, RunInv
    <3> QED
      BY <2>2, <2>7, <3>1
  <2>8. CASE UNCHANGED <<st, workers>>
    BY <2>2, <2>8 DEF Queued
  <2>9. CASE Fail /\ UNCHANGED workers
    BY <2>2, <2>9 DEF Fail, Queued
  <2> QED
    BY <2>1, <2>3, <2>4, <2>5, <2>6, <2>7, <2>8, <2>9, StepIs
<1>2. (OnWorker \subseteq {"uploader", "telemetry", "fim"})'
  <2>1. ASSUME NEW t \in Services, Poll(t)
        PROVE  OnWorker' \subseteq {"uploader", "telemetry", "fim"}
    <3>1. t \notin Sleepers => t \in {"uploader", "telemetry", "fim"}
      BY ServicesAre DEF Sleepers
    <3> QED
      BY <2>1, <3>1, PollRuns DEF Poll, Steal, Take, WakeInv
  <2>2. ASSUME NEW ts \in SUBSET Waiting, NEW t \in ts, DriverTurn(t, ts)
        PROVE  OnWorker' \subseteq {"uploader", "telemetry", "fim"}
    <3>1. t \in Services /\ (t \notin Sleepers => t \in {"uploader", "telemetry", "fim"})
      BY ServicesAre DEF Sleepers, Waiting
    <3> QED
      BY <2>2, <3>1, PolledIs DEF DriverTurn, OnWorker, WakeInv
  <2>3. CASE \/ \E t \in Services : Yields(t)
             \/ Resolved \/ Park \/ UNCHANGED <<st, workers>> \/ Fail
             \/ \E t \in Services : st[t] = "unspawned" /\ Become(t, "queued")
    <3>1. OnWorker' \subseteq OnWorker
      BY <2>3 DEF Yields, Become, Resolved, Park, Fail, OnWorker, RunInv
    <3> QED
      BY <3>1 DEF WakeInv
  <2> QED
    BY <2>1, <2>2, <2>3, StepIs
<1>3. /\ st'["uploader"] = "waiting" => up' \in {"flush", "closing"}
      /\ st'["fim"] # "waiting"
  <2>1. CASE Uploader \/ BuildFails
    BY <2>1, ServicesAre
    DEF Uploader, BuildClient, RecvOk, RecvTimeout, RecvDisconnected, FlushAwaits,
        FlushDone, BuildFails, Post, Become, RunInv, WakeInv
  <2>2. CASE UNCHANGED up /\ \A t \in {"uploader", "fim"} :
                               st'[t] = "waiting" => st[t] = "waiting"
    BY <2>2 DEF WakeInv
  <2>3. CASE \E t \in Services : Poll(t)
    BY <2>2, <2>3, PolledIs, ServicesAre
    DEF Poll, Steal, Take, Become, RunInv, Sleepers
  <2>4. CASE \E ts \in SUBSET Waiting : \E t \in ts : DriverTurn(t, ts)
    <3>1. PICK ts \in SUBSET Waiting : \E t \in ts : DriverTurn(t, ts)
      BY <2>4
    <3>2. PICK t \in ts : DriverTurn(t, ts)
      BY <3>1
    <3>3. UNCHANGED up
      BY <3>2 DEF DriverTurn
    <3>4. \A u \in {"uploader", "fim"} : st'[u] = "waiting" => st[u] = "waiting"
      BY <3>2, PolledIs, ServicesAre DEF DriverTurn, Sleepers
    <3> QED
      BY <2>2, <3>3, <3>4
  <2>5. CASE \/ Main \/ PressCtrlC \/ Park \/ Resolved \/ Sample \/ FimEvent
             \/ FimReturns \/ UNCHANGED vars
    <3>1. UNCHANGED up
      BY <2>5 DEF Main, Spawn, AwaitCtrlC, CtrlC, Join, PressCtrlC, Park, Resolved,
                  Sample, Telemetry, TelemetryPanics, FimEvent, FimReturns, vars
    <3>2. \/ UNCHANGED st
          \/ \E t \in Services : Become(t, "queued")
          \/ Become("telemetry", "waiting")
          \/ \E t \in Services, s \in {"dead", "finished"} : Become(t, s)
          \/ Fail
      <4>1. CASE Spawn
        <5>1. Order[next] \in Services
          BY <4>1, OrderIs DEF Spawn, RunInv
        <5> QED
          BY <4>1, <5>1 DEF Spawn
      <4>2. CASE \/ AwaitCtrlC \/ CtrlC \/ Join \/ PressCtrlC \/ Park \/ FimEvent
                 \/ UNCHANGED vars
        BY <4>2 DEF AwaitCtrlC, CtrlC, Join, PressCtrlC, Park, FimEvent, vars
      <4>3. CASE Resolved \/ Sample \/ FimReturns
        BY <4>3, ServicesAre
        DEF Resolved, Sample, Telemetry, TelemetryPanics, FimReturns, Sampled
      <4> QED
        BY <2>5, <4>1, <4>2, <4>3 DEF Main
    <3> QED
      BY <2>2, <3>1, <3>2, ServicesAre DEF Become, Fail, RunInv
  <2> QED
    BY <2>1, <2>3, <2>4, <2>5 DEF Next
<1> QED
  BY <1>1, <1>2, <1>3 DEF WakeInv

LEMMA Zero == \A n \in Nat : n + 0 = n
  OBVIOUS

\* A step that leaves nobody on the driver, and nobody awake to go there: the
\* worker on the driver has resumed the uploader.
LEMMA DriverStep ==
  ASSUME RunInv, Fits, WakeInv, [Next]_vars, Workers >= 3, DriverLost', ~DriverLost
  PROVE  driving /\ up \in {"flush", "closing"}
<1>0. /\ asleep \in Nat /\ searching \in Nat /\ driving \in BOOLEAN
      /\ asleep' \in Nat /\ searching' \in Nat /\ Workers \in Nat
  BY RunStep, RuntimeAssumption DEF RuntimeAssumption, RunInv
<1>1. /\ ~driving' /\ asleep' > 0 /\ searching' = 0
      /\ Workers = Cardinality(OnWorker') + asleep'
  <2>1. Cardinality(OnWorker') \in Nat /\ Cardinality(OnWorker') <= 2
    BY HeldSmall DEF DriverLost
  <2>2. ~driving'
    BY DEF DriverLost
  <2>3. Parked' = asleep'
    <3>1. Parked' = asleep' + 0
      BY <2>2 DEF Parked
    <3> QED
      BY <1>0, <3>1, Zero
  <2>4. Workers - Cardinality(OnWorker') - asleep' = 0
    BY <2>3 DEF DriverLost, Awake
  <2>5. Cardinality(OnWorker') + asleep' + searching' <= Workers
    BY <2>3, FitsStep DEF Fits
  <2> QED
    BY <1>0, <2>1, <2>2, <2>4, <2>5
<1>2. ASSUME NEW s \in Nat, NEW drv \in BOOLEAN, Notify(s, drv)
      PROVE  FALSE
  BY <1>0, <1>1, <1>2, NotifyMoves
<1>3. CASE UNCHANGED <<st, workers>>
  <2>1. OnWorker' = OnWorker /\ Parked' = Parked /\ UNCHANGED <<driving, st>>
    BY <1>3 DEF OnWorker, Parked, workers
  <2> QED
    BY <2>1 DEF DriverLost, Awake
<1>4. ASSUME NEW t \in Services, Poll(t)
      PROVE  FALSE
  <2>1. CASE searching > 0 /\ Notify(searching - 1, driving)
    <3>1. searching - 1 \in Nat
      BY <1>0, <2>1
    <3> QED
      BY <1>0, <1>2, <2>1, <3>1
  <2>2. CASE UNCHANGED workers
    <3>1. Queued # {}
      BY <1>4 DEF Poll, Steal, Take, Queued
    <3>2. searching = 0 /\ asleep > 0
      BY <1>1, <2>2 DEF workers
    <3> QED
      BY <3>1, <3>2 DEF WakeInv
  <2> QED
    BY <1>0, <1>2, <1>4, <2>1, <2>2 DEF Poll, Steal, Take
<1>5. CASE Park
  BY <1>1, <1>5 DEF Park
<1>6. ASSUME NEW ts \in SUBSET Waiting, NEW t \in ts, DriverTurn(t, ts)
      PROVE  driving /\ up \in {"flush", "closing"}
  <2>1. /\ driving /\ t \in Services /\ st[t] = "waiting" /\ ts = {t}
        /\ UNCHANGED <<asleep, searching>>
    BY <1>2, <1>0, <1>6 DEF DriverTurn, Waiting
  <2>2. CASE t = "uploader"
    BY <2>1, <2>2 DEF WakeInv
  <2>3. CASE t = "telemetry"
    <3>1. "telemetry" \in OnWorker'
      BY <1>6, <2>1, <2>3, PolledIs DEF DriverTurn, OnWorker, Sleepers
    <3> QED
      BY <3>1 DEF DriverLost
  <2>4. CASE t \in Sleepers
    <3>1. OnWorker' = OnWorker
      BY <1>6, <2>1, <2>4, PolledIs DEF DriverTurn, OnWorker
    <3>2. Parked = asleep + 1
      BY <1>0, <2>1 DEF Parked
    <3> QED
      BY <1>0, <1>1, <2>1, <3>1, <3>2, OnWorkerFinite DEF Fits
  <2>5. t # "fim"
    BY <2>1 DEF WakeInv
  <2> QED
    BY <2>1, <2>2, <2>3, <2>4, <2>5, ServicesAre DEF Sleepers
<1>7. CASE (\E t \in Services : Yields(t)) /\ UNCHANGED workers
  <2>1. PICK t \in Services : Yields(t)
    BY <1>7
  <2>2. t \in OnWorker /\ OnWorker' \subseteq OnWorker \ {t}
    BY <2>1 DEF Yields, Become, OnWorker, RunInv
  <2>3. Cardinality(OnWorker') <= Cardinality(OnWorker) - 1
    BY <2>2, OneLess
  <2>4. asleep' = asleep /\ searching' = searching /\ driving' = driving
    BY <1>7 DEF workers
  <2>5. Parked = asleep
    BY <1>0, <1>1, <2>4 DEF Parked
  <2> QED
    BY <1>0, <1>1, <2>3, <2>4, <2>5, OnWorkerFinite DEF Fits
<1>8. ~Fail
  BY ServicesAre DEF Fail, DriverLost, Spawned
<1> QED
  BY <1>0, <1>2, <1>3, <1>4, <1>5, <1>6, <1>7, <1>8, StepIs DEF Resolved

LEMMA WakeCorrect == Spec => [](Fits /\ WakeInv)
<1> DEFINE Inv == Fits /\ WakeInv
<1>1. Init => Inv
  <2> SUFFICES ASSUME Init
               PROVE  Inv
    OBVIOUS
  <2>1. OnWorker = {} /\ Queued = {} /\ Parked = 0 /\ searching = 0
    BY DEF Init, OnWorker, Queued, Parked
  <2>2. st["uploader"] # "waiting" /\ st["fim"] # "waiting"
    BY ServicesAre DEF Init
  <2> QED
    BY <2>1, <2>2, FS_EmptySet, RuntimeAssumption DEF RuntimeAssumption, Fits, WakeInv
<1>2. RunInv /\ Inv /\ [Next]_vars => Inv'
  BY FitsStep, WakeStep
<1> HIDE DEF Inv
<1>3. Spec => []Inv
  BY <1>1, <1>2, RunCorrect, PTL DEF Spec
<1> QED
  BY <1>3 DEF Inv

\* With three workers or more, a queued task has a worker that is awake to take it,
\* or telemetry has that one for the time of a sample (uploader/mod.rs:27,
\* fim/mod.rs:59); and the driver is left for good only by the worker that resumes
\* the uploader after a post (uploader/mod.rs:75).
THEOREM NeverStarvedCorrect == Spec => NeverStarved
<1> DEFINE Inv == Fits /\ WakeInv
           Found == Workers >= 3 /\ Queued # {} =>
                      Awake > 0 \/ st["telemetry"] = "running"
           Kept == Workers >= 3 /\ DriverLost' =>
                     DriverLost \/ (driving /\ up \in {"flush", "closing"})
<1>1. RunInv /\ Inv => Found
  <2> SUFFICES ASSUME RunInv, Inv, Workers >= 3, Queued # {}, st["telemetry"] # "running"
               PROVE  Awake > 0
    OBVIOUS
  <2>1. OnWorker \subseteq {"uploader", "fim"}
    BY DEF WakeInv, OnWorker
  <2>2. Cardinality(OnWorker) \in Nat /\ Cardinality(OnWorker) <= 2
    BY <2>1, HeldSmall
  <2>3. searching > 0 \/ Parked = 0
    BY DEF WakeInv, Parked
  <2> QED
    BY <2>2, <2>3, ParkedIs DEF Fits, Awake
<1>2. RunInv /\ Inv /\ [Next]_vars => [Kept]_vars
  <2> SUFFICES ASSUME RunInv, Inv, [Next]_vars, Workers >= 3, DriverLost', ~DriverLost
               PROVE  driving /\ up \in {"flush", "closing"}
    OBVIOUS
  <2> QED
    BY DriverStep
<1>3. Spec => []Inv
  BY WakeCorrect
<1> HIDE DEF Inv, Found, Kept
<1>4. Spec => []Found /\ [][Kept]_vars
  BY <1>1, <1>2, <1>3, RunCorrect, PTL DEF Spec
<1> QED
  BY <1>4 DEF Found, Kept, NeverStarved
=============================================================================
