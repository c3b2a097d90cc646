--------------------------- MODULE PipelineProofs ---------------------------
(***************************************************************************)
(* Proofs about what is built on the uploader.  Its clocks: the timed         *)
(* specification is one way of being the untimed one, and a flush is never put *)
(* off for longer than one timeout for each event the batch has room for.      *)
(* The ingestion path: so is the composition with the agent's key and the      *)
(* manager's endpoint, and the tenant's counter follows what is confirmed.     *)
(***************************************************************************)
EXTENDS UploaderTimed, IngestPath, UploaderProofs

-----------------------------------------------------------------------------
(* The clocks of the loop *)

\* The clocks have their types, the flag is a function of the clocks, and a batch
\* is not held for longer than since last_flush while that is within the interval.
ClockInv ==
  /\ wait \in 0..Timeout /\ since \in 0..FlushInterval /\ held \in Nat
  /\ due \in BOOLEAN
  /\ pc = "init" => due = FALSE
  /\ pc = "recv" /\ due => since >= FlushInterval
  /\ pc = "recv" /\ wait > 0 /\ since >= FlushInterval => due
  /\ pc = "recv" /\ since < FlushInterval => held <= since

\* Every action that comes with Reset leaves the loop's body, or comes from it.
LEMMA ResetKeeps ==
  ASSUME ClockInv, BuildClient \/ RespOk \/ RespRejected \/ BuildFails
                     \/ GiveUp \/ Restart, Reset
  PROVE  ClockInv'
<1>1. wait' = 0 /\ since' = 0 /\ held' = 0
  BY DEF Reset
<1>2. due' \in BOOLEAN
  BY DEF ClockInv, BuildClient, RespOk, RespRejected, BuildFails, GiveUp, Restart,
         Fail, Return
<1>3. pc' = "recv" => due' = FALSE
  BY DEF ClockInv, BuildClient, RespOk, RespRejected, BuildFails, GiveUp, Restart,
         Fail, Return
<1>4. pc' = "init" => due' = FALSE
  BY DEF ClockInv, BuildClient, RespOk, RespRejected, BuildFails, GiveUp, Restart,
         Fail, Return
<1> QED
  BY <1>1, <1>2, <1>3, <1>4, TimedAssumption DEF TimedAssumption, ClockInv

\* The clock invariant holds of the timed specification.
THEOREM ClocksCorrect == TimedSpec => []ClockInv
<1>1. TimedInit => ClockInv
  <2> SUFFICES ASSUME TimedInit
               PROVE  ClockInv
    OBVIOUS
  <2>1. wait = 0 /\ since = 0 /\ held = 0 /\ pc = "init" /\ due = FALSE
    BY DEF TimedInit, Init
  <2>2. wait \in 0..Timeout /\ since \in 0..FlushInterval /\ held \in Nat
    BY <2>1, TimedAssumption DEF TimedAssumption
  <2>3. due \in BOOLEAN
    BY <2>1
  <2> QED
    BY <2>1, <2>2, <2>3 DEF ClockInv
<1>2. ClockInv /\ [TimedNext]_timedVars => ClockInv'
  <2> SUFFICES ASSUME ClockInv, [TimedNext]_timedVars
               PROVE  ClockInv'
    OBVIOUS
  <2>1. CASE Pass
    <3>1. due' \in BOOLEAN /\ (due' <=> since' >= FlushInterval)
      <4> DEFINE elapsed == since' >= FlushInterval
      <4>1. due' = elapsed
        BY <2>1 DEF Pass
      <4>2. elapsed \in BOOLEAN
        OBVIOUS
      <4> HIDE DEF elapsed
      <4>3. due' \in BOOLEAN /\ (due' <=> elapsed)
        BY <4>1, <4>2, Zenon
      <4> QED
        BY <4>3 DEF elapsed
    <3>2. /\ pc' = "recv"
          /\ wait' \in 0..Timeout /\ since' \in 0..FlushInterval /\ held' \in Nat
          /\ since' < FlushInterval => held' <= since'
      BY <2>1, TimedAssumption DEF TimedAssumption, ClockInv, Pass, Waiting
    <3> QED
      BY <3>1, <3>2 DEF ClockInv
  <2>2. CASE TimedRecv
    BY <2>2, TimedAssumption
    DEF TimedAssumption, ClockInv, TimedRecv, RecvOk, SinceFlush
  <2>3. CASE FlushOnTimeout
    BY <2>3 DEF ClockInv, FlushOnTimeout, RecvTimeout, clocks
  <2>4. CASE EmptyTimeout
    BY <2>4, TimedAssumption DEF TimedAssumption, ClockInv, EmptyTimeout, vars
  <2>5. CASE RecvDisconnected /\ UNCHANGED clocks
    BY <2>5 DEF ClockInv, RecvDisconnected, clocks
  <2>6. CASE (BuildClient \/ RespOk \/ RespRejected \/ BuildFails
                \/ GiveUp \/ Restart) /\ Reset
    BY <2>6, ResetKeeps
  <2>7. CASE /\ \/ \E c \in Collector, e \in Event : Send(c, e) \/ SendFails(c, e)
                \/ \E s \in Collector \cup {Main} : DropSender(s)
                \/ PeerAccept \/ PeerReject
                \/ \E r \in late : LateAccept(r)
             /\ UNCHANGED clocks
    <3>1. pc' = pc /\ due' = due
      BY <2>7 DEF Send, SendFails, DropSender, PeerAccept, PeerReject, LateAccept
    <3> QED
      BY <2>7, <3>1 DEF ClockInv, clocks
  <2>8. CASE UNCHANGED timedVars
    BY <2>8 DEF ClockInv, timedVars, vars, clocks
  <2> QED
    BY <2>1, <2>2, <2>3, <2>4, <2>5, <2>6, <2>7, <2>8 DEF TimedNext, TimedTask
<1> QED
  BY <1>1, <1>2, PTL DEF TimedSpec

\* With clocks the uploader does nothing it does not do without: what is proved
\* of Spec holds of TimedSpec.  Only Pass needs an argument: it raises the flag,
\* as Tick does, or leaves it alone.
THEOREM TimedImplements == TimedSpec => Spec
<1>1. TimedInit => Init
  BY DEF TimedInit
<1>2. ClockInv /\ [TimedNext]_timedVars => [Next]_vars
  <2> SUFFICES ASSUME ClockInv, [TimedNext]_timedVars
               PROVE  [Next]_vars
    OBVIOUS
  <2>1. CASE Pass
    <3>1. due' \in BOOLEAN /\ (due => due')
      BY <2>1, TimedAssumption DEF TimedAssumption, ClockInv, Pass, Waiting
    <3>2. CASE due' = due
      BY <2>1, <3>2 DEF Pass, vars, chan, net, hist
    <3>3. CASE ~due /\ due' = TRUE
      BY <2>1, <3>3 DEF Pass, Tick, Next, AgentStep
    <3> QED
      BY <3>1, <3>2, <3>3 DEF ClockInv
  <2>2. CASE TimedTask
    BY <2>2 DEF TimedTask, TimedRecv, FlushOnTimeout, EmptyTimeout, UploaderTask,
                Next, AgentStep
  <2>3. CASE (BuildFails \/ GiveUp \/ Restart) /\ Reset
    BY <2>3 DEF Next, AgentStep
  <2>4. CASE \/ \E c \in Collector, e \in Event : Send(c, e) \/ SendFails(c, e)
             \/ \E s \in Collector \cup {Main} : DropSender(s)
             \/ PeerAccept \/ PeerReject
             \/ \E r \in late : LateAccept(r)
    BY <2>4 DEF Next, AgentStep
  <2>5. CASE UNCHANGED timedVars
    BY <2>5 DEF timedVars
  <2> QED
    BY <2>1, <2>2, <2>3, <2>4, <2>5 DEF TimedNext
<1> QED
  BY <1>1, <1>2, ClocksCorrect, PTL DEF TimedSpec, Spec

-----------------------------------------------------------------------------
\* How many timeouts the events now in the batch may have put the flush off by:
\* one for each that came after the first, unless the next one fills the batch.
Carried == IF Len(batch) < BatchSize /\ batch # <<>> THEN Len(batch) - 1 ELSE 0

\* Nothing is held before there is a batch, and what is held is within the
\* interval, the timeouts other events began anew, and the one now running.
HeldInv ==
  /\ pc = "recv" /\ batch = <<>> => held = 0
  /\ pc = "recv" /\ batch # <<>> => held <= FlushInterval + Carried * Timeout + wait

\* Multiples of a timeout are naturals, and one more of them adds one timeout.
LEMMA Multiples ==
  ASSUME NEW n \in Nat, NEW t \in Nat
  PROVE  n * t \in Nat /\ (n + 1) * t = n * t + t
  OBVIOUS

LEMMA Monotone ==
  ASSUME NEW m \in Nat, NEW n \in Nat, NEW t \in Nat, m <= n
  PROVE  m * t <= n * t
  OBVIOUS

LEMMA Distribute ==
  ASSUME NEW m \in Nat, NEW n \in Nat, NEW t \in Nat
  PROVE  m * t \in Nat /\ n * t \in Nat /\ (m + n) * t = m * t + n * t
  OBVIOUS

LEMMA CarriedNat ==
  ASSUME batch \in Seq(Event)
  PROVE  Carried \in Nat
<1>1. Len(batch) \in Nat
  BY LenProperties
<1>2. batch # <<>> => Len(batch) # 0
  BY EmptySeq
<1> QED
  BY <1>1, <1>2, UploaderAssumption DEF UploaderAssumption, Carried

\* An event that does not fill the batch takes the place of the wait it ended.
LEMMA RecvHolds ==
  ASSUME TypeOK, ClockInv, HeldInv, TimedRecv
  PROVE  HeldInv'
<1>1. /\ pc = "recv" /\ queue # <<>> /\ held' = held /\ wait' = 0
      /\ batch' = Append(batch, Head(queue))
  BY DEF TimedRecv, RecvOk, Push
<1>2. batch \in Seq(Event) /\ Head(queue) \in Event
  BY <1>1, HeadTailProperties DEF TypeOK
<1>3. /\ batch' \in Seq(Event) /\ batch' # <<>>
      /\ Len(batch') = Len(batch) + 1 /\ Len(batch) \in Nat
  BY <1>1, <1>2, AppendProperties, LenProperties
<1>4. SUFFICES ASSUME pc' = "recv"
               PROVE  held' <= FlushInterval + Carried' * Timeout + wait'
  BY <1>3 DEF HeldInv
<1>5. Len(batch') < BatchSize
  <2>1. ~Full(batch')
    BY <1>4 DEF TimedRecv, RecvOk
  <2> QED
    BY <2>1, <1>3, UploaderAssumption DEF UploaderAssumption, Full
<1>6. Carried' = Len(batch)
  <2>1. Carried' = Len(batch') - 1
    BY <1>3, <1>5 DEF Carried
  <2> QED
    BY <2>1, <1>3
<1>7. CASE batch = <<>>
  <2>1. held' = 0 /\ Carried' = 0
    BY <1>1, <1>6, <1>7, EmptySeq DEF HeldInv
  <2> QED
    BY <2>1, <1>1, TimedAssumption DEF TimedAssumption
<1>8. CASE batch # <<>>
  <2>1. Len(batch) # 0
    BY <1>2, <1>8, EmptySeq
  <2>2. Len(batch) < BatchSize
    BY <1>3, <1>5, UploaderAssumption DEF UploaderAssumption
  <2>3. Carried = Len(batch) - 1 /\ Carried \in Nat /\ Carried' = Carried + 1
    BY <1>3, <1>6, <1>8, <2>1, <2>2 DEF Carried
  <2>4. /\ Carried * Timeout \in Nat
        /\ Carried' * Timeout = Carried * Timeout + Timeout
    BY <2>3, Multiples, TimedAssumption DEF TimedAssumption
  <2>5. held <= FlushInterval + Carried * Timeout + wait
    BY <1>1, <1>8 DEF HeldInv
  <2> DEFINE before == Carried * Timeout
             after  == Carried' * Timeout
  <2>6. before \in Nat /\ after = before + Timeout /\ held <= FlushInterval + before + wait
    BY <2>4, <2>5
  <2> HIDE DEF before, after
  <2>7. held' <= FlushInterval + after + wait'
    BY <1>1, <2>6, TimedAssumption DEF TimedAssumption, ClockInv
  <2> QED
    BY <2>7 DEF after
<1> QED
  BY <1>7, <1>8

\* A flush begins the count again, with the batch it left behind.
LEMMA ResetHolds ==
  ASSUME TypeOK', Reset
  PROVE  HeldInv'
<1>1. held' = 0 /\ wait' = 0 /\ batch' \in Seq(Event)
  BY DEF Reset, TypeOK
<1>2. Carried' \in Nat
  <2>1. Len(batch') \in Nat
    BY <1>1, LenProperties
  <2>2. batch' # <<>> => Len(batch') # 0
    BY <1>1, EmptySeq
  <2> QED
    BY <2>1, <2>2, UploaderAssumption DEF UploaderAssumption, Carried
<1>3. Carried' * Timeout \in Nat
  BY <1>2, Multiples, TimedAssumption DEF TimedAssumption
<1> QED
  BY <1>1, <1>3, TimedAssumption DEF TimedAssumption, HeldInv

\* The events of a batch wait for a flush no longer than flush_interval and one
\* recv_timeout for each of them but the last: the strengthening holds.
THEOREM HoldsCorrect == TimedSpec => []HeldInv
<1>1. TimedInit => HeldInv
  BY DEF TimedInit, Init, HeldInv
<1>2. HeldInv /\ ClockInv /\ TypeOK /\ TypeOK' /\ [TimedNext]_timedVars => HeldInv'
  <2> SUFFICES ASSUME HeldInv, ClockInv, TypeOK, TypeOK', [TimedNext]_timedVars
               PROVE  HeldInv'
    OBVIOUS
  <2> DEFINE slack == Carried * Timeout
  <2>0. slack \in Nat
    BY CarriedNat, Multiples, TimedAssumption DEF TimedAssumption, TypeOK
  <2>1. CASE Pass
    <3>1. batch' = batch /\ Carried' = Carried
      BY <2>1 DEF Pass, Carried
    <3>2. batch = <<>> => held' = 0
      BY <2>1 DEF Pass
    <3>3. CASE batch # <<>>
      <4>1. held <= FlushInterval + slack + wait
        BY <2>1, <3>3 DEF Pass, Waiting, HeldInv
      <4>2. held' = held + 1 /\ wait' = wait + 1
        BY <2>1, <3>3 DEF Pass
      <4> HIDE DEF slack
      <4>3. held' <= FlushInterval + slack + wait'
        BY <4>1, <4>2, <2>0, TimedAssumption DEF TimedAssumption, ClockInv
      <4> QED
        BY <4>3, <3>1, <3>3 DEF slack, HeldInv
    <3> QED
      BY <3>1, <3>2, <3>3 DEF HeldInv
  <2>2. CASE TimedRecv
    BY <2>2, RecvHolds
  <2>3. CASE FlushOnTimeout \/ RecvDisconnected
    BY <2>3 DEF FlushOnTimeout, RecvTimeout, RecvDisconnected, HeldInv
  <2>4. CASE EmptyTimeout
    <3>1. /\ pc = "recv" /\ wait = Timeout /\ wait' = 0 /\ held' = held
          /\ batch' = batch /\ Carried' = Carried
      BY <2>4 DEF EmptyTimeout, TimedOut, Waiting, vars, Carried
    <3>2. CASE batch # <<>>
      <4>1. ~due
        BY <2>4, <3>2 DEF EmptyTimeout, Overdue
      <4>2. held <= FlushInterval
        BY <3>1, <4>1, TimedAssumption DEF TimedAssumption, ClockInv
      <4> HIDE DEF slack
      <4>3. held' <= FlushInterval + slack + wait'
        BY <3>1, <4>2, <2>0, TimedAssumption DEF TimedAssumption, ClockInv
      <4> QED
        BY <4>3, <3>1, <3>2 DEF slack, HeldInv
    <3> QED
      BY <3>1, <3>2 DEF HeldInv
  <2>5. CASE Reset
    BY <2>5, ResetHolds
  <2>6. CASE /\ \/ \E c \in Collector, e \in Event : Send(c, e) \/ SendFails(c, e)
                \/ \E s \in Collector \cup {Main} : DropSender(s)
                \/ PeerAccept \/ PeerReject
                \/ \E r \in late : LateAccept(r)
             /\ UNCHANGED clocks
    <3>1. pc' = pc /\ batch' = batch /\ UNCHANGED clocks
      BY <2>6 DEF Send, SendFails, DropSender, PeerAccept, PeerReject, LateAccept
    <3> QED
      BY <3>1 DEF clocks, HeldInv, Carried
  <2>7. CASE UNCHANGED timedVars
    BY <2>7 DEF timedVars, vars, clocks, HeldInv, Carried
  <2> QED
    BY <2>1, <2>2, <2>3, <2>4, <2>5, <2>6, <2>7 DEF TimedNext, TimedTask
<1> QED
  BY <1>1, <1>2, ClocksCorrect, TimedImplements, TypeCorrect, PTL DEF TimedSpec

\* A steady stream of events puts a flush off (mod.rs:27, :37), but never for
\* longer than one recv_timeout for each event the batch has room for, whatever
\* batch_size and flush_interval are.
THEOREM HeldCorrect == TimedSpec => []HeldBounded
<1>1. HeldInv /\ ClockInv /\ TypeOK => HeldBounded
  <2> SUFFICES ASSUME HeldInv, ClockInv, TypeOK, pc = "recv", batch # <<>>
               PROVE  HeldBounded
    BY DEF HeldBounded
  <2> DEFINE rounds == IF BatchSize > 1 THEN BatchSize - 1 ELSE 1
             slack == Carried * Timeout
             limit == rounds * Timeout
  <2>1. held <= FlushInterval + slack + wait
    BY DEF HeldInv
  <2>2. rounds \in Nat /\ Carried \in Nat /\ Carried + 1 <= rounds
    <3>1. Len(batch) \in Nat /\ Len(batch) # 0
      BY LenProperties, EmptySeq DEF TypeOK
    <3> QED
      BY <3>1, UploaderAssumption DEF UploaderAssumption, Carried
  <2>3. slack \in Nat /\ (Carried + 1) * Timeout = slack + Timeout
    BY <2>2, Multiples, TimedAssumption DEF TimedAssumption
  <2>4. limit \in Nat /\ (Carried + 1) * Timeout <= limit
    <3>1. Carried + 1 \in Nat
      BY <2>2
    <3> HIDE DEF rounds
    <3> QED
      BY <2>2, <3>1, Multiples, Monotone, TimedAssumption DEF TimedAssumption
  <2>5. slack + Timeout <= limit
    BY <2>3, <2>4
  <2> HIDE DEF slack, limit
  <2>6. held <= FlushInterval + limit
    BY <2>1, <2>3, <2>4, <2>5, TimedAssumption DEF TimedAssumption, ClockInv
  <2> QED
    BY <2>6 DEF limit, HeldBounded
<1> QED
  BY <1>1, HoldsCorrect, ClocksCorrect, TimedImplements, TypeCorrect, PTL

-----------------------------------------------------------------------------
(* The ingestion path *)

\* Whatever key the agent holds and the manager thinks of it, the uploader does
\* nothing it does not do by itself: what is proved of Spec holds of IngestSpec.
THEOREM IngestImplements == IngestSpec => Spec
<1>1. IngestInit => Init
  BY DEF IngestInit
<1>2. [IngestNext]_ingestVars => [Next]_vars
  <2> SUFFICES ASSUME [IngestNext]_ingestVars
               PROVE  [Next]_vars
    OBVIOUS
  <2>1. CASE Run \/ Reload
    BY <2>1 DEF Run, Reload, Next
  <2>2. CASE Ingest \/ Unauthorized
    BY <2>2 DEF Ingest, Unauthorized, Next
  <2>3. ASSUME NEW r \in late, IngestLate(r)
        PROVE  [Next]_vars
    BY <2>3 DEF IngestLate, Next
  <2>4. CASE \/ Login \/ (\E t \in valid : Expire(t))
             \/ Check \/ (\E r \in late : CheckLate(r)) \/ UNCHANGED ingestVars
    BY <2>4 DEF Login, Expire, Check, CheckLate, ingestVars
  <2> QED
    BY <2>1, <2>2, <2>3, <2>4 DEF IngestNext
<1> QED
  BY <1>1, <1>2, PTL DEF IngestSpec, Spec

\* Against the real endpoint, with tokens that expire, keys that are refused and a
\* counter that fails, the agent is still the at-least-once, in-order queue
\* (uploader/mod.rs:58-91, events.go:21-45): a refusal delays and loses nothing.
THEOREM PathImplements == IngestSpec => Implements
  BY IngestImplements, ImplementsCorrect, PTL

\* Tokens are numbered in the order they are issued; every failed exchange and
\* every restart has its key on record, so that a request processed late finds
\* the one it was sent with.
TokenInv ==
  /\ issued \in 0..MaxTokens
  /\ env \in 0..issued
  /\ key \in 1..NoToken
  /\ valid \subseteq 1..issued
  /\ sent \in Seq(1..NoToken)
  /\ Len(sent) = faults
  /\ \A r \in late : r.n + 1 \in DOMAIN sent

\* A fault puts the key of its process on record.
LEMMA RememberKeeps ==
  ASSUME TypeOK, TokenInv, Remember,
         \/ late' \subseteq late /\ UNCHANGED faults
         \/ faults' = faults + 1 /\ late' = late \cup Abandoned
  PROVE  /\ sent' \in Seq(1..NoToken) /\ Len(sent') = faults'
         /\ \A r \in late' : r.n + 1 \in DOMAIN sent'
<1>1. faults \in Nat /\ key \in 1..NoToken /\ sent \in Seq(1..NoToken)
      /\ Len(sent) = faults
  BY DEF TypeOK, TokenInv
<1>2. CASE late' \subseteq late /\ UNCHANGED faults
  BY <1>1, <1>2 DEF Remember, TokenInv
<1>3. CASE faults' = faults + 1 /\ late' = late \cup Abandoned
  <2>1. sent' = Append(sent, key)
    BY <1>1, <1>3 DEF Remember
  <2>2. sent' \in Seq(1..NoToken) /\ Len(sent') = faults + 1
    BY <1>1, <2>1, AppendProperties
  <2>3. DOMAIN sent = 1..faults /\ DOMAIN sent' = 1..(faults + 1)
    BY <1>1, <2>2, LenProperties
  <2>4. \A r \in late : r.n + 1 \in 1..(faults + 1)
    <3>1. \A r \in late : r.n + 1 \in 1..faults
      BY <2>3 DEF TokenInv
    <3> QED
      BY <1>1, <3>1
  <2>5. \A r \in Abandoned : r.n + 1 \in 1..(faults + 1)
    BY <1>1 DEF Abandoned
  <2> QED
    BY <1>3, <2>2, <2>3, <2>4, <2>5
<1> QED
  BY <1>2, <1>3

\* What a step does to the record of faults.
LEMMA FaultSteps ==
  ASSUME [Next]_vars
  PROVE  \/ late' \subseteq late /\ UNCHANGED faults
         \/ /\ GiveUp \/ Restart
            /\ faults' = faults + 1 /\ late' = late \cup Abandoned
<1>1. GiveUp \/ Restart => faults' = faults + 1 /\ late' = late \cup Abandoned
  BY DEF GiveUp, Restart
<1>2. \/ \E c \in Collector, e \in Event : Send(c, e) \/ SendFails(c, e)
      \/ \E s \in Collector \cup {Main} : DropSender(s)
      \/ UploaderTask \/ BuildFails \/ Tick \/ PeerReject \/ UNCHANGED vars
      \/ PeerAccept \/ \E r \in late : LateAccept(r)
      => late' \subseteq late /\ UNCHANGED faults
  BY DEF Send, SendFails, DropSender, UploaderTask, BuildClient, RecvOk, RecvTimeout,
         RecvDisconnected, RespOk, RespRejected, BuildFails, Tick, PeerReject,
         PeerAccept, LateAccept, net, vars
<1> QED
  BY <1>1, <1>2 DEF Next, AgentStep

\* The tokens and the record of the keys are well-formed: the endpoint's check of
\* a late request always finds the key it was sent with (uploader/mod.rs:72).
THEOREM TokensCorrect == IngestSpec => []TokenInv
<1> USE IngestAssumption DEF IngestAssumption, NoToken
<1>1. IngestInit => TokenInv
  <2> SUFFICES ASSUME IngestInit
               PROVE  TokenInv
    OBVIOUS
  <2>1. issued \in {0, 1} /\ env = issued /\ key = Expand(env) /\ valid = 1..issued
    BY DEF IngestInit
  <2>2. sent = <<>> /\ late = {} /\ faults = 0
    BY DEF IngestInit, Init
  <2>3. sent \in Seq(1..NoToken) /\ Len(sent) = faults
    BY <2>2, EmptySeq
  <2> QED
    BY <2>1, <2>2, <2>3 DEF TokenInv, Expand, Unset
<1>2. TypeOK /\ TokenInv /\ [IngestNext]_ingestVars => TokenInv'
  <2> SUFFICES ASSUME TypeOK, TokenInv, [IngestNext]_ingestVars
               PROVE  TokenInv'
    OBVIOUS
  <2>1. CASE Run \/ Reload
    <3>1. Remember /\ UNCHANGED <<env, issued, valid>> /\ key' \in {key, Expand(env)}
      BY <2>1 DEF Run, Reload
    <3>2. key' \in 1..NoToken
      BY <3>1 DEF TokenInv, Expand, Unset
    <3>3. [Next]_vars
      BY <2>1 DEF Run, Reload, Next
    <3>4. /\ sent' \in Seq(1..NoToken) /\ Len(sent') = faults'
          /\ \A r \in late' : r.n + 1 \in DOMAIN sent'
      BY <3>1, <3>3, FaultSteps, RememberKeeps
    <3> QED
      BY <3>1, <3>2, <3>4 DEF TokenInv
  <2>2. CASE Login
    BY <2>2 DEF Login, TokenInv, vars, net
  <2>3. CASE Ingest \/ Unauthorized
    BY <2>3 DEF Ingest, Unauthorized, PeerAccept, PeerReject, tokens, net, TokenInv
  <2>4. ASSUME NEW r \in late, IngestLate(r)
        PROVE  TokenInv'
    BY <2>4 DEF IngestLate, LateAccept, tokens, TokenInv
  <2>5. CASE \/ (\E t \in valid : Expire(t))
             \/ Check \/ (\E r \in late : CheckLate(r)) \/ UNCHANGED ingestVars
    BY <2>5 DEF Expire, Check, CheckLate, ingestVars, vars, net, tokens, TokenInv
  <2> QED
    BY <2>1, <2>2, <2>3, <2>4, <2>5 DEF IngestNext
<1> QED
  BY <1>1, <1>2, IngestImplements, TypeCorrect, PTL DEF IngestSpec

\* No batch is longer than there are events: it holds each of them once.
LEMMA BatchFits ==
  ASSUME TypeOK, Single
  PROVE  /\ Len(batch) \in Nat /\ Cardinality(Event) \in Nat
         /\ Len(batch) <= Cardinality(Event)
<1>1. batch \in Seq(Event) /\ queue \in Seq(Event) /\ IsInjective(batch \o queue)
  BY DEF TypeOK, Single
<1>2. IsFiniteSet(Event) /\ Cardinality(Event) \in Nat
  BY IngestAssumption, FS_CardinalityType DEF IngestAssumption
<1>3. /\ Len(batch) \in Nat /\ batch \in [1..Len(batch) -> Event]
      /\ DOMAIN batch = 1..Len(batch)
  BY <1>1, LenProperties
<1>4. /\ DOMAIN (batch \o queue) = 1..Len(batch \o queue)
      /\ Len(batch \o queue) = Len(batch) + Len(queue) /\ Len(queue) \in Nat
      /\ \A i \in 1..Len(batch) : (batch \o queue)[i] = batch[i]
  <2>1. (batch \o queue) \in Seq(Event)
    BY <1>1, ConcatProperties
  <2> QED
    BY <1>1, <1>3, <2>1, ConcatProperties, LenProperties
<1>5. IsInjective(batch)
  <2>1. 1..Len(batch) \subseteq DOMAIN (batch \o queue)
    BY <1>3, <1>4
  <2> QED
    BY <1>1, <1>3, <1>4, <2>1 DEF IsInjective
<1>6. batch \in Injection(1..Len(batch), Event)
  BY <1>3, <1>5 DEF Injection
<1>7. Cardinality(1..Len(batch)) <= Cardinality(Event)
  BY <1>2, <1>6, FS_Injection
<1>8. Cardinality(1..Len(batch)) = Len(batch)
  BY <1>3, FS_Interval
<1> QED
  BY <1>2, <1>3, <1>7, <1>8

-----------------------------------------------------------------------------
(* The tenant's counter *)

Confirmed == Len(acked) + Unconfirmed

\* CounterFollows, with room for what the abandoned requests may yet add: each of
\* them came with a fault of its own, and none is longer than there are events.
CounterInv ==
  /\ count \in Nat /\ slips \in Nat
  /\ IsFiniteSet(late)
  /\ \A r \in late : Len(r.body) <= Cardinality(Event)
  /\ Confirmed <= count + slips * Cardinality(Event)
  /\ count + Cardinality(late) * Cardinality(Event)
       <= (Confirmed + slips * Cardinality(Event)) + faults * Cardinality(Event)

LEMMA CounterTypes ==
  ASSUME TypeOK, Single, CounterInv
  PROVE  /\ Cardinality(Event) \in Nat /\ Cardinality(late) \in Nat /\ faults \in Nat
         /\ Len(acked) \in Nat /\ Len(batch) \in Nat /\ Unconfirmed \in Nat
         /\ Unconfirmed <= Len(batch) /\ Len(batch) <= Cardinality(Event)
         /\ Confirmed \in Nat /\ count \in Nat /\ slips \in Nat
<1>1. Len(acked) \in Nat /\ faults \in Nat
  BY LenProperties DEF TypeOK
<1>2. Cardinality(late) \in Nat /\ count \in Nat /\ slips \in Nat
  BY FS_CardinalityType DEF CounterInv
<1>3. Unconfirmed \in Nat /\ Unconfirmed <= Len(batch)
  BY BatchFits DEF Unconfirmed
<1> QED
  BY <1>1, <1>2, <1>3, BatchFits DEF Confirmed, CounterInv

\* A step that neither confirms, counts nor fails.
LEMMA CounterQuiet ==
  ASSUME CounterInv, Confirmed' = Confirmed, UNCHANGED <<tally, late, faults>>
  PROVE  CounterInv'
  BY DEF CounterInv, tally

\* The linear part of a step that handles a body of b events: q is what the counter
\* gains, and fn the events' number for each attempt that failed.
LEMMA Handled ==
  ASSUME NEW k \in Nat, NEW c \in Nat, NEW q \in Nat, NEW b \in Nat, NEW fn \in Nat,
         NEW sn \in Nat, NEW ln \in Nat, NEW xn \in Nat, NEW n \in Nat, b <= n,
         b <= q + fn, q <= fn + b, c <= k + sn
  PROVE  /\ k + ln <= (c + sn) + xn
              => /\ c + b <= (k + q) + (sn + fn)
                 /\ (k + q) + ln <= ((c + b) + (sn + fn)) + xn
         /\ k + (ln + n) <= (c + sn) + xn
              => /\ c <= (k + q) + (sn + fn)
                 /\ (k + q) + ln <= (c + (sn + fn)) + xn
  OBVIOUS

\* What IncrBy does for a body of b events, of which there are no more than n:
\* it falls short by at most n events for each attempt that failed, and adds no
\* more than n too many for each.
LEMMA Attempts ==
  ASSUME NEW n \in Nat, NEW b \in Nat, b <= n, NEW f \in Nat, NEW a \in Nat,
         (a >= 1 /\ a <= f + 1) \/ (f > 0 /\ a <= f)
  PROVE  /\ a * b \in Nat /\ f * n \in Nat
         /\ b <= a * b + f * n /\ a * b <= f * n + b
<1>1. a * b \in Nat /\ f * n \in Nat /\ f * b \in Nat /\ (f + 1) * b = f * b + b
  BY Multiples
<1>2. f * b <= f * n
  <2>1. b * f <= n * f
    BY Monotone
  <2>2. b * f = f * b /\ n * f = f * n
    OBVIOUS
  <2> QED
    BY <2>1, <2>2
<1>3. a <= f => a * b <= f * b
  BY Monotone
<1>4. a <= f + 1 => a * b <= (f + 1) * b
  BY Monotone
<1>5. a >= 1 => 1 * b <= a * b
  BY Monotone
<1>6. f > 0 => 1 * n <= f * n
  BY Monotone
<1>7. 1 * b = b /\ 1 * n = n
  OBVIOUS
<1> DEFINE ab == a * b
           fn == f * n
           fb == f * b
           gb == (f + 1) * b
<1>8. /\ ab \in Nat /\ fn \in Nat /\ fb \in Nat /\ gb = fb + b /\ fb <= fn
      /\ (a <= f => ab <= fb) /\ (a <= f + 1 => ab <= gb)
      /\ (a >= 1 => b <= ab) /\ (f > 0 => n <= fn)
  BY <1>1, <1>2, <1>3, <1>4, <1>5, <1>6, <1>7
<1> HIDE DEF ab, fn, fb, gb
<1>9. b <= ab + fn /\ ab <= fn + b
  BY <1>8
<1> QED
  BY <1>1, <1>9 DEF ab, fn

\* The counter after a body was handled.
LEMMA CountSteps ==
  ASSUME NEW body, Len(body) \in Nat, Len(body) <= Cardinality(Event),
         Cardinality(Event) \in Nat, count \in Nat, slips \in Nat, Count(body)
  PROVE  \E q, fn \in Nat :
           /\ count' = count + q
           /\ slips' \in Nat
           /\ slips' * Cardinality(Event) = slips * Cardinality(Event) + fn
           /\ Len(body) <= q + fn /\ q <= fn + Len(body)
<1> DEFINE n == Cardinality(Event)
           b == Len(body)
<1>1. PICK f \in 0..(MaxRetries + 1), a \in 0..(MaxRetries + 1) :
        /\ \/ f <= MaxRetries /\ a \in 1..(f + 1)
           \/ f > 0 /\ a <= f
        /\ slips' = slips + f
        /\ count' = count + a * b
  BY DEF Count
<1>2. f \in Nat /\ a \in Nat /\ ((a >= 1 /\ a <= f + 1) \/ (f > 0 /\ a <= f))
  BY <1>1, IngestAssumption DEF IngestAssumption
<1>3. slips' \in Nat /\ slips' * n = slips * n + f * n
  BY <1>1, <1>2, Distribute
<1>4. /\ a * b \in Nat /\ f * n \in Nat
      /\ b <= a * b + f * n /\ a * b <= f * n + b
  BY <1>2, Attempts
<1> WITNESS a * b \in Nat, f * n \in Nat
<1> QED
  BY <1>1, <1>3, <1>4

\* A failed exchange, or a restart: the batch may be on its way to the manager
\* for later, or be counted already with the answer lost.
LEMMA CounterFault ==
  ASSUME TypeOK, Single, CounterInv, UNCHANGED <<tally, acked>>, Unconfirmed' = 0,
         faults' = faults + 1, late' = late \cup Abandoned
  PROVE  CounterInv'
<1> DEFINE n == Cardinality(Event)
           k == Cardinality(late)
           a == Len(acked)
           u == Unconfirmed
<1>1. /\ n \in Nat /\ k \in Nat /\ faults \in Nat /\ a \in Nat /\ u \in Nat /\ u <= n
      /\ count \in Nat /\ slips \in Nat /\ Len(batch) <= n
  BY CounterTypes
<1>2. Confirmed = a + u /\ Confirmed' = a /\ count' = count /\ slips' = slips
  BY <1>1 DEF Confirmed, tally
<1>3. \A r \in late' : Len(r.body) <= n
  BY <1>1 DEF Abandoned, CounterInv
<1> DEFINE kn == k * n
           fn == faults * n
           sn == slips * n
<1>4. /\ a + u <= count + sn
      /\ count + kn <= ((a + u) + sn) + fn
  BY <1>2 DEF CounterInv
<1>5. kn \in Nat /\ fn \in Nat /\ sn \in Nat /\ (k + 1) * n = kn + n /\ (faults + 1) * n = fn + n
  BY <1>1, Multiples
<1>6. CASE req = "sent"
  <2>1. u = 0
    BY <1>6 DEF Unconfirmed
  <2>2. late' = late \cup {[n |-> faults, body |-> batch]}
    BY <1>6 DEF Abandoned
  <2>3. /\ IsFiniteSet(late') /\ Cardinality(late') \in {k, k + 1}
    BY <2>2, FS_AddElement DEF CounterInv
  <2>4. Cardinality(late') * n \in {kn, kn + n}
    BY <2>3, <1>5
  <2> HIDE DEF n, k, a, u, kn, fn, sn
  <2>5. \A x \in {kn, kn + n} : count + x <= (a + sn) + (fn + n)
    BY <1>1, <1>4, <1>5, <2>1
  <2>6. count + Cardinality(late') * n <= (a + sn) + (faults + 1) * n
    BY <1>5, <2>4, <2>5 DEF fn
  <2>7. a <= count + sn
    BY <1>1, <1>4, <1>5
  <2> QED
    BY <1>1, <1>2, <1>3, <2>3, <2>6, <2>7 DEF CounterInv, n, a, sn, tally
<1>7. CASE req # "sent"
  <2>1. late' = late
    BY <1>7 DEF Abandoned
  <2> HIDE DEF n, k, a, u, kn, fn, sn
  <2>2. count + kn <= (a + sn) + (fn + n)
    BY <1>1, <1>4, <1>5
  <2>3. count + k * n <= (a + sn) + (faults + 1) * n
    BY <1>5, <2>2 DEF kn, fn
  <2>4. a <= count + sn
    BY <1>1, <1>4, <1>5
  <2> QED
    BY <1>1, <1>2, <1>3, <2>1, <2>3, <2>4 DEF CounterInv, n, a, k, sn, tally
<1> QED
  BY <1>6, <1>7

\* The endpoint counts the batch posted, and its answer is on its way.
LEMMA CounterAccept ==
  ASSUME TypeOK, Single, CounterInv, PeerAccept, Count(batch)
  PROVE  CounterInv'
<1>1. pc \in Flushing /\ req = "sent" /\ req' = "ok"
      /\ UNCHANGED <<pc, batch, acked, late, faults>>
  BY DEF PeerAccept, TypeOK, hist
<1>2. Unconfirmed = 0 /\ Unconfirmed' = Len(batch)
  BY <1>1 DEF Unconfirmed
<1>3. Len(batch) \in Nat /\ Len(acked) \in Nat
  BY CounterTypes
<1>4. Confirmed' = Confirmed + Len(batch)
  BY <1>1, <1>2, <1>3 DEF Confirmed
<1> DEFINE b == Len(batch)
           n == Cardinality(Event)
           ln == Cardinality(late) * n
           xn == faults * n
           sn == slips * n
<1>5. PICK q \in Nat, fn \in Nat :
        /\ count' = count + q
        /\ slips' \in Nat /\ slips' * n = sn + fn
        /\ b <= q + fn /\ q <= fn + b
  BY CounterTypes, CountSteps
<1>6. /\ b \in Nat /\ n \in Nat /\ b <= n /\ ln \in Nat /\ xn \in Nat /\ sn \in Nat
      /\ Confirmed \in Nat /\ count \in Nat
      /\ Confirmed <= count + sn /\ count + ln <= (Confirmed + sn) + xn
  BY CounterTypes, Multiples DEF CounterInv
<1>7. /\ Confirmed' <= (count + q) + slips' * n
      /\ (count + q) + ln <= (Confirmed' + slips' * n) + xn
  <2> HIDE DEF b, n, ln, xn, sn
  <2>1. /\ Confirmed + b <= (count + q) + (sn + fn)
        /\ (count + q) + ln <= ((Confirmed + b) + (sn + fn)) + xn
    BY <1>5, <1>6, Handled
  <2> QED
    BY <1>4, <1>5, <2>1 DEF b
<1>8. count + q \in Nat
  BY <1>6
<1> QED
  BY <1>1, <1>5, <1>7, <1>8 DEF CounterInv

\* The endpoint counts a request that was given up on: one fault is used up.
LEMMA CounterLate ==
  ASSUME TypeOK, Single, CounterInv, NEW r \in late, LateAccept(r), Count(r.body)
  PROVE  CounterInv'
<1>1. late' = late \ {r} /\ UNCHANGED <<pc, req, batch, acked, faults>>
  BY DEF LateAccept, hist
<1>2. Confirmed' = Confirmed
  BY <1>1 DEF Confirmed, Unconfirmed
<1>3. Len(r.body) \in Nat /\ Len(r.body) <= Cardinality(Event)
  BY LenProperties DEF TypeOK, CounterInv
<1>5. /\ IsFiniteSet(late') /\ Cardinality(late') \in Nat
      /\ Cardinality(late) = Cardinality(late') + 1
  <2>1. IsFiniteSet(late') /\ Cardinality(late') = Cardinality(late) - 1
    BY <1>1, FS_RemoveElement DEF CounterInv
  <2> QED
    BY <2>1, CounterTypes, FS_CardinalityType
<1> DEFINE b == Len(r.body)
           n == Cardinality(Event)
           ln == Cardinality(late') * n
           xn == faults * n
           sn == slips * n
<1>6. PICK q \in Nat, fn \in Nat :
        /\ count' = count + q
        /\ slips' \in Nat /\ slips' * n = sn + fn
        /\ b <= q + fn /\ q <= fn + b
  BY <1>3, CounterTypes, CountSteps
<1>7. /\ b \in Nat /\ n \in Nat /\ b <= n /\ ln \in Nat /\ xn \in Nat /\ sn \in Nat
      /\ Confirmed \in Nat /\ count \in Nat
      /\ Confirmed <= count + sn /\ count + (ln + n) <= (Confirmed + sn) + xn
  <2>1. /\ b \in Nat /\ n \in Nat /\ b <= n /\ xn \in Nat /\ sn \in Nat
        /\ Confirmed \in Nat /\ count \in Nat
    BY <1>3, CounterTypes, Multiples
  <2>2. ln \in Nat /\ Cardinality(late) * n = ln + n
    BY <1>5, <2>1, Multiples
  <2>3. /\ Confirmed <= count + sn
        /\ count + Cardinality(late) * n <= (Confirmed + sn) + xn
    BY DEF CounterInv
  <2> QED
    BY <2>1, <2>2, <2>3
<1>8. /\ Confirmed <= (count + q) + slips' * n
      /\ (count + q) + ln <= (Confirmed + slips' * n) + xn
  <2> HIDE DEF b, n, ln, xn, sn
  <2>1. /\ Confirmed <= (count + q) + (sn + fn)
        /\ (count + q) + ln <= (Confirmed + (sn + fn)) + xn
    BY <1>6, <1>7, Handled
  <2> QED
    BY <1>6, <2>1
<1>9. count + q \in Nat
  BY <1>7
<1> QED
  BY <1>1, <1>2, <1>5, <1>6, <1>8, <1>9 DEF CounterInv

\* A success confirms what was counted when it was answered.
LEMMA CounterConfirm ==
  ASSUME TypeOK, Single, CounterInv, RespOk, UNCHANGED tally
  PROVE  CounterInv'
<1>1. /\ pc \in Flushing /\ req = "ok" /\ pc' \notin Flushing
      /\ acked' = acked \o batch /\ UNCHANGED <<late, faults>>
  BY DEF RespOk, Success, Return, Flushing, net
<1>2. Unconfirmed = Len(batch) /\ Unconfirmed' = 0
  BY <1>1 DEF Unconfirmed
<1>3. Len(acked') = Len(acked) + Len(batch)
  BY <1>1, ConcatProperties DEF TypeOK
<1>4. Confirmed' = Confirmed
  <2>1. Len(acked) \in Nat /\ Len(batch) \in Nat
    BY CounterTypes
  <2> QED
    BY <1>2, <1>3, <2>1 DEF Confirmed
<1> QED
  BY <1>1, <1>4, CounterQuiet

\* The other steps of the agent confirm nothing, and no answer is on its way
\* before them that is not after.
LEMMA CounterOthers ==
  ASSUME TypeOK,
         \/ \E c \in Collector, e \in Event : Send(c, e) \/ SendFails(c, e)
         \/ \E s \in Collector \cup {Main} : DropSender(s)
         \/ BuildClient \/ RecvOk \/ RecvTimeout \/ RecvDisconnected
         \/ RespRejected \/ BuildFails \/ Tick \/ PeerReject
  PROVE  Unconfirmed' = Unconfirmed /\ UNCHANGED <<acked, late, faults>>
<1>1. UNCHANGED <<acked, late, faults>>
  BY DEF Send, SendFails, DropSender, BuildClient, RecvOk, RecvTimeout,
         RecvDisconnected, RespRejected, BuildFails, Tick, PeerReject, Fail, Keep,
         Discard, net, hist
<1>2. CASE UNCHANGED <<pc, req, batch>>
  BY <1>1, <1>2 DEF Unconfirmed
<1>3. CASE /\ pc \notin Flushing \/ req # "ok"
           /\ pc' \notin Flushing \/ req' # "ok"
  BY <1>1, <1>3 DEF Unconfirmed, Flushing
<1>4. \/ \E c \in Collector, e \in Event : Send(c, e) \/ SendFails(c, e)
      \/ \E s \in Collector \cup {Main} : DropSender(s)
      \/ Tick
      => UNCHANGED <<pc, req, batch>>
  BY DEF Send, SendFails, DropSender, Tick
<1>5. \/ BuildClient \/ RecvOk \/ RecvTimeout \/ RecvDisconnected
      \/ RespRejected \/ BuildFails \/ PeerReject
      => /\ pc \notin Flushing \/ req # "ok"
         /\ pc' \notin Flushing \/ req' # "ok"
  BY DEF BuildClient, RecvOk, RecvTimeout, RecvDisconnected, RespRejected, BuildFails,
         PeerReject, Fail, Return, Flushing
<1> QED
  BY <1>2, <1>3, <1>4, <1>5

\* The tenant's counter is off from what the manager has confirmed by at most every
\* event for each attempt at Redis that failed, and ahead of it by at most as much
\* again for each exchange that failed, however often the client repeats a command
\* and whatever keys the agent holds (events.go:38, redis.go:7-9).
THEOREM CounterCorrect == IngestSpec => []CounterFollows
<1>1. IngestInit => CounterInv
  <2> SUFFICES ASSUME IngestInit
               PROVE  CounterInv
    OBVIOUS
  <2>1. /\ acked = <<>> /\ late = {} /\ faults = 0 /\ count = 0 /\ slips = 0
        /\ req = "idle"
    BY DEF IngestInit, Init
  <2>2. IsFiniteSet(late) /\ Cardinality(late) = 0
    BY <2>1, FS_EmptySet
  <2>3. Len(acked) = 0
    BY <2>1, EmptySeq
  <2>4. Cardinality(Event) \in Nat
    BY IngestAssumption, FS_CardinalityType DEF IngestAssumption
  <2>5. Confirmed = 0
    BY <2>1, <2>3 DEF Confirmed, Unconfirmed
  <2> QED
    BY <2>1, <2>2, <2>4, <2>5 DEF CounterInv
<1>2. TypeOK /\ Single /\ CounterInv /\ [IngestNext]_ingestVars => CounterInv'
  <2> SUFFICES ASSUME TypeOK, Single, CounterInv, [IngestNext]_ingestVars
               PROVE  CounterInv'
    OBVIOUS
  <2>1. CASE Run \/ Reload
    <3>1. UNCHANGED tally
      BY <2>1 DEF Run, Reload
    <3>2. CASE RespOk
      BY <3>1, <3>2, CounterConfirm
    <3>3. CASE GiveUp \/ Restart
      <4>1. UNCHANGED acked /\ pc' \notin Flushing
        BY <3>3 DEF GiveUp, Restart, Fail, Keep, Discard, Return, Flushing, hist
      <4>2. Unconfirmed' = 0
        BY <4>1 DEF Unconfirmed
      <4>3. faults' = faults + 1 /\ late' = late \cup Abandoned
        BY <3>3 DEF GiveUp, Restart
      <4> QED
        BY <3>1, <4>1, <4>2, <4>3, CounterFault
    <3>4. CASE \/ \E c \in Collector, e \in Event : Send(c, e) \/ SendFails(c, e)
               \/ \E s \in Collector \cup {Main} : DropSender(s)
               \/ BuildClient \/ RecvOk \/ RecvTimeout \/ RecvDisconnected
               \/ RespRejected \/ BuildFails \/ Tick
      <4>1. Unconfirmed' = Unconfirmed /\ UNCHANGED <<acked, late, faults>>
        BY <3>4, CounterOthers
      <4> QED
        BY <3>1, <4>1, CounterQuiet DEF Confirmed
    <3> QED
      BY <2>1, <3>2, <3>3, <3>4 DEF Run, Reload, AgentStep, UploaderTask
  <2>2. CASE Ingest
    BY <2>2, CounterAccept DEF Ingest
  <2>3. CASE Unauthorized
    <3>1. Unconfirmed' = Unconfirmed /\ UNCHANGED <<acked, late, faults>>
      BY <2>3, CounterOthers DEF Unauthorized
    <3> QED
      BY <2>3, <3>1, CounterQuiet DEF Unauthorized, Confirmed
  <2>4. ASSUME NEW r \in late, IngestLate(r)
        PROVE  CounterInv'
    BY <2>4, CounterLate DEF IngestLate
  <2>5. CASE \/ Login \/ (\E t \in valid : Expire(t))
             \/ Check \/ (\E r \in late : CheckLate(r)) \/ UNCHANGED ingestVars
    <3>1. UNCHANGED <<vars, tally>>
      BY <2>5 DEF Login, Expire, Check, CheckLate, ingestVars
    <3>2. Confirmed' = Confirmed /\ UNCHANGED <<late, faults>>
      BY <3>1 DEF vars, hist, net, Confirmed, Unconfirmed
    <3> QED
      BY <3>1, <3>2, CounterQuiet
  <2> QED
    BY <2>1, <2>2, <2>3, <2>4, <2>5 DEF IngestNext
<1>3. TypeOK /\ Single /\ CounterInv => CounterFollows
  <2> SUFFICES ASSUME TypeOK, Single, CounterInv
               PROVE  CounterFollows
    OBVIOUS
  <2> DEFINE ln == Cardinality(late) * Cardinality(Event)
             xn == faults * Cardinality(Event)
             sn == slips * Cardinality(Event)
  <2>1. /\ ln \in Nat /\ xn \in Nat /\ sn \in Nat /\ Confirmed \in Nat /\ count \in Nat
        /\ Confirmed <= count + sn /\ count + ln <= (Confirmed + sn) + xn
    BY CounterTypes, Multiples DEF CounterInv
  <2>2. count <= Confirmed + (xn + sn)
    <3> HIDE DEF ln, xn, sn
    <3> QED
      BY <2>1
  <2>3. (faults + slips) * Cardinality(Event) = xn + sn
    BY CounterTypes, Distribute
  <2> QED
    BY <2>1, <2>2, <2>3 DEF CounterFollows, Confirmed
<1> QED
  BY <1>1, <1>2, <1>3, IngestImplements, TypeCorrect, SingleCorrect, PTL DEF IngestSpec

=============================================================================
