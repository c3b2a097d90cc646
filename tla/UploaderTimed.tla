---------------------------- MODULE UploaderTimed ----------------------------
(***************************************************************************)
(* The uploader with the clocks of its loop.  Uploader lets flush_interval   *)
(* elapse at any moment; here time passes while the task waits in            *)
(* recv_timeout, and only as far as the call lets it.  Elsewhere no clock is   *)
(* kept: last_flush is taken anew as soon as flush_batch is back.             *)
(***************************************************************************)
EXTENDS Uploader

CONSTANTS
  Timeout,        \* of recv_timeout: one second
  FlushInterval   \* performance.flush_interval, a u64: zero is legal

ASSUME TimedAssumption == Timeout \in Nat \ {0} /\ FlushInterval \in Nat

VARIABLES
  wait,    \* how long the current recv_timeout has waited
  since,   \* time since last_flush, up to FlushInterval
  held     \* history: how long the batch has held events since last_flush

clocks == <<wait, since, held>>
timedVars == <<vars, clocks>>

TimedInit == Init /\ wait = 0 /\ since = 0 /\ held = 0

Waiting == pc = "recv" /\ queue = <<>> /\ Connected

\* Time goes by for as long as there is nothing else for the task to do.
Pass ==
  /\ Waiting /\ wait < Timeout
  /\ wait' = wait + 1
  /\ since' = IF since < FlushInterval THEN since + 1 ELSE since
  /\ held' = IF batch = <<>> THEN 0 ELSE held + 1
  /\ due' = (since' >= FlushInterval)
  /\ UNCHANGED <<chan, pc, batch, req, net, hist>>

\* mutant: last_flush is taken anew with every event received
SinceEvent == 0
SinceFlush == since

\* The next recv_timeout starts from zero, however long this one has waited.
TimedRecv ==
  /\ RecvOk
  /\ wait' = 0 /\ since' = SinceFlush
  /\ UNCHANGED held

TimedOut == Waiting /\ wait = Timeout

FlushOnTimeout == TimedOut /\ RecvTimeout /\ UNCHANGED clocks

\* Neither branch is taken: the loop goes round.
EmptyTimeout ==
  /\ TimedOut /\ ~Overdue
  /\ wait' = 0
  /\ UNCHANGED <<vars, since, held>>

\* last_flush = Instant::now(), or the task is over.
Reset == wait' = 0 /\ since' = 0 /\ held' = 0

TimedTask ==
  \/ TimedRecv \/ FlushOnTimeout \/ EmptyTimeout
  \/ RecvDisconnected /\ UNCHANGED clocks
  \/ (BuildClient \/ RespOk \/ RespRejected) /\ Reset

TimedNext ==
  \/ Pass
  \/ TimedTask
  \/ (BuildFails \/ GiveUp \/ Restart) /\ Reset
  \/ /\ \/ \E c \in Collector, e \in Event : Send(c, e) \/ SendFails(c, e)
        \/ \E s \in Collector \cup {Main} : DropSender(s)
        \/ PeerAccept \/ PeerReject
        \/ \E r \in late : LateAccept(r)
     /\ UNCHANGED clocks

TimedSpec == TimedInit /\ [][TimedNext]_timedVars

\* The runtime polls the uploader, time passes, and a manager that keeps being
\* offered the batch does not reject it for ever.
TimedFairSpec ==
  /\ TimedSpec
  /\ WF_timedVars(TimedTask)
  /\ WF_timedVars(Pass)
  /\ SF_timedVars(PeerAccept /\ UNCHANGED clocks)

-----------------------------------------------------------------------------
\* What a test of flush_interval would measure: how long events stay in the
\* batch between two flushes.  Every event received restarts the one second of
\* recv_timeout (mod.rs:27), so a steady stream puts the flush off by one
\* timeout for each event the batch has room for, and by no more.
HeldBounded ==
  LET rounds == IF BatchSize > 1 THEN BatchSize - 1 ELSE 1
  IN  pc = "recv" /\ batch # <<>> => held <= FlushInterval + rounds * Timeout

\* An event the channel took does not stay in limbo: it is uploaded or lost.
\* What is not a full batch gets out through the timeouts alone (mod.rs:37).
EverySentIsSettled ==
  \A e \in Event : e \in Range(accepted) ~> e \in Range(acked) \cup lost

\* Once the last sender is gone (and no restart revives it) the task ends: the
\* last batch is flushed, or given up, and not retried (mod.rs:44).
UploaderStops == senders = {} ~> pc = "done" \/ senders # {}
=============================================================================
