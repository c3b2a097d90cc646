------------------------------ MODULE Uploader ------------------------------
(***************************************************************************)
(* The agent's event pipeline: collector tasks hold clones of the sender of *)
(* one unbounded channel, the uploader task drains it into an in-memory     *)
(* batch and posts the batch to the manager.  One action per outcome of      *)
(* each await or channel operation; the history variables accepted, acked   *)
(* and lost say what became of every event.                                 *)
(***************************************************************************)
EXTENDS Naturals, Sequences, Functions

CONSTANTS
  Event,       \* event identities (the uuid a collector gives each event)
  Collector,   \* the enabled collector tasks
  Main,        \* run_agent, which keeps the original sender until ctrl-c
  BatchSize,   \* performance.batch_size, a usize: zero is legal
  MaxFaults    \* bound on failed exchanges plus restarts in one behaviour

ASSUME UploaderAssumption ==
  /\ Main \notin Collector
  /\ BatchSize \in Nat
  /\ MaxFaults \in Nat

VARIABLES
  fresh,       \* events no collector has produced yet
  senders,     \* holders of a live Sender
  queue,       \* the channel
  pc,          \* where the uploader task is
  batch,       \* its local Vec
  due,         \* flush_interval has elapsed since last_flush
  req,         \* the exchange in progress, then the outcome of the last one
  late,        \* requests given up on that the manager may yet process
  faults,      \* failed exchanges and restarts so far
  delivered,   \* how many times the manager processed each event
  accepted, acked, lost   \* as in AtLeastOnce

vars == <<fresh, senders, queue, pc, batch, due, req, late, faults, delivered,
          accepted, acked, lost>>
chan == <<fresh, senders, queue>>
net  == <<late, faults, delivered>>
hist == <<accepted, acked, lost>>

Flushing == {"flush", "closing"}        \* inside flush_batch

Init ==
  /\ fresh = Event
  /\ senders = Collector \cup {Main}
  /\ queue = <<>>
  /\ pc = "init"
  /\ batch = <<>>
  /\ due = FALSE
  /\ req = "idle"
  /\ late = {}
  /\ faults = 0
  /\ delivered = [e \in Event |-> 0]
  /\ accepted = <<>>
  /\ acked = <<>>
  /\ lost = {}

-----------------------------------------------------------------------------
(* The producers' side of the channel *)

\* send() on a channel whose receiver lives: it never blocks and never fails.
Send(c, e) ==
  /\ c \in senders /\ e \in fresh /\ pc # "done"
  /\ fresh' = fresh \ {e}
  /\ queue' = Append(queue, e)
  /\ accepted' = Append(accepted, e)
  /\ UNCHANGED <<senders, pc, batch, due, req, net, acked, lost>>

\* The uploader has returned: the error is logged and the event forgotten.
SendFails(c, e) ==
  /\ c \in senders /\ e \in fresh /\ pc = "done"
  /\ fresh' = fresh \ {e}
  /\ lost' = lost \cup {e}
  /\ UNCHANGED <<senders, queue, pc, batch, due, req, net, accepted, acked>>

\* ctrl-c in run_agent, or a collector whose run returned an error or panicked.
DropSender(s) ==
  /\ s \in senders
  /\ senders' = senders \ {s}
  /\ UNCHANGED <<fresh, queue, pc, batch, due, req, net, hist>>

-----------------------------------------------------------------------------
(* The uploader task *)

\* Everything this process still holds in memory is gone.
Discard ==
  /\ queue' = <<>>
  /\ batch' = <<>>
  /\ accepted' = acked
  /\ lost' = lost \cup Range(batch \o queue)
  /\ UNCHANGED acked

BuildClient ==
  /\ pc = "init"
  /\ pc' = "recv"
  /\ UNCHANGED <<chan, batch, due, req, net, hist>>

\* Client::builder().build()? returns the error: the receiver is dropped.
BuildFails ==
  /\ pc = "init"
  /\ pc' = "done"
  /\ Discard
  /\ UNCHANGED <<fresh, senders, due, req, net>>

Tick ==
  /\ ~due
  /\ due' = TRUE
  /\ UNCHANGED <<chan, pc, batch, req, net, hist>>

\* mutant: off by one in the batch_size test
FullLate(b) == Len(b) > BatchSize
Full(b) == Len(b) >= BatchSize

\* mutant: an event is put in front of the others
PushFront(e) == batch' = <<e>> \o batch
Push(e) == batch' = Append(batch, e)

RecvOk ==
  /\ pc = "recv" /\ queue # <<>>
  /\ queue' = Tail(queue)
  /\ Push(Head(queue))
  /\ IF Full(batch')
       THEN pc' = "flush" /\ req' = "sent"
       ELSE UNCHANGED <<pc, req>>
  /\ UNCHANGED <<fresh, senders, due, net, hist>>

\* mutant: the is_empty test is forgotten
OverdueEmpty == due
Overdue == due /\ batch # <<>>

\* mutant: Disconnected is treated as one more Timeout
ConnectedAlways == TRUE
Connected == senders # {}

RecvTimeout ==
  /\ pc = "recv" /\ queue = <<>> /\ Connected /\ Overdue
  /\ pc' = "flush" /\ req' = "sent"
  /\ UNCHANGED <<chan, batch, due, net, hist>>

RecvDisconnected ==
  /\ pc = "recv" /\ queue = <<>> /\ ~Connected
  /\ IF batch # <<>>
       THEN pc' = "closing" /\ req' = "sent"
       ELSE pc' = "done" /\ UNCHANGED req
  /\ UNCHANGED <<chan, batch, due, net, hist>>

\* flush_batch is back: resume the loop, or leave it for good.
Return ==
  \/ pc = "flush" /\ pc' = "recv" /\ due' = FALSE
  \/ pc = "closing" /\ pc' = "done" /\ UNCHANGED due

\* mutant: the status of the response is not looked at
SuccessAny == req \in {"ok", "rejected"}
Success == req = "ok"

\* mutant: batch.clear() is forgotten
ClearNot == UNCHANGED batch
Clear == batch' = <<>>

RespOk ==
  /\ pc \in Flushing /\ Success
  /\ Return
  /\ acked' = acked \o batch
  /\ Clear
  /\ UNCHANGED <<chan, req, net, accepted, lost>>

\* mutant: the batch is cleared whatever the outcome
KeepNot == batch' = <<>> /\ UNCHANGED <<queue, hist>>
Keep == UNCHANGED <<queue, batch, hist>>

\* The batch stays for the next flush; leaving the loop drops it.
Fail(outcome) ==
  /\ Return
  /\ req' = outcome
  /\ IF pc = "closing" THEN Discard ELSE Keep

RespRejected ==
  /\ pc \in Flushing /\ req = "rejected"
  /\ Fail("rejected")
  /\ UNCHANGED <<fresh, senders, net>>

\* A request nobody waits for any more; its number tells it from the others.
Abandoned == IF req = "sent" THEN {[n |-> faults, body |-> batch]} ELSE {}

\* send().await fails: refused, 30 s elapsed, or the response was lost.
GiveUp ==
  /\ pc \in Flushing /\ faults < MaxFaults
  /\ faults' = faults + 1
  /\ late' = late \cup Abandoned
  /\ Fail("failed")
  /\ UNCHANGED <<fresh, senders, delivered>>

\* The process is killed and started again: nothing was on disk.
Restart ==
  /\ faults < MaxFaults
  /\ faults' = faults + 1
  /\ late' = late \cup Abandoned
  /\ senders' = Collector \cup {Main}
  /\ pc' = "init" /\ due' = FALSE /\ req' = "idle"
  /\ Discard
  /\ UNCHANGED <<fresh, delivered>>

-----------------------------------------------------------------------------
(* The manager's side of POST /api/v1/events *)

Deliver(body) ==
  delivered' = [e \in Event |->
                  IF e \in Range(body) THEN delivered[e] + 1 ELSE delivered[e]]

PeerAccept ==
  /\ req = "sent"
  /\ req' = "ok"
  /\ Deliver(batch)
  /\ UNCHANGED <<chan, pc, batch, due, late, faults, hist>>

PeerReject ==
  /\ req = "sent"
  /\ req' = "rejected"
  /\ UNCHANGED <<chan, pc, batch, due, net, hist>>

LateAccept(r) ==
  /\ late' = late \ {r}
  /\ Deliver(r.body)
  /\ UNCHANGED <<chan, pc, batch, due, req, faults, hist>>

-----------------------------------------------------------------------------
UploaderTask ==
  \/ BuildClient \/ RecvOk \/ RecvTimeout \/ RecvDisconnected
  \/ RespOk \/ RespRejected

\* What happens in a running agent.
AgentStep ==
  \/ \E c \in Collector, e \in Event : Send(c, e) \/ SendFails(c, e)
  \/ \E s \in Collector \cup {Main} : DropSender(s)
  \/ UploaderTask
  \/ BuildFails
  \/ Tick
  \/ GiveUp

Next ==
  \/ AgentStep
  \/ Restart
  \/ PeerAccept
  \/ PeerReject
  \/ \E r \in late : LateAccept(r)

Spec == Init /\ [][Next]_vars

-----------------------------------------------------------------------------
\* Types, and: no empty batch is ever posted (the early return at mod.rs:59 is
\* never taken), a request is on the wire only while the task waits for it, and
\* the last flush starts only with the channel drained and disconnected.
TypeOK ==
  /\ fresh \subseteq Event
  /\ senders \subseteq Collector \cup {Main}
  /\ queue \in Seq(Event)
  /\ pc \in {"init", "recv", "done"} \cup Flushing
  /\ batch \in Seq(Event)
  /\ due \in BOOLEAN
  /\ req \in {"idle", "sent", "ok", "rejected", "failed"}
  /\ late \subseteq [n : 0..MaxFaults, body : Seq(Event)]
  /\ faults \in 0..MaxFaults
  /\ delivered \in [Event -> Nat]
  /\ accepted \in Seq(Event) /\ acked \in Seq(Event)
  /\ lost \subseteq Event
  /\ pc \in Flushing => batch # <<>> /\ req \in {"sent", "ok", "rejected"}
  /\ req = "sent" => pc \in Flushing
  /\ pc = "closing" => queue = <<>> /\ senders = {}
  /\ \A r \in late : r.body # <<>>

\* Every event the channel took is, in the order it was taken, uploaded, in the
\* batch, or in the queue: rejections, timeouts and retries (mod.rs:81-89)
\* neither drop, repeat nor reorder what is pending.
Accounting == accepted = acked \o (batch \o queue)

\* Clearing the batch on a 2xx (mod.rs:80) never forgets an event the manager
\* did not process, whatever answers were lost or late before.
AckedWasDelivered == \A e \in Range(acked) : delivered[e] >= 1

\* The manager may process an event again, but only once for each exchange
\* that failed under it (abandoned request processed late, response lost).
DuplicatesNeedFaults == \A e \in Event : delivered[e] <= 1 + faults

\* The batch outgrows batch_size (mod.rs:32) only while the last exchange failed.
OverfullOnlyAfterFailure ==
  pc = "recv" /\ batch # <<>> /\ Len(batch) >= BatchSize =>
    req \in {"rejected", "failed"}

\* Nobody hands an event in twice, and nothing is written off that was uploaded or
\* may yet be: what is cleared on a 2xx (mod.rs:80), dropped on the way out
\* (mod.rs:51), refused by a closed channel or lost with the process is, with what
\* is pending and what is to come, every event once.
EveryEventOnce ==
  /\ IsInjective(accepted)
  /\ fresh \cap (Range(accepted) \cup lost) = {}
  /\ Range(accepted) \cap lost = {}
  /\ fresh \cup Range(accepted) \cup lost = Event

\* Seen from the ends of the pipeline this is the at-least-once, in-order queue.
Promise == INSTANCE AtLeastOnce
             WITH seen <- {e \in Event : delivered[e] > 0}
Implements == Promise!Spec
=============================================================================
