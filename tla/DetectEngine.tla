---------------------------- MODULE DetectEngine ----------------------------
(***************************************************************************)
(* The detection engine: replicas of one consumer group read the events      *)
(* topic with auto-commit, and run every loaded Sigma rule over each event.  *)
(* The broker and the client library are external: an offset is stored when   *)
(* recv() hands the message over and committed some time later by a          *)
(* background thread, whatever has become of the message.                    *)
(***************************************************************************)
EXTENDS Naturals, Sequences, FiniteSets

CONSTANTS
  Instance,      \* engine replicas
  Partition,     \* partitions of the topic "events"
  Payload,       \* kinds of event on the topic
  Malformed,     \* the kinds whose payload is not JSON
  Rule,          \* loaded rules
  Enabled,       \* those with enabled: true
  Condition,     \* conditions of the rules' selections
  Selection,     \* the conditions of each rule
  Supported,     \* conditions whose operator is equals, contains or regex
  Holds,         \* the payloads each comparison is true of
  None,          \* no owner
  MaxEvents,     \* bound on the events of a partition
  MaxFaults      \* bound on crashes and lost sessions

ASSUME EngineAssumption ==
  /\ Malformed \subseteq Payload
  /\ Enabled \subseteq Rule
  /\ Supported \subseteq Condition
  /\ Selection \in [Rule -> SUBSET Condition]
  /\ Holds \in [Condition -> SUBSET Payload]
  /\ None \notin Instance
  /\ MaxEvents \in Nat /\ MaxFaults \in Nat

VARIABLES
  log,           \* the topic
  committed,     \* the group's committed offset in each partition
  owner,         \* the replica each partition is assigned to
  alive,         \* running replicas
  pos,           \* each replica's stored offset in each partition
  hand,          \* the message each replica has received and not finished
  todo,          \* the rules it has not run over it yet
  faults,        \* crashes and lost sessions so far
  processed,     \* history: how often each message was processed
  alerted        \* history: <<partition, offset, rule>> of every alert

vars == <<log, committed, owner, alive, pos, hand, todo, faults, processed, alerted>>
group == <<log, committed, owner>>
task == <<hand, todo, processed, alerted>>

Offset == 0..(MaxEvents - 1)
Event(p, o) == log[p][o + 1]

Init ==
  /\ log = [p \in Partition |-> <<>>]
  /\ committed = [p \in Partition |-> 0]
  /\ owner = [p \in Partition |-> None]
  /\ alive = Instance
  /\ pos = [i \in Instance |-> [p \in Partition |-> 0]]
  /\ hand = [i \in Instance |-> {}]
  /\ todo = [i \in Instance |-> {}]
  /\ faults = 0
  /\ processed = [p \in Partition |-> [o \in Offset |-> 0]]
  /\ alerted = {}

-----------------------------------------------------------------------------
(* The broker and the client library *)

Publish(p, e) ==
  /\ Len(log[p]) < MaxEvents
  /\ log' = [log EXCEPT ![p] = Append(@, e)]
  /\ UNCHANGED <<committed, owner, alive, pos, faults, task>>

\* mutant: auto.offset.reset is left at latest
StartLatest(p) == IF committed[p] = 0 THEN Len(log[p]) ELSE committed[p]
\* mutant: every assignment starts at the beginning of the topic
StartFirst(p) == 0
StartAt(p) == committed[p]

\* Reading starts at the committed offset, or at the earliest one.
Assign(i, p) ==
  /\ i \in alive /\ owner[p] = None
  /\ owner' = [owner EXCEPT ![p] = i]
  /\ pos' = [pos EXCEPT ![i][p] = StartAt(p)]
  /\ UNCHANGED <<log, committed, alive, faults, task>>

AutoCommit(i, p) ==
  /\ owner[p] = i
  /\ committed' = [committed EXCEPT ![p] = pos[i][p]]
  /\ UNCHANGED <<log, owner, alive, pos, faults, task>>

\* A rebalance is served inside recv(): the stored offset is committed first.
Revoke(i, p) ==
  /\ owner[p] = i /\ hand[i] = {}
  /\ owner' = [owner EXCEPT ![p] = None]
  /\ committed' = [committed EXCEPT ![p] = pos[i][p]]
  /\ UNCHANGED <<log, alive, pos, faults, task>>

\* The group gives up on a replica that still runs, message in hand or not.
SessionLost(i, p) ==
  /\ owner[p] = i /\ faults < MaxFaults
  /\ faults' = faults + 1
  /\ owner' = [owner EXCEPT ![p] = None]
  /\ UNCHANGED <<log, committed, alive, pos, task>>

-----------------------------------------------------------------------------
(* engine::run and process_event *)

Evaluate(r, e) == \A c \in Selection[r] : c \in Supported /\ e \in Holds[c]

\* mutant: process_event is spawned, not awaited
AnyTime(i) == TRUE
\* The engine task is between two messages, in recv().
InRecv(i) == hand[i] = {}

\* mutant: a message that does not parse ends the loop, and is read again
Whole(e) == e \notin Malformed
\* recv() returns whatever is on the topic
Received(e) == TRUE

\* A message that does not parse is logged, and no rule sees it.
Recv(i, p) ==
  /\ owner[p] = i /\ InRecv(i)
  /\ pos[i][p] < Len(log[p]) /\ Received(Event(p, pos[i][p]))
  /\ hand' = [hand EXCEPT ![i] = @ \cup {<<p, pos[i][p]>>}]
  /\ pos' = [pos EXCEPT ![i][p] = @ + 1]
  /\ todo' = [todo EXCEPT ![i] =
                IF Event(p, pos[i][p]) \in Malformed THEN {} ELSE Rule]
  /\ UNCHANGED <<group, alive, faults, processed, alerted>>

\* mutant: a disabled rule ends the loop (break in place of continue)
RestOrBreak(i, r) == IF r \in Enabled THEN todo[i] \ {r} ELSE {}
Rest(i, r) == todo[i] \ {r}

RunRule(i, r) ==
  /\ r \in todo[i]
  /\ \E m \in hand[i] :
       alerted' = IF r \in Enabled /\ Evaluate(r, Event(m[1], m[2]))
                    THEN alerted \cup {<<m[1], m[2], r>>} ELSE alerted
  /\ todo' = [todo EXCEPT ![i] = Rest(i, r)]
  /\ UNCHANGED <<group, alive, pos, hand, faults, processed>>

Done(i) ==
  /\ todo[i] = {}
  /\ \E m \in hand[i] : processed' = [processed EXCEPT ![m[1]][m[2]] = @ + 1]
  /\ hand' = [hand EXCEPT ![i] = {}]
  /\ UNCHANGED <<group, alive, pos, todo, faults, alerted>>

\* The replica leaves, and what it had in hand goes with it.
Leave(i) ==
  /\ alive' = alive \ {i}
  /\ owner' = [p \in Partition |-> IF owner[p] = i THEN None ELSE owner[p]]
  /\ hand' = [hand EXCEPT ![i] = {}]
  /\ todo' = [todo EXCEPT ![i] = {}]

\* mutant: the process exits without dropping the consumer
CloseNot(i) == UNCHANGED committed
Close(i) ==
  committed' = [p \in Partition |->
                  IF owner[p] = i THEN pos[i][p] ELSE committed[p]]

\* mutant: the engine runs on a thread of its own, and dies anywhere
Running(i) == i \in alive
Cancellable(i) == i \in alive /\ hand[i] = {}

\* select! in main: ctrl-c, or the metrics server could not bind.  The engine
\* task is cancelled where it awaits a message; its consumer commits and closes.
Stop(i) ==
  /\ Cancellable(i)
  /\ Close(i)
  /\ Leave(i)
  /\ UNCHANGED <<log, pos, faults, processed, alerted>>

Crash(i) ==
  /\ i \in alive /\ faults < MaxFaults
  /\ faults' = faults + 1
  /\ Leave(i)
  /\ UNCHANGED <<log, committed, pos, processed, alerted>>

Start(i) ==
  /\ i \in Instance \ alive
  /\ alive' = alive \cup {i}
  /\ UNCHANGED <<group, pos, faults, task>>

-----------------------------------------------------------------------------
Engine(i) == Done(i) \/ \E r \in Rule : RunRule(i, r)

Next ==
  \/ \E p \in Partition, e \in Payload : Publish(p, e)
  \/ \E i \in Instance, p \in Partition :
       Assign(i, p) \/ AutoCommit(i, p) \/ Revoke(i, p) \/ SessionLost(i, p)
                    \/ Recv(i, p)
  \/ \E i \in Instance : Engine(i) \/ Stop(i) \/ Crash(i) \/ Start(i)

\* Replicas run and are restarted, the group keeps assigning partitions, and
\* rebalances do not for ever come between a replica and its next message.
Fairness ==
  /\ \A i \in Instance : WF_vars(Engine(i)) /\ WF_vars(Start(i))
  /\ \A p \in Partition :
       /\ SF_vars(\E i \in Instance : Assign(i, p))
       /\ SF_vars(\E i \in Instance : Recv(i, p))

Spec == Init /\ [][Next]_vars
FairSpec == Spec /\ Fairness

-----------------------------------------------------------------------------
Messages == {m \in Partition \X Offset : m[2] < Len(log[m[1]])}
InHand == UNION {hand[i] : i \in Instance}
Processed == {m \in Messages : processed[m[1]][m[2]] > 0}

\* Committed, in nobody's hands and never processed: nobody will read it again.
Lost ==
  {m \in Messages : m[2] < committed[m[1]] /\ m \notin Processed \cup InHand}

\* Types; a replica holds one message at a time, and only replicas that run
\* own partitions or hold messages.
TypeOK ==
  /\ log \in [Partition -> Seq(Payload)]
  /\ committed \in [Partition -> 0..MaxEvents]
  /\ owner \in [Partition -> alive \cup {None}]
  /\ alive \subseteq Instance
  /\ pos \in [Instance -> [Partition -> 0..MaxEvents]]
  /\ \A i \in Instance :
       /\ hand[i] \subseteq Messages /\ Cardinality(hand[i]) <= 1
       /\ todo[i] \subseteq Rule /\ (hand[i] = {} => todo[i] = {})
       /\ hand[i] # {} => i \in alive
  /\ faults \in 0..MaxFaults
  /\ \A a \in alerted : <<a[1], a[2]>> \in Messages /\ a[3] \in Rule

\* Auto-commit runs ahead of processing (engine.rs:23, 31), by the one message a
\* replica holds: only a replica that crashes or is cut off can lose events, and
\* one at a time.  Rebalances and orderly stops lose none.
LossNeedsFaults == Cardinality(Lost) <= faults

\* A message is processed again only after a crash or a lost session.
RepeatsNeedFaults ==
  \A m \in Messages : processed[m[1]][m[2]] <= 1 + faults

\* Within a partition nothing is processed before what was published earlier,
\* except what is lost or still in the hands of a replica that was cut off.
InOrder ==
  \A m \in Processed : \A o \in 0..m[2] :
    <<m[1], o>> \in Processed \cup InHand \cup Lost

\* The committed offset never moves back, so nothing the group is done with is
\* read again for lack of a commit.
CommitsAdvance ==
  [][\A p \in Partition : committed'[p] >= committed[p]]_vars

\* What was processed to the end has raised exactly the alerts of the enabled
\* rules it matches, whatever crashes interrupted earlier attempts.
AlertsComplete ==
  /\ \A m \in Processed : \A r \in Enabled :
       Event(m[1], m[2]) \notin Malformed /\ Evaluate(r, Event(m[1], m[2]))
         => <<m[1], m[2], r>> \in alerted
  /\ \A a \in alerted : a[3] \in Enabled /\ Evaluate(a[3], Event(a[1], a[2]))

\* Every event published is processed, unless a crash lost it.
EventuallyHandled ==
  \A m \in Partition \X Offset : m \in Messages ~> m \in Processed \cup Lost
=============================================================================
