------------------------- MODULE DetectEngineProofs -------------------------
(***************************************************************************)
(* Proofs about the detection engine, for any number of replicas, partitions,*)
(* events, rules and faults: what can be lost, repeated or reordered, and     *)
(* which alerts are raised.                                                   *)
(***************************************************************************)
EXTENDS DetectEngine, FiniteSetTheorems, SequenceTheorems, TLAPS

\* Types, and: nothing is committed or stored beyond the topic; a replica that
\* owns a partition runs, and stored at least what the group has committed; a
\* replica holds one message, and only while it runs has rules left to try.
EngineInv ==
  /\ log \in [Partition -> Seq(Payload)]
  /\ \A p \in Partition : Len(log[p]) <= MaxEvents
  /\ committed \in [Partition -> Nat]
  /\ \A p \in Partition : committed[p] <= Len(log[p])
  /\ owner \in [Partition -> alive \cup {None}]
  /\ alive \subseteq Instance
  /\ pos \in [Instance -> [Partition -> Nat]]
  /\ \A i \in Instance, p \in Partition : pos[i][p] <= Len(log[p])
  /\ \A p \in Partition : owner[p] # None => committed[p] <= pos[owner[p]][p]
  /\ hand \in [Instance -> SUBSET (Partition \X Nat)]
  /\ \A i \in Instance : \A m \in hand[i] : m[2] < Len(log[m[1]])
  /\ \A i \in Instance : \A m, n \in hand[i] : m = n
  /\ \A i \in Instance : hand[i] # {} => i \in alive
  /\ todo \in [Instance -> SUBSET Rule]
  /\ \A i \in Instance : hand[i] = {} => todo[i] = {}
  /\ faults \in 0..MaxFaults
  /\ processed \in [Partition -> [Offset -> Nat]]

LEMMA PublishKeeps ==
  ASSUME EngineInv, NEW p \in Partition, NEW e \in Payload, Publish(p, e)
  PROVE  EngineInv'
<1>1. log' = [log EXCEPT ![p] = Append(@, e)] /\ Len(log[p]) < MaxEvents
  BY DEF Publish
<1>2. UNCHANGED <<committed, owner, alive, pos, faults, hand, todo, processed>>
  BY DEF Publish, task
<1>3. \A q \in Partition : Len(log[q]) \in Nat
  BY LenProperties DEF EngineInv
<1>4. log' \in [Partition -> Seq(Payload)] /\ Len(log'[p]) = Len(log[p]) + 1
  BY <1>1, AppendProperties DEF EngineInv
<1>5. \A q \in Partition \ {p} : log'[q] = log[q]
  BY <1>1 DEF EngineInv
<1>6. \A q \in Partition : Len(log'[q]) <= MaxEvents /\ Len(log[q]) <= Len(log'[q])
                             /\ Len(log'[q]) \in Nat
  BY <1>1, <1>3, <1>4, <1>5, EngineAssumption DEF EngineAssumption, EngineInv
<1>7. \A q \in Partition : committed[q] <= Len(log'[q])
  BY <1>3, <1>6 DEF EngineInv
<1>8. \A i \in Instance, q \in Partition : pos[i][q] <= Len(log'[q])
  BY <1>3, <1>6 DEF EngineInv
<1>9. \A i \in Instance : \A m \in hand[i] : m[2] < Len(log'[m[1]])
  <2> SUFFICES ASSUME NEW i \in Instance, NEW m \in hand[i]
               PROVE  m[2] < Len(log'[m[1]])
    OBVIOUS
  <2>1. m[1] \in Partition /\ m[2] \in Nat /\ m[2] < Len(log[m[1]])
    BY DEF EngineInv
  <2> QED
    BY <2>1, <1>3, <1>6
<1> QED
  BY <1>2, <1>4, <1>6, <1>7, <1>8, <1>9 DEF EngineInv

LEMMA AssignKeeps ==
  ASSUME EngineInv, NEW i \in Instance, NEW p \in Partition, Assign(i, p)
  PROVE  EngineInv'
<1>1. /\ i \in alive /\ owner' = [owner EXCEPT ![p] = i]
      /\ pos' = [pos EXCEPT ![i] = [pos[i] EXCEPT ![p] = committed[p]]]
      /\ UNCHANGED <<log, committed, alive, faults, hand, todo, processed>>
  BY DEF Assign, StartAt, task
<1>2. owner' \in [Partition -> alive \cup {None}]
  BY <1>1 DEF EngineInv
<1>3. pos' \in [Instance -> [Partition -> Nat]]
  BY <1>1 DEF EngineInv
<1>4. \A j \in Instance, q \in Partition : pos'[j][q] <= Len(log[q])
  BY <1>1 DEF EngineInv
<1>5. \A q \in Partition : owner'[q] # None => committed[q] <= pos'[owner'[q]][q]
  <2> SUFFICES ASSUME NEW q \in Partition, owner'[q] # None
               PROVE  committed[q] <= pos'[owner'[q]][q]
    OBVIOUS
  <2>1. CASE q = p
    BY <1>1, <2>1 DEF EngineInv
  <2>2. CASE q # p
    <3>1. owner'[q] = owner[q] /\ owner[q] \in Instance
      BY <1>1, <2>2 DEF EngineInv
    <3>2. pos'[owner[q]][q] = pos[owner[q]][q]
      BY <1>1, <2>2, <3>1 DEF EngineInv
    <3> QED
      BY <3>1, <3>2 DEF EngineInv
  <2> QED
    BY <2>1, <2>2
<1> QED
  BY <1>1, <1>2, <1>3, <1>4, <1>5 DEF EngineInv

\* What commits, rebalances, stops and crashes have in common: partitions change
\* hands only by being given up, a commit stores what the owner has, and a replica
\* that drops its message owns nothing any more.
GroupStep ==
  /\ UNCHANGED <<log, pos, processed, alerted>>
  /\ alive' \subseteq Instance
  /\ owner' \in [Partition -> alive' \cup {None}]
  /\ \A q \in Partition : owner'[q] \in {owner[q], None}
  /\ committed' \in [Partition -> Nat]
  /\ \A q \in Partition :
       \/ committed'[q] = committed[q]
       \/ owner[q] # None /\ committed'[q] = pos[owner[q]][q]
  /\ hand' \in [Instance -> SUBSET (Partition \X Nat)]
  /\ todo' \in [Instance -> SUBSET Rule]
  /\ \A i \in Instance :
       \/ hand'[i] = hand[i] /\ todo'[i] = todo[i]
       \/ hand'[i] = {} /\ todo'[i] = {} /\ \A q \in Partition : owner'[q] # i
  /\ \A i \in Instance \ alive' : hand'[i] = {}
  /\ faults' \in 0..MaxFaults /\ faults <= faults'

LEMMA GroupKeeps ==
  ASSUME EngineInv, GroupStep
  PROVE  EngineInv'
<1>1. \A q \in Partition : committed[q] <= committed'[q]
                             /\ committed'[q] <= Len(log'[q])
  <2> SUFFICES ASSUME NEW q \in Partition
               PROVE  committed[q] <= committed'[q] /\ committed'[q] <= Len(log'[q])
    OBVIOUS
  <2>1. owner[q] # None => owner[q] \in Instance
    BY DEF EngineInv
  <2>2. committed[q] \in Nat /\ log' = log
    BY DEF EngineInv, GroupStep
  <2> QED
    BY <2>1, <2>2 DEF EngineInv, GroupStep
<1>2. \A q \in Partition : owner'[q] # None => committed'[q] <= pos'[owner'[q]][q]
  <2> SUFFICES ASSUME NEW q \in Partition, owner'[q] # None
               PROVE  committed'[q] <= pos'[owner'[q]][q]
    OBVIOUS
  <2>1. owner'[q] = owner[q] /\ owner[q] \in Instance /\ pos' = pos
    BY DEF EngineInv, GroupStep
  <2>2. pos[owner[q]][q] \in Nat /\ committed[q] <= pos[owner[q]][q]
    BY <2>1 DEF EngineInv
  <2> QED
    BY <2>1, <2>2 DEF GroupStep
<1>3. /\ \A i \in Instance : \A m \in hand'[i] : m[2] < Len(log'[m[1]])
      /\ \A i \in Instance : \A m, n \in hand'[i] : m = n
      /\ \A i \in Instance : hand'[i] # {} => i \in alive'
      /\ \A i \in Instance : hand'[i] = {} => todo'[i] = {}
  BY DEF EngineInv, GroupStep
<1> QED
  BY <1>1, <1>2, <1>3 DEF EngineInv, GroupStep

LEMMA CommitIsGroup ==
  ASSUME EngineInv, NEW i \in Instance, NEW p \in Partition,
         AutoCommit(i, p) \/ Revoke(i, p) \/ SessionLost(i, p)
  PROVE  GroupStep
<1>1. /\ owner[p] = i /\ i \in alive /\ i # None
      /\ UNCHANGED <<log, alive, pos, hand, todo, processed, alerted>>
      /\ owner' = owner \/ owner' = [owner EXCEPT ![p] = None]
      /\ committed' = committed \/ committed' = [committed EXCEPT ![p] = pos[i][p]]
      /\ faults' = faults \/ (faults' = faults + 1 /\ faults < MaxFaults)
  BY EngineAssumption
  DEF EngineAssumption, EngineInv, AutoCommit, Revoke, SessionLost, task
<1>2. /\ owner' \in [Partition -> alive' \cup {None}]
      /\ \A q \in Partition : owner'[q] \in {owner[q], None}
  BY <1>1 DEF EngineInv
<1>3. /\ committed' \in [Partition -> Nat]
      /\ \A q \in Partition :
           \/ committed'[q] = committed[q]
           \/ owner[q] # None /\ committed'[q] = pos[owner[q]][q]
  BY <1>1 DEF EngineInv
<1>4. faults' \in 0..MaxFaults /\ faults <= faults'
  BY <1>1, EngineAssumption DEF EngineAssumption, EngineInv
<1> QED
  BY <1>1, <1>2, <1>3, <1>4 DEF EngineInv, GroupStep

LEMMA LeaveIsGroup ==
  ASSUME EngineInv, NEW i \in Instance, Stop(i) \/ Crash(i)
  PROVE  GroupStep
<1>1. /\ UNCHANGED <<log, pos, processed, alerted>>
      /\ committed' = committed \/ Close(i)
      /\ i \in alive /\ i # None
      /\ faults' = faults \/ (faults' = faults + 1 /\ faults < MaxFaults)
  BY EngineAssumption DEF EngineAssumption, EngineInv, Stop, Crash, Cancellable
<1>2. Leave(i)
  BY DEF Stop, Crash
<1>3. /\ alive' = alive \ {i}
      /\ owner' \in [Partition -> alive' \cup {None}]
      /\ \A q \in Partition : owner'[q] \in {owner[q], None} /\ owner'[q] # i
  BY <1>1, <1>2 DEF Leave, EngineInv
<1>4. /\ committed' \in [Partition -> Nat]
      /\ \A q \in Partition :
           \/ committed'[q] = committed[q]
           \/ owner[q] # None /\ committed'[q] = pos[owner[q]][q]
  <2>1. CASE committed' = committed
    BY <2>1 DEF EngineInv
  <2>2. CASE Close(i)
    <3>1. \A q \in Partition : pos[i][q] \in Nat /\ committed[q] \in Nat
      BY DEF EngineInv
    <3> QED
      BY <1>1, <2>2, <3>1 DEF Close
  <2> QED
    BY <1>1, <2>1, <2>2
<1>5. /\ hand' \in [Instance -> SUBSET (Partition \X Nat)]
      /\ todo' \in [Instance -> SUBSET Rule]
      /\ hand'[i] = {} /\ todo'[i] = {}
      /\ \A j \in Instance \ {i} : hand'[j] = hand[j] /\ todo'[j] = todo[j]
  BY <1>2 DEF Leave, EngineInv
<1>6. faults' \in 0..MaxFaults /\ faults <= faults'
  BY <1>1, EngineAssumption DEF EngineAssumption, EngineInv
<1>7. \A j \in Instance \ alive' : hand'[j] = {}
  BY <1>3, <1>5 DEF EngineInv
<1> QED
  BY <1>1, <1>3, <1>4, <1>5, <1>6, <1>7 DEF EngineInv, GroupStep

LEMMA StartIsGroup ==
  ASSUME EngineInv, NEW i \in Instance, Start(i)
  PROVE  GroupStep
<1>1. /\ alive' = alive \cup {i}
      /\ UNCHANGED <<log, committed, owner, pos, faults, hand, todo, processed, alerted>>
  BY DEF Start, group, task
<1>2. \A j \in Instance \ alive' : hand'[j] = {}
  BY <1>1 DEF EngineInv
<1>3. owner' \in [Partition -> alive' \cup {None}]
  BY <1>1 DEF EngineInv
<1> QED
  BY <1>1, <1>2, <1>3 DEF EngineInv, GroupStep

LEMMA RecvKeeps ==
  ASSUME EngineInv, NEW i \in Instance, NEW p \in Partition, Recv(i, p)
  PROVE  EngineInv'
<1> DEFINE m == <<p, pos[i][p]>>
<1>1. /\ owner[p] = i /\ i \in alive /\ hand[i] = {}
      /\ pos[i][p] \in Nat /\ Len(log[p]) \in Nat /\ pos[i][p] < Len(log[p])
      /\ hand' = [hand EXCEPT ![i] = {m}]
      /\ pos' = [pos EXCEPT ![i] = [pos[i] EXCEPT ![p] = pos[i][p] + 1]]
      /\ UNCHANGED <<log, committed, owner, alive, faults, processed>>
  BY LenProperties, EngineAssumption
  DEF EngineAssumption, EngineInv, Recv, InRecv, group
<1>2. todo' \in [Instance -> SUBSET Rule]
      /\ \A j \in Instance \ {i} : todo'[j] = todo[j]
  BY DEF Recv, EngineInv
<1>3. /\ pos' \in [Instance -> [Partition -> Nat]]
      /\ \A j \in Instance, q \in Partition :
           pos'[j][q] = IF j = i /\ q = p THEN pos[i][p] + 1 ELSE pos[j][q]
  BY <1>1 DEF EngineInv
<1>4. \A j \in Instance, q \in Partition :
        pos'[j][q] <= Len(log[q]) /\ pos[j][q] <= pos'[j][q]
  BY <1>1, <1>3 DEF EngineInv
<1>5. \A q \in Partition : owner[q] # None => committed[q] <= pos'[owner[q]][q]
  <2> SUFFICES ASSUME NEW q \in Partition, owner[q] # None
               PROVE  committed[q] <= pos'[owner[q]][q]
    OBVIOUS
  <2>1. owner[q] \in Instance
    BY DEF EngineInv
  <2>2. committed[q] \in Nat /\ pos[owner[q]][q] \in Nat /\ pos'[owner[q]][q] \in Nat
    BY <1>3, <2>1 DEF EngineInv
  <2> QED
    BY <1>4, <2>1, <2>2 DEF EngineInv
<1>6. /\ hand' \in [Instance -> SUBSET (Partition \X Nat)]
      /\ hand'[i] = {m}
      /\ \A j \in Instance \ {i} : hand'[j] = hand[j]
  BY <1>1 DEF EngineInv
<1>7. \A j \in Instance : \A n \in hand'[j] : n[2] < Len(log[n[1]])
  BY <1>1, <1>6 DEF EngineInv
<1>8. \A j \in Instance : \A n, o \in hand'[j] : n = o
  <2>1. \A n, o \in hand'[i] : n = o
    BY <1>6
  <2>2. \A j \in Instance \ {i} : \A n, o \in hand'[j] : n = o
    BY <1>6 DEF EngineInv
  <2> QED
    BY <2>1, <2>2
<1>9. \A j \in Instance : hand'[j] = {} => todo'[j] = {}
  BY <1>2, <1>6 DEF EngineInv
<1>10. \A j \in Instance : hand'[j] # {} => j \in alive
  BY <1>1, <1>6 DEF EngineInv
<1> QED
  BY <1>1, <1>2, <1>3, <1>4, <1>5, <1>6, <1>7, <1>8, <1>9, <1>10 DEF EngineInv

LEMMA RunRuleKeeps ==
  ASSUME EngineInv, NEW i \in Instance, NEW r \in Rule, RunRule(i, r)
  PROVE  EngineInv'
<1>1. /\ hand[i] # {} /\ todo' = [todo EXCEPT ![i] = @ \ {r}]
      /\ UNCHANGED <<log, committed, owner, alive, pos, hand, faults, processed>>
  BY DEF RunRule, Rest, group
<1>2. /\ todo' \in [Instance -> SUBSET Rule]
      /\ \A j \in Instance : hand'[j] = {} => todo'[j] = {}
  BY <1>1 DEF EngineInv
<1> QED
  BY <1>1, <1>2 DEF EngineInv

\* Done, spelled out: the message in hand is the only one, and is counted.
DoneWith(i, p, o) ==
  /\ hand[i] = {<<p, o>>} /\ o < Len(log[p]) /\ todo[i] = {}
  /\ processed' \in [Partition -> [Offset -> Nat]]
  /\ \A q \in Partition, n \in Offset :
       processed'[q][n] = IF q = p /\ n = o THEN processed[p][o] + 1
                                            ELSE processed[q][n]
  /\ hand' \in [Instance -> SUBSET (Partition \X Nat)]
  /\ hand'[i] = {}
  /\ \A j \in Instance \ {i} : hand'[j] = hand[j]
  /\ UNCHANGED <<log, committed, owner, alive, pos, todo, faults, alerted>>

LEMMA DoneIs ==
  ASSUME EngineInv, NEW i \in Instance, Done(i)
  PROVE  \E p \in Partition, o \in Offset : DoneWith(i, p, o)
<1>1. PICK m \in hand[i] : processed' = [processed EXCEPT ![m[1]][m[2]] = @ + 1]
  BY DEF Done
<1>2. hand' = [hand EXCEPT ![i] = {}]
      /\ UNCHANGED <<log, committed, owner, alive, pos, todo, faults, alerted>>
      /\ todo[i] = {}
  BY DEF Done, group
<1>3. PICK p \in Partition, o \in Nat : m = <<p, o>>
  <2>1. hand[i] \in SUBSET (Partition \X Nat)
    BY DEF EngineInv
  <2>2. m \in Partition \X Nat
    BY <2>1
  <2> QED
    BY <2>2
<1>4. hand[i] = {<<p, o>>}
  <2>1. \A n \in hand[i] : n = m
    BY DEF EngineInv
  <2> QED
    BY <1>3, <2>1
<1>5. o < Len(log[p])
  BY <1>1, <1>3 DEF EngineInv
<1>6. o \in Offset
  <2>1. Len(log[p]) \in Nat /\ Len(log[p]) <= MaxEvents
    BY LenProperties DEF EngineInv
  <2> QED
    BY <1>5, <2>1, EngineAssumption DEF EngineAssumption, Offset
<1>7. processed' = [processed EXCEPT ![p] = [processed[p] EXCEPT ![o] = processed[p][o] + 1]]
  BY <1>1, <1>3
<1>8. /\ processed' \in [Partition -> [Offset -> Nat]]
      /\ \A q \in Partition, n \in Offset :
           processed'[q][n] = IF q = p /\ n = o THEN processed[p][o] + 1
                                                ELSE processed[q][n]
  BY <1>6, <1>7 DEF EngineInv
<1>9. /\ hand' \in [Instance -> SUBSET (Partition \X Nat)]
      /\ hand'[i] = {}
      /\ \A j \in Instance \ {i} : hand'[j] = hand[j]
  BY <1>2 DEF EngineInv
<1> QED
  BY <1>2, <1>4, <1>5, <1>6, <1>8, <1>9 DEF DoneWith

LEMMA DoneKeeps ==
  ASSUME EngineInv, NEW i \in Instance, Done(i)
  PROVE  EngineInv'
<1>1. PICK p \in Partition, o \in Offset : DoneWith(i, p, o)
  BY DoneIs
<1>2. /\ processed' \in [Partition -> [Offset -> Nat]]
      /\ hand' \in [Instance -> SUBSET (Partition \X Nat)]
      /\ hand'[i] = {} /\ todo'[i] = {}
      /\ \A j \in Instance \ {i} : hand'[j] = hand[j]
      /\ UNCHANGED <<log, committed, owner, alive, pos, todo, faults>>
  BY <1>1 DEF DoneWith
<1> QED
  BY <1>2 DEF EngineInv

LEMMA EngineCorrect == Spec => []EngineInv
<1>1. Init => EngineInv
  <2> SUFFICES ASSUME Init
               PROVE  EngineInv
    OBVIOUS
  <2>1. \A p \in Partition : log[p] = <<>> /\ Len(log[p]) = 0 /\ log[p] \in Seq(Payload)
    BY EmptySeq DEF Init
  <2>2. faults \in 0..MaxFaults /\ MaxEvents \in Nat
    BY EngineAssumption DEF EngineAssumption, Init
  <2> QED
    BY <2>1, <2>2 DEF Init, EngineInv
<1>2. EngineInv /\ [Next]_vars => EngineInv'
  <2> SUFFICES ASSUME EngineInv, [Next]_vars
               PROVE  EngineInv'
    OBVIOUS
  <2>1. CASE \E p \in Partition, e \in Payload : Publish(p, e)
    BY <2>1, PublishKeeps
  <2>2. CASE \E i \in Instance, p \in Partition : Assign(i, p)
    BY <2>2, AssignKeeps
  <2>3. CASE \E i \in Instance, p \in Partition :
               AutoCommit(i, p) \/ Revoke(i, p) \/ SessionLost(i, p)
    BY <2>3, CommitIsGroup, GroupKeeps
  <2>4. CASE \E i \in Instance, p \in Partition : Recv(i, p)
    BY <2>4, RecvKeeps
  <2>5. CASE \E i \in Instance : Stop(i) \/ Crash(i) \/ Start(i)
    BY <2>5, LeaveIsGroup, StartIsGroup, GroupKeeps
  <2>6. CASE \E i \in Instance : Engine(i)
    BY <2>6, DoneKeeps, RunRuleKeeps DEF Engine
  <2>7. CASE UNCHANGED vars
    BY <2>7 DEF vars, EngineInv
  <2> QED
    BY <2>1, <2>2, <2>3, <2>4, <2>5, <2>6, <2>7 DEF Next
<1> QED
  BY <1>1, <1>2, PTL DEF Spec

-----------------------------------------------------------------------------
(* Commits only advance, and events that are published stay as they are. *)

LEMMA OtherSteps ==
  ASSUME EngineInv,
         \/ \E p \in Partition, e \in Payload : Publish(p, e)
         \/ \E i \in Instance, p \in Partition : Assign(i, p) \/ Recv(i, p)
         \/ \E i \in Instance : Engine(i)
         \/ UNCHANGED vars
  PROVE  committed' = committed
  BY DEF Publish, Assign, Recv, Engine, Done, RunRule, group, vars

LEMMA GroupSteps ==
  ASSUME EngineInv,
         \/ \E i \in Instance, p \in Partition :
              AutoCommit(i, p) \/ Revoke(i, p) \/ SessionLost(i, p)
         \/ \E i \in Instance : Stop(i) \/ Crash(i) \/ Start(i)
  PROVE  GroupStep
  BY CommitIsGroup, LeaveIsGroup, StartIsGroup

LEMMA CommitGrows ==
  ASSUME EngineInv, [Next]_vars
  PROVE  \A q \in Partition : committed[q] \in Nat /\ committed'[q] \in Nat
                                /\ committed[q] <= committed'[q]
<1>1. \A q \in Partition : committed[q] \in Nat
  BY DEF EngineInv
<1>2. CASE GroupStep
  <2> SUFFICES ASSUME NEW q \in Partition
               PROVE  committed'[q] \in Nat /\ committed[q] <= committed'[q]
    BY <1>1
  <2>1. owner[q] # None => owner[q] \in Instance
    BY DEF EngineInv
  <2> QED
    BY <1>1, <1>2, <2>1 DEF EngineInv, GroupStep
<1>3. CASE committed' = committed
  BY <1>1, <1>3
<1> QED
  BY <1>2, <1>3, OtherSteps, GroupSteps DEF Next

\* The group's offset never moves back (engine.rs:23), through rebalances, stops,
\* crashes and lost sessions.
THEOREM CommitsCorrect == Spec => CommitsAdvance
<1>1. EngineInv /\ [Next]_vars =>
        [\A p \in Partition : committed'[p] >= committed[p]]_vars
  BY CommitGrows
<1> QED
  BY <1>1, EngineCorrect, PTL DEF Spec, CommitsAdvance

LEMMA LogGrows ==
  ASSUME EngineInv, [Next]_vars
  PROVE  \A q \in Partition :
           /\ Len(log[q]) \in Nat /\ Len(log'[q]) \in Nat
           /\ Len(log[q]) <= Len(log'[q])
           /\ \A n \in Nat : n < Len(log[q]) => Event(q, n)' = Event(q, n)
<1>1. \A q \in Partition : Len(log[q]) \in Nat
  BY LenProperties DEF EngineInv
<1>2. CASE log' = log
  BY <1>1, <1>2 DEF Event
<1>3. CASE \E p \in Partition, e \in Payload : Publish(p, e)
  <2>1. PICK p \in Partition, e \in Payload : log' = [log EXCEPT ![p] = Append(@, e)]
    BY <1>3 DEF Publish
  <2> SUFFICES ASSUME NEW q \in Partition
               PROVE  /\ Len(log'[q]) \in Nat /\ Len(log[q]) <= Len(log'[q])
                      /\ \A n \in Nat : n < Len(log[q]) => log'[q][n + 1] = log[q][n + 1]
    BY <1>1 DEF Event
  <2>2. CASE q = p
    <3>1. log'[q] = Append(log[q], e) /\ log[q] \in Seq(Payload)
      BY <2>1, <2>2 DEF EngineInv
    <3>2. /\ Len(log'[q]) = Len(log[q]) + 1
          /\ \A k \in 1..Len(log[q]) : log'[q][k] = log[q][k]
      BY <3>1, AppendProperties
    <3> QED
      BY <1>1, <3>2
  <2>3. CASE q # p
    BY <1>1, <2>1, <2>3 DEF EngineInv
  <2> QED
    BY <2>2, <2>3
<1> QED
  BY <1>2, <1>3
  DEF Next, Assign, AutoCommit, Revoke, SessionLost, Recv, Engine, Done, RunRule,
      Stop, Crash, Start, group, vars

\* Only Done counts a message as processed, and it only adds.
LEMMA ProcessedGrows ==
  ASSUME EngineInv, [Next]_vars
  PROVE  \A q \in Partition, n \in Offset :
           /\ processed[q][n] \in Nat /\ processed'[q][n] \in Nat
           /\ processed[q][n] <= processed'[q][n]
<1>1. \A q \in Partition, n \in Offset : processed[q][n] \in Nat
  BY DEF EngineInv
<1>2. CASE \E i \in Instance : Done(i)
  <2>1. PICK i \in Instance, p \in Partition, o \in Offset : DoneWith(i, p, o)
    BY <1>2, DoneIs
  <2> QED
    BY <1>1, <2>1 DEF DoneWith
<1>3. CASE processed' = processed
  BY <1>1, <1>3
<1> QED
  BY <1>2, <1>3
  DEF Next, Publish, Assign, AutoCommit, Revoke, SessionLost, Recv, Engine,
      RunRule, Stop, Crash, Start, task, vars

-----------------------------------------------------------------------------
(* The order of processing *)

\* The group is done with a message, for better or worse.
Covered(q, n) == n < committed[q] \/ processed[q][n] > 0

\* What comes before a message that was processed, or is in hand, is covered;
\* what comes before a stored offset is covered or in the owner's hand.
OrderInv ==
  /\ \A q \in Partition, n \in Offset : processed[q][n] > 0 =>
       n < Len(log[q]) /\ \A o \in Nat : o < n => Covered(q, o)
  /\ \A i \in Instance : \A m \in hand[i] : \A o \in Nat :
       o < m[2] => Covered(m[1], o)
  /\ \A q \in Partition : owner[q] # None =>
       \A o \in Nat : o < pos[owner[q]][q] =>
         Covered(q, o) \/ <<q, o>> \in hand[owner[q]]

LEMMA IsOffset ==
  ASSUME EngineInv, NEW q \in Partition, NEW n \in Nat, n < Len(log[q])
  PROVE  n \in Offset
<1>1. Len(log[q]) \in Nat /\ Len(log[q]) <= MaxEvents
  BY LenProperties DEF EngineInv
<1> QED
  BY <1>1, EngineAssumption DEF EngineAssumption, Offset

LEMMA CoveredStays ==
  ASSUME EngineInv, [Next]_vars,
         NEW q \in Partition, NEW n \in Nat, n < Len(log[q]), Covered(q, n)
  PROVE  Covered(q, n)'
<1>1. n \in Offset
  BY IsOffset
<1>2. committed[q] \in Nat /\ committed'[q] \in Nat /\ committed[q] <= committed'[q]
  BY CommitGrows
<1>3. /\ processed[q][n] \in Nat /\ processed'[q][n] \in Nat
      /\ processed[q][n] <= processed'[q][n]
  BY <1>1, ProcessedGrows
<1> QED
  BY <1>2, <1>3 DEF Covered

\* A hand or a stored offset that is as it was is covered as it was.
LEMMA StillCovered ==
  ASSUME EngineInv, OrderInv, [Next]_vars
  PROVE  /\ \A q \in Partition, n \in Offset : processed[q][n] > 0 =>
              n < Len(log'[q]) /\ \A o \in Nat : o < n => Covered(q, o)'
         /\ \A i \in Instance : \A m \in hand[i] : \A o \in Nat :
              o < m[2] => Covered(m[1], o)'
         /\ \A q \in Partition : owner[q] # None =>
              \A o \in Nat : o < pos[owner[q]][q] =>
                Covered(q, o)' \/ <<q, o>> \in hand[owner[q]]
<1>1. \A q \in Partition : Len(log[q]) \in Nat /\ Len(log'[q]) \in Nat
                             /\ Len(log[q]) <= Len(log'[q])
  BY LogGrows
<1>2. \A q \in Partition, n \in Offset : processed[q][n] > 0 =>
        n < Len(log'[q]) /\ \A o \in Nat : o < n => Covered(q, o)'
  <2> SUFFICES ASSUME NEW q \in Partition, NEW n \in Offset, processed[q][n] > 0
               PROVE  n < Len(log'[q]) /\ \A o \in Nat : o < n => Covered(q, o)'
    OBVIOUS
  <2>1. n \in Nat /\ n < Len(log[q]) /\ \A o \in Nat : o < n => Covered(q, o)
    BY EngineAssumption DEF EngineAssumption, OrderInv, Offset
  <2>2. n < Len(log'[q])
    BY <1>1, <2>1
  <2>3. \A o \in Nat : o < n => o < Len(log[q])
    BY <1>1, <2>1
  <2> QED
    BY <2>1, <2>2, <2>3, CoveredStays
<1>3. \A i \in Instance : \A m \in hand[i] : \A o \in Nat :
        o < m[2] => Covered(m[1], o)'
  <2> SUFFICES ASSUME NEW i \in Instance, NEW m \in hand[i], NEW o \in Nat, o < m[2]
               PROVE  Covered(m[1], o)'
    OBVIOUS
  <2>1. m[1] \in Partition /\ m[2] \in Nat /\ m[2] < Len(log[m[1]])
    BY DEF EngineInv
  <2>2. o < Len(log[m[1]])
    BY <1>1, <2>1
  <2>3. Covered(m[1], o)
    BY DEF OrderInv
  <2> QED
    BY <2>1, <2>2, <2>3, CoveredStays
<1>4. \A q \in Partition : owner[q] # None =>
        \A o \in Nat : o < pos[owner[q]][q] =>
          Covered(q, o)' \/ <<q, o>> \in hand[owner[q]]
  <2> SUFFICES ASSUME NEW q \in Partition, owner[q] # None,
                      NEW o \in Nat, o < pos[owner[q]][q]
               PROVE  Covered(q, o)' \/ <<q, o>> \in hand[owner[q]]
    OBVIOUS
  <2>1. owner[q] \in Instance
    BY DEF EngineInv
  <2>2. pos[owner[q]][q] \in Nat /\ pos[owner[q]][q] <= Len(log[q])
    BY <2>1 DEF EngineInv
  <2>3. o < Len(log[q])
    BY <1>1, <2>2
  <2>4. Covered(q, o) \/ <<q, o>> \in hand[owner[q]]
    BY DEF OrderInv
  <2> QED
    BY <2>3, <2>4, CoveredStays
<1> QED
  BY <1>2, <1>3, <1>4

LEMMA OrderGroup ==
  ASSUME EngineInv, OrderInv, [Next]_vars, GroupStep
  PROVE  OrderInv'
<1>1. UNCHANGED <<log, pos, processed>>
  BY DEF GroupStep
<1>2. \A i \in Instance : \A m \in hand'[i] : m \in hand[i]
  BY DEF GroupStep
<1>3. \A q \in Partition : owner'[q] # None =>
        owner'[q] = owner[q] /\ owner[q] \in Instance /\ hand'[owner[q]] = hand[owner[q]]
  BY DEF GroupStep, EngineInv
<1> QED
  BY <1>1, <1>2, <1>3, StillCovered DEF OrderInv

LEMMA OrderAssign ==
  ASSUME EngineInv, OrderInv, [Next]_vars,
         NEW i \in Instance, NEW p \in Partition, Assign(i, p)
  PROVE  OrderInv'
<1>1. /\ owner' = [owner EXCEPT ![p] = i]
      /\ pos' = [pos EXCEPT ![i] = [pos[i] EXCEPT ![p] = committed[p]]]
      /\ UNCHANGED <<log, committed, hand, processed>>
  BY DEF Assign, StartAt, task
<1>2. \A q \in Partition : owner'[q] # None =>
        \A o \in Nat : o < pos'[owner'[q]][q] =>
          Covered(q, o)' \/ <<q, o>> \in hand'[owner'[q]]
  <2> SUFFICES ASSUME NEW q \in Partition, owner'[q] # None,
                      NEW o \in Nat, o < pos'[owner'[q]][q]
               PROVE  Covered(q, o)' \/ <<q, o>> \in hand'[owner'[q]]
    OBVIOUS
  <2>1. CASE q = p
    <3>1. pos'[owner'[q]][q] = committed'[q]
      BY <1>1, <2>1 DEF EngineInv
    <3> QED
      BY <3>1 DEF Covered
  <2>2. CASE q # p
    <3>1. owner'[q] = owner[q] /\ owner[q] \in Instance
      BY <1>1, <2>2 DEF EngineInv
    <3>2. pos'[owner[q]][q] = pos[owner[q]][q]
      BY <1>1, <2>2, <3>1 DEF EngineInv
    <3> QED
      BY <1>1, <3>1, <3>2, StillCovered
  <2> QED
    BY <2>1, <2>2
<1> QED
  BY <1>1, <1>2, StillCovered DEF OrderInv

LEMMA OrderRecv ==
  ASSUME EngineInv, OrderInv, [Next]_vars,
         NEW i \in Instance, NEW p \in Partition, Recv(i, p)
  PROVE  OrderInv'
<1>1. /\ owner[p] = i /\ i # None /\ hand[i] = {} /\ pos[i][p] \in Nat
      /\ hand' = [hand EXCEPT ![i] = {<<p, pos[i][p]>>}]
      /\ pos' = [pos EXCEPT ![i] = [pos[i] EXCEPT ![p] = pos[i][p] + 1]]
      /\ UNCHANGED <<log, committed, owner, processed>>
  BY EngineAssumption DEF EngineAssumption, EngineInv, Recv, InRecv, group
<1>2. \A o \in Nat : o < pos[i][p] => Covered(p, o)'
  BY <1>1, StillCovered
<1>3. \A j \in Instance : \A m \in hand'[j] : \A o \in Nat :
        o < m[2] => Covered(m[1], o)'
  <2> SUFFICES ASSUME NEW j \in Instance, NEW m \in hand'[j], NEW o \in Nat, o < m[2]
               PROVE  Covered(m[1], o)'
    OBVIOUS
  <2>1. CASE j = i
    <3>1. m = <<p, pos[i][p]>>
      BY <1>1, <2>1 DEF EngineInv
    <3> QED
      BY <1>2, <3>1
  <2>2. CASE j # i
    <3>1. m \in hand[j]
      BY <1>1, <2>2 DEF EngineInv
    <3> QED
      BY <3>1, StillCovered
  <2> QED
    BY <2>1, <2>2
<1>4. \A q \in Partition : owner[q] # None =>
        \A o \in Nat : o < pos'[owner[q]][q] =>
          Covered(q, o)' \/ <<q, o>> \in hand'[owner[q]]
  <2> SUFFICES ASSUME NEW q \in Partition, owner[q] # None,
                      NEW o \in Nat, o < pos'[owner[q]][q]
               PROVE  Covered(q, o)' \/ <<q, o>> \in hand'[owner[q]]
    OBVIOUS
  <2>1. owner[q] \in Instance
    BY DEF EngineInv
  <2>2. CASE q = p
    <3>1. pos'[i][p] = pos[i][p] + 1 /\ hand'[i] = {<<p, pos[i][p]>>}
      BY <1>1 DEF EngineInv
    <3>2. o < pos[i][p] \/ o = pos[i][p]
      BY <1>1, <2>2, <3>1
    <3> QED
      BY <1>1, <1>2, <2>2, <3>1, <3>2
  <2>3. CASE q # p
    <3>1. pos'[owner[q]][q] = pos[owner[q]][q]
      BY <1>1, <2>1, <2>3 DEF EngineInv
    <3>2. Covered(q, o)' \/ <<q, o>> \in hand[owner[q]]
      BY <3>1, StillCovered
    <3>3. hand[owner[q]] \subseteq hand'[owner[q]]
      BY <1>1, <2>1 DEF EngineInv
    <3> QED
      BY <3>2, <3>3
  <2> QED
    BY <2>2, <2>3
<1> QED
  BY <1>1, <1>3, <1>4, StillCovered DEF OrderInv

LEMMA OrderDone ==
  ASSUME EngineInv, OrderInv, [Next]_vars, NEW i \in Instance, Done(i)
  PROVE  OrderInv'
<1>1. PICK p \in Partition, o \in Offset : DoneWith(i, p, o)
  BY DoneIs
<1>2. UNCHANGED <<log, owner, pos>> /\ hand[i] = {<<p, o>>} /\ hand'[i] = {}
      /\ o < Len(log[p])
  BY <1>1 DEF DoneWith
<1>3. o \in Nat /\ processed[p][o] \in Nat
  BY EngineAssumption DEF EngineAssumption, Offset, EngineInv
<1>4. Covered(p, o)'
  BY <1>1, <1>3 DEF DoneWith, Covered
<1>5. \A q \in Partition, n \in Offset : processed'[q][n] > 0 =>
        n < Len(log'[q]) /\ \A k \in Nat : k < n => Covered(q, k)'
  <2> SUFFICES ASSUME NEW q \in Partition, NEW n \in Offset, processed'[q][n] > 0
               PROVE  n < Len(log'[q]) /\ \A k \in Nat : k < n => Covered(q, k)'
    OBVIOUS
  <2>1. CASE q = p /\ n = o
    <3>1. <<p, o>> \in hand[i]
      BY <1>2
    <3>2. \A k \in Nat : k < <<p, o>>[2] => Covered(<<p, o>>[1], k)'
      BY <3>1, StillCovered
    <3> QED
      BY <1>2, <2>1, <3>2
  <2>2. CASE ~(q = p /\ n = o)
    <3>1. processed'[q][n] = processed[q][n]
      BY <1>1, <2>2 DEF DoneWith
    <3> QED
      BY <3>1, StillCovered
  <2> QED
    BY <2>1, <2>2
<1>6. \A j \in Instance : \A m \in hand'[j] : m \in hand[j]
  BY <1>1 DEF DoneWith
<1>7. \A q \in Partition : owner[q] # None =>
        \A k \in Nat : k < pos[owner[q]][q] =>
          Covered(q, k)' \/ <<q, k>> \in hand'[owner[q]]
  <2> SUFFICES ASSUME NEW q \in Partition, owner[q] # None,
                      NEW k \in Nat, k < pos[owner[q]][q]
               PROVE  Covered(q, k)' \/ <<q, k>> \in hand'[owner[q]]
    OBVIOUS
  <2>1. Covered(q, k)' \/ <<q, k>> \in hand[owner[q]]
    BY StillCovered
  <2>2. owner[q] \in Instance
    BY DEF EngineInv
  <2>3. CASE owner[q] = i
    <3>1. <<q, k>> \in hand[i] => q = p /\ k = o
      BY <1>2
    <3> QED
      BY <1>4, <2>1, <2>3, <3>1
  <2>4. CASE owner[q] # i
    BY <1>1, <2>1, <2>2, <2>4 DEF DoneWith
  <2> QED
    BY <2>3, <2>4
<1> QED
  BY <1>2, <1>5, <1>6, <1>7, StillCovered DEF OrderInv

LEMMA OrderCorrect == Spec => []OrderInv
<1>1. Init => OrderInv
  <2> SUFFICES ASSUME Init
               PROVE  OrderInv
    OBVIOUS
  <2>1. \A q \in Partition, n \in Offset : processed[q][n] = 0
    BY DEF Init
  <2>2. \A q \in Partition : owner[q] = None
    BY DEF Init
  <2>3. \A i \in Instance : hand[i] = {}
    BY DEF Init
  <2> QED
    BY <2>1, <2>2, <2>3 DEF OrderInv
<1>2. EngineInv /\ OrderInv /\ [Next]_vars => OrderInv'
  <2> SUFFICES ASSUME EngineInv, OrderInv, [Next]_vars
               PROVE  OrderInv'
    OBVIOUS
  <2>1. CASE UNCHANGED <<committed, owner, pos, hand, processed>>
    BY <2>1, StillCovered DEF OrderInv
  <2>2. CASE \E i \in Instance, p \in Partition : Assign(i, p)
    BY <2>2, OrderAssign
  <2>3. CASE GroupStep
    BY <2>3, OrderGroup
  <2>4. CASE \E i \in Instance, p \in Partition : Recv(i, p)
    BY <2>4, OrderRecv
  <2>5. CASE \E i \in Instance : Done(i)
    BY <2>5, OrderDone
  <2> QED
    BY <2>1, <2>2, <2>3, <2>4, <2>5, GroupSteps
    DEF Next, Publish, Engine, RunRule, group, task, vars
<1> QED
  BY <1>1, <1>2, EngineCorrect, PTL DEF Spec

\* Within a partition nothing is processed before what was published earlier, but
\* for what is lost or still in the hands of a replica that was cut off, whatever
\* the group does to its replicas (engine.rs:31-43).
THEOREM InOrderCorrect == Spec => []InOrder
<1>1. EngineInv /\ OrderInv => InOrder
  <2> SUFFICES ASSUME EngineInv, OrderInv, NEW m \in Processed, NEW o \in 0..m[2]
               PROVE  <<m[1], o>> \in Processed \cup InHand \cup Lost
    BY DEF InOrder
  <2>1. PICK q \in Partition, n \in Offset :
          m = <<q, n>> /\ processed[q][n] > 0 /\ n < Len(log[q])
    BY DEF Processed, Messages
  <2>2. n \in Nat /\ o \in Nat /\ o <= n /\ Len(log[q]) \in Nat
    BY <2>1, EngineAssumption, LenProperties DEF EngineAssumption, EngineInv, Offset
  <2>3. o < Len(log[q])
    BY <2>1, <2>2
  <2>4. <<q, o>> \in Messages
    BY <2>2, <2>3, IsOffset DEF Messages
  <2>5. CASE o = n
    BY <2>1, <2>5
  <2>6. CASE o < n
    <3>1. Covered(q, o)
      BY <2>1, <2>2, <2>6 DEF OrderInv
    <3>2. CASE processed[q][o] > 0
      BY <2>1, <2>4, <3>2 DEF Processed
    <3>3. CASE o < committed[q]
      BY <2>1, <2>4, <3>3 DEF Lost
    <3> QED
      BY <3>1, <3>2, <3>3 DEF Covered
  <2> QED
    BY <2>2, <2>5, <2>6
<1> QED
  BY <1>1, EngineCorrect, OrderCorrect, PTL

-----------------------------------------------------------------------------
(* What can be lost *)

\* What is lost by a step was in the hand of a replica that dropped it.
LEMMA LostSteps ==
  ASSUME EngineInv, OrderInv, [Next]_vars, NEW m \in Lost', m \notin Lost
  PROVE  GroupStep /\ m \in InHand
<1>1. PICK q \in Partition, n \in Offset :
        m = <<q, n>> /\ n < Len(log'[q]) /\ n < committed'[q]
  BY DEF Lost, Messages
<1>2. m \notin InHand' /\ ~(processed'[q][n] > 0)
  BY <1>1 DEF Lost, Processed, Messages
<1>3. n \in Nat /\ committed[q] \in Nat /\ committed'[q] \in Nat
      /\ Len(log[q]) \in Nat /\ committed[q] <= Len(log[q])
  <2>1. n \in Nat
    BY EngineAssumption DEF EngineAssumption, Offset
  <2>2. committed[q] \in Nat /\ committed'[q] \in Nat
    BY CommitGrows
  <2>3. Len(log[q]) \in Nat /\ committed[q] <= Len(log[q])
    BY LenProperties DEF EngineInv
  <2> QED
    BY <2>1, <2>2, <2>3
<1>4. ~(processed[q][n] > 0)
  <2>1. /\ processed[q][n] \in Nat /\ processed'[q][n] \in Nat
        /\ processed[q][n] <= processed'[q][n]
    BY ProcessedGrows
  <2> QED
    BY <1>2, <2>1
<1>5. n < committed[q] => m \in InHand
  <2> SUFFICES ASSUME n < committed[q]
               PROVE  m \in InHand
    OBVIOUS
  <2>1. n < Len(log[q])
    BY <1>3
  <2>2. m \in Messages /\ m \notin Processed
    BY <1>1, <1>4, <2>1 DEF Messages, Processed
  <2> QED
    BY <1>1, <2>2 DEF Lost
<1>6. CASE GroupStep
  <2>1. CASE n < committed[q]
    BY <1>5, <1>6, <2>1
  <2>2. CASE ~(n < committed[q])
    <3>1. owner[q] # None /\ n < pos[owner[q]][q]
      BY <1>1, <1>6, <2>2 DEF GroupStep
    <3>2. owner[q] \in Instance
      BY <3>1 DEF EngineInv
    <3>3. <<q, n>> \in hand[owner[q]]
      BY <1>3, <1>4, <2>2, <3>1 DEF OrderInv, Covered
    <3> QED
      BY <1>1, <1>6, <3>2, <3>3 DEF InHand
  <2> QED
    BY <2>1, <2>2
<1>7. CASE committed' = committed /\ ~GroupStep
  <2>1. m \in InHand
    BY <1>1, <1>5, <1>7
  <2>2. PICK i \in Instance : m \in hand[i]
    BY <2>1 DEF InHand
  <2>3. ~ (m \in hand'[i])
    BY <1>2 DEF InHand
  <2>4. CASE \E j \in Instance : Done(j)
    <3>1. PICK j \in Instance, p \in Partition, o \in Offset : DoneWith(j, p, o)
      BY <2>4, DoneIs
    <3>2. i = j /\ q = p /\ n = o
      BY <1>1, <2>2, <2>3, <3>1 DEF DoneWith
    <3>3. processed'[q][n] = processed[q][n] + 1 /\ processed[q][n] \in Nat
      BY <3>1, <3>2 DEF DoneWith, EngineInv
    <3> QED
      BY <1>2, <3>3
  <2>5. CASE \E j \in Instance, p \in Partition : Recv(j, p)
    <3>1. PICK j \in Instance : hand[j] = {} /\ \E x : hand' = [hand EXCEPT ![j] = x]
      BY <2>5 DEF Recv, InRecv
    <3>2. hand'[i] = hand[i]
      BY <2>2, <3>1 DEF EngineInv
    <3> QED
      BY <2>2, <2>3, <3>2
  <2>6. CASE UNCHANGED hand
    BY <2>2, <2>3, <2>6
  <2> QED
    BY <1>7, <2>4, <2>5, <2>6, GroupSteps
    DEF Next, Publish, Assign, Engine, RunRule, task, vars
<1> QED
  BY <1>6, <1>7, OtherSteps, GroupSteps DEF Next

\* What was lost before, and at most one message more for one fault more.
LossInv == IsFiniteSet(Lost) /\ Cardinality(Lost) <= faults

LEMMA LossCrash ==
  ASSUME EngineInv, OrderInv, LossInv, [Next]_vars, NEW i \in Instance, Crash(i)
  PROVE  LossInv'
<1>1. faults' = faults + 1 /\ hand' = [hand EXCEPT ![i] = {}]
  BY DEF Crash, Leave
<1>2. PICK m : Lost' \subseteq Lost \cup {m}
  <2>1. \A m \in Lost' : m \notin Lost => m \in hand[i]
    <3> SUFFICES ASSUME NEW m \in Lost', m \notin Lost
                 PROVE  m \in hand[i]
      OBVIOUS
    <3>1. m \in InHand
      BY LostSteps
    <3>2. PICK j \in Instance : m \in hand[j]
      BY <3>1 DEF InHand
    <3>3. m \notin hand'[j]
      BY DEF Lost, InHand
    <3> QED
      BY <1>1, <3>2, <3>3 DEF EngineInv
  <2>2. \A m, n \in hand[i] : m = n
    BY DEF EngineInv
  <2>3. CASE hand[i] = {}
    BY <2>1, <2>3
  <2>4. CASE hand[i] # {}
    <3>1. PICK m : m \in hand[i]
      BY <2>4
    <3>2. Lost' \subseteq Lost \cup {m}
      BY <2>1, <2>2, <3>1
    <3> QED
      BY <3>2
  <2> QED
    BY <2>3, <2>4
<1>3. /\ IsFiniteSet(Lost \cup {m})
      /\ Cardinality(Lost \cup {m}) =
           IF m \in Lost THEN Cardinality(Lost) ELSE Cardinality(Lost) + 1
  BY FS_AddElement DEF LossInv
<1>4. IsFiniteSet(Lost') /\ Cardinality(Lost') <= Cardinality(Lost \cup {m})
  BY <1>2, <1>3, FS_Subset
<1>5. /\ Cardinality(Lost') \in Nat /\ Cardinality(Lost) \in Nat
      /\ Cardinality(Lost \cup {m}) \in Nat /\ faults \in Nat
  BY <1>3, <1>4, FS_CardinalityType DEF LossInv, EngineInv
<1>6. Cardinality(Lost) <= faults
  BY DEF LossInv
<1>7. Cardinality(Lost') <= faults'
  BY <1>1, <1>3, <1>4, <1>5, <1>6
<1> QED
  BY <1>4, <1>7 DEF LossInv

LEMMA LossOthers ==
  ASSUME EngineInv, OrderInv, LossInv, [Next]_vars,
         faults \in Nat, faults' \in Nat, faults <= faults',
         ~GroupStep \/ \A j \in Instance : hand[j] \subseteq hand'[j]
  PROVE  LossInv'
<1>1. Lost' \subseteq Lost
  <2> SUFFICES ASSUME NEW m \in Lost', m \notin Lost
               PROVE  FALSE
    OBVIOUS
  <2>1. GroupStep /\ m \in InHand
    BY LostSteps
  <2>2. m \in InHand'
    BY <2>1 DEF InHand
  <2> QED
    BY <2>2 DEF Lost
<1>2. IsFiniteSet(Lost') /\ Cardinality(Lost') <= Cardinality(Lost)
  BY <1>1, FS_Subset DEF LossInv
<1>3. Cardinality(Lost') \in Nat /\ Cardinality(Lost) \in Nat
  BY <1>2, FS_CardinalityType DEF LossInv
<1>4. Cardinality(Lost) <= faults
  BY DEF LossInv
<1>5. Cardinality(Lost') <= faults'
  BY <1>2, <1>3, <1>4
<1> QED
  BY <1>2, <1>5 DEF LossInv

\* Offsets are committed while a message is still in hand (engine.rs:23, 31), and
\* still no more is lost than one message for each crash, whatever the rebalances
\* and orderly stops: with LostSteps, nothing but a crash drops what is in hand.
THEOREM LossCorrect == Spec => []LossNeedsFaults
<1>1. Init => LossInv
  <2> SUFFICES ASSUME Init
               PROVE  LossInv
    OBVIOUS
  <2>1. Lost = {}
    <3> SUFFICES ASSUME NEW m \in Lost
                 PROVE  FALSE
      OBVIOUS
    <3>1. PICK q \in Partition, n \in Offset : m = <<q, n>> /\ n < committed[q]
      BY DEF Lost, Messages
    <3>2. committed[q] = 0 /\ n \in Nat
      BY EngineAssumption DEF EngineAssumption, Offset, Init
    <3> QED
      BY <3>1, <3>2
  <2> QED
    BY <2>1, FS_EmptySet DEF LossInv, Init
<1>2. EngineInv /\ EngineInv' /\ OrderInv /\ LossInv /\ [Next]_vars => LossInv'
  <2> SUFFICES ASSUME EngineInv, EngineInv', OrderInv, LossInv, [Next]_vars
               PROVE  LossInv'
    OBVIOUS
  <2>1. faults \in Nat /\ faults' \in Nat
    BY EngineAssumption DEF EngineAssumption, EngineInv
  <2>2. CASE \E i \in Instance : Crash(i)
    BY <2>2, LossCrash
  <2>3. CASE \E i \in Instance : Stop(i)
    <3>1. \A j \in Instance : hand[j] \subseteq hand'[j]
      BY <2>3 DEF Stop, Cancellable, Leave, EngineInv
    <3>2. faults <= faults'
      BY <2>1, <2>3 DEF Stop
    <3> QED
      BY <2>1, <3>1, <3>2, LossOthers
  <2>4. CASE \E i \in Instance : Done(i)
    <3>1. PICK i \in Instance, p \in Partition, o \in Offset : DoneWith(i, p, o)
      BY <2>4, DoneIs
    <3>2. faults' = faults /\ processed' # processed
      <4>1. processed'[p][o] = processed[p][o] + 1 /\ processed[p][o] \in Nat
        BY <3>1 DEF DoneWith, EngineInv
      <4> QED
        BY <3>1, <4>1 DEF DoneWith
    <3> QED
      BY <2>1, <3>2, LossOthers DEF GroupStep
  <2>5. CASE \E i \in Instance, p \in Partition : Recv(i, p)
    <3>1. faults' = faults /\ \A j \in Instance : hand[j] \subseteq hand'[j]
      BY <2>5 DEF Recv, EngineInv
    <3> QED
      BY <2>1, <3>1, LossOthers
  <2>6. CASE hand' = hand /\ (faults' = faults \/ faults' = faults + 1)
    BY <2>1, <2>6, LossOthers
  <2> QED
    BY <2>2, <2>3, <2>4, <2>5, <2>6
    DEF Next, Publish, Assign, AutoCommit, Revoke, SessionLost, Engine, RunRule,
        Start, task, vars
<1>3. LossInv => LossNeedsFaults
  BY DEF LossInv, LossNeedsFaults
<1> QED
  BY <1>1, <1>2, <1>3, EngineCorrect, OrderCorrect, PTL DEF Spec


\* A message becomes lost only when a replica that has it in hand crashes.
OnlyCrashesLose ==
  [][\A m \in Lost' \ Lost : \E i \in Instance : Crash(i) /\ m \in hand[i]]_vars

\* Nothing but a crash loses a message, and only the one the replica had in hand:
\* commits ahead of processing (engine.rs:31), rebalances, orderly stops
\* (main.rs:79) and lost sessions lose nothing.
THEOREM OnlyCrashesCorrect == Spec => OnlyCrashesLose
<1>1. EngineInv /\ OrderInv /\ [Next]_vars
        => \A m \in Lost' \ Lost : \E i \in Instance : Crash(i) /\ m \in hand[i]
  <2> SUFFICES ASSUME EngineInv, OrderInv, [Next]_vars, NEW m \in Lost', m \notin Lost
               PROVE  \E i \in Instance : Crash(i) /\ m \in hand[i]
    OBVIOUS
  <2>1. GroupStep /\ m \in InHand
    BY LostSteps
  <2>2. PICK j \in Instance : m \in hand[j] /\ m \notin hand'[j]
    BY <2>1 DEF Lost, InHand
  <2>3. CASE \E i \in Instance : Crash(i)
    <3>1. PICK i \in Instance : Crash(i)
      BY <2>3
    <3>2. j = i
      BY <2>2, <3>1 DEF Crash, Leave, EngineInv
    <3> QED
      BY <2>2, <3>1, <3>2
  <2>4. CASE \E i \in Instance : Stop(i)
    BY <2>2, <2>4 DEF Stop, Cancellable, Leave, EngineInv
  <2>5. CASE \E i \in Instance : Done(i)
    <3>1. PICK i \in Instance, p \in Partition, o \in Offset : DoneWith(i, p, o)
      BY <2>5, DoneIs
    <3>2. processed' # processed
      <4>1. processed'[p][o] = processed[p][o] + 1 /\ processed[p][o] \in Nat
        BY <3>1 DEF DoneWith, EngineInv
      <4> QED
        BY <4>1
    <3> QED
      BY <2>1, <3>2 DEF GroupStep
  <2>6. CASE \E i \in Instance, p \in Partition : Recv(i, p)
    BY <2>2, <2>6 DEF Recv, EngineInv
  <2>7. CASE hand' = hand
    BY <2>2, <2>7
  <2> QED
    BY <2>3, <2>4, <2>5, <2>6, <2>7
    DEF Next, Publish, Assign, AutoCommit, Revoke, SessionLost, Engine, RunRule,
        Start, task, vars
<1> QED
  BY <1>1, EngineCorrect, OrderCorrect, PTL DEF Spec, OnlyCrashesLose

-----------------------------------------------------------------------------
(* Which alerts are raised *)

Matches(r, e) == e \notin Malformed /\ Evaluate(r, e)

\* Alerts are about published events the rule matches; a message in hand has
\* raised those of the rules already run, a processed one those of all.
AlertInv ==
  /\ alerted \subseteq Partition \X Nat \X Rule
  /\ \A a \in alerted : /\ a[2] < Len(log[a[1]])
                        /\ a[3] \in Enabled /\ Evaluate(a[3], Event(a[1], a[2]))
  /\ \A i \in Instance : \A m \in hand[i] : \A r \in Enabled \ todo[i] :
       Matches(r, Event(m[1], m[2])) => <<m[1], m[2], r>> \in alerted
  /\ \A q \in Partition, n \in Offset : \A r \in Enabled :
       processed[q][n] > 0 /\ Matches(r, Event(q, n)) => <<q, n, r>> \in alerted

\* What is in hand, and what is processed, is on the topic, and so stays as it is.
LEMMA EventsStay ==
  ASSUME EngineInv, OrderInv, AlertInv, [Next]_vars
  PROVE  /\ \A i \in Instance : \A m \in hand[i] :
              Event(m[1], m[2])' = Event(m[1], m[2])
         /\ \A q \in Partition, n \in Offset :
              processed[q][n] > 0 => Event(q, n)' = Event(q, n)
         /\ \A a \in alerted : /\ a[2] < Len(log'[a[1]])
                               /\ Event(a[1], a[2])' = Event(a[1], a[2])
<1>1. \A i \in Instance : \A m \in hand[i] : Event(m[1], m[2])' = Event(m[1], m[2])
  <2> SUFFICES ASSUME NEW i \in Instance, NEW m \in hand[i]
               PROVE  Event(m[1], m[2])' = Event(m[1], m[2])
    OBVIOUS
  <2>1. m[1] \in Partition /\ m[2] \in Nat /\ m[2] < Len(log[m[1]])
    BY DEF EngineInv
  <2> QED
    BY <2>1, LogGrows
<1>2. \A q \in Partition, n \in Offset :
        processed[q][n] > 0 => Event(q, n)' = Event(q, n)
  <2> SUFFICES ASSUME NEW q \in Partition, NEW n \in Offset, processed[q][n] > 0
               PROVE  Event(q, n)' = Event(q, n)
    OBVIOUS
  <2>1. n \in Nat /\ n < Len(log[q])
    BY EngineAssumption DEF EngineAssumption, Offset, OrderInv
  <2> QED
    BY <2>1, LogGrows
<1>3. \A a \in alerted : /\ a[2] < Len(log'[a[1]])
                         /\ Event(a[1], a[2])' = Event(a[1], a[2])
  <2> SUFFICES ASSUME NEW a \in alerted
               PROVE  a[2] < Len(log'[a[1]]) /\ Event(a[1], a[2])' = Event(a[1], a[2])
    OBVIOUS
  <2>1. a[1] \in Partition /\ a[2] \in Nat /\ a[2] < Len(log[a[1]])
    BY DEF AlertInv
  <2>2. /\ Len(log[a[1]]) \in Nat /\ Len(log'[a[1]]) \in Nat
        /\ Len(log[a[1]]) <= Len(log'[a[1]])
        /\ Event(a[1], a[2])' = Event(a[1], a[2])
    BY <2>1, LogGrows
  <2> QED
    BY <2>1, <2>2
<1> QED
  BY <1>1, <1>2, <1>3

LEMMA AlertRun ==
  ASSUME EngineInv, OrderInv, AlertInv, [Next]_vars,
         NEW i \in Instance, NEW r \in Rule, RunRule(i, r)
  PROVE  AlertInv'
<1>1. PICK m \in hand[i] :
        alerted' = IF r \in Enabled /\ Evaluate(r, Event(m[1], m[2]))
                     THEN alerted \cup {<<m[1], m[2], r>>} ELSE alerted
  BY DEF RunRule
<1>2. /\ todo' = [todo EXCEPT ![i] = @ \ {r}]
      /\ UNCHANGED <<log, committed, owner, hand, processed>>
  BY DEF RunRule, Rest, group
<1>3. /\ m[1] \in Partition /\ m[2] \in Nat /\ m[2] < Len(log[m[1]])
      /\ \A n \in hand[i] : n = m
  BY DEF EngineInv
<1>4. alerted \subseteq alerted' /\ alerted' \subseteq Partition \X Nat \X Rule
  BY <1>1, <1>3 DEF AlertInv
<1>5. \A a \in alerted' : /\ a[2] < Len(log[a[1]])
                          /\ a[3] \in Enabled /\ Evaluate(a[3], Event(a[1], a[2]))
  BY <1>1, <1>3 DEF AlertInv
<1>6. \A j \in Instance : \A n \in hand[j] : \A s \in Enabled \ todo'[j] :
        Matches(s, Event(n[1], n[2])) => <<n[1], n[2], s>> \in alerted'
  <2> SUFFICES ASSUME NEW j \in Instance, NEW n \in hand[j],
                      NEW s \in Enabled \ todo'[j], Matches(s, Event(n[1], n[2]))
               PROVE  <<n[1], n[2], s>> \in alerted'
    OBVIOUS
  <2>1. CASE j = i /\ s = r
    BY <1>1, <1>3, <2>1 DEF Matches
  <2>2. CASE ~(j = i /\ s = r)
    <3>1. s \in Enabled \ todo[j]
      BY <1>2, <2>2 DEF EngineInv
    <3> QED
      BY <1>4, <3>1 DEF AlertInv
  <2> QED
    BY <2>1, <2>2
<1>7. \A q \in Partition, n \in Offset : \A s \in Enabled :
        processed[q][n] > 0 /\ Matches(s, Event(q, n)) => <<q, n, s>> \in alerted'
  BY <1>4 DEF AlertInv
<1> QED
  BY <1>2, <1>4, <1>5, <1>6, <1>7 DEF AlertInv, Event

LEMMA AlertDone ==
  ASSUME EngineInv, OrderInv, AlertInv, [Next]_vars, NEW i \in Instance, Done(i)
  PROVE  AlertInv'
<1>1. PICK p \in Partition, o \in Offset : DoneWith(i, p, o)
  BY DoneIs
<1>2. /\ UNCHANGED <<log, todo, alerted>> /\ todo[i] = {} /\ <<p, o>> \in hand[i]
      /\ \A j \in Instance : hand'[j] \subseteq hand[j]
      /\ \A q \in Partition, n \in Offset :
           processed'[q][n] > 0 => processed[q][n] > 0 \/ (q = p /\ n = o)
  BY <1>1 DEF DoneWith
<1>3. \A r \in Enabled : Matches(r, Event(p, o)) => <<p, o, r>> \in alerted
  <2> SUFFICES ASSUME NEW r \in Enabled, Matches(r, Event(p, o))
               PROVE  <<p, o, r>> \in alerted
    OBVIOUS
  <2>1. r \in Enabled \ todo[i]
    BY <1>2
  <2>2. <<p, o>>[1] = p /\ <<p, o>>[2] = o
    OBVIOUS
  <2> QED
    BY <1>2, <2>1, <2>2 DEF AlertInv
<1>4. \A q \in Partition, n \in Offset : \A r \in Enabled :
        processed'[q][n] > 0 /\ Matches(r, Event(q, n)) => <<q, n, r>> \in alerted
  BY <1>2, <1>3 DEF AlertInv
<1> QED
  BY <1>2, <1>4 DEF AlertInv, Event

LEMMA AlertRecv ==
  ASSUME EngineInv, OrderInv, AlertInv, [Next]_vars,
         NEW i \in Instance, NEW p \in Partition, Recv(i, p)
  PROVE  AlertInv'
<1> DEFINE e == Event(p, pos[i][p])
<1>1. /\ hand[i] = {} /\ hand' = [hand EXCEPT ![i] = {<<p, pos[i][p]>>}]
      /\ todo' = [todo EXCEPT ![i] = IF e \in Malformed THEN {} ELSE Rule]
      /\ UNCHANGED <<log, committed, owner, processed, alerted>>
  BY DEF Recv, InRecv, group, EngineInv
<1>2. \A j \in Instance : \A m \in hand'[j] : \A r \in Enabled \ todo'[j] :
        Matches(r, Event(m[1], m[2])) => <<m[1], m[2], r>> \in alerted
  <2> SUFFICES ASSUME NEW j \in Instance, NEW m \in hand'[j],
                      NEW r \in Enabled \ todo'[j], Matches(r, Event(m[1], m[2]))
               PROVE  <<m[1], m[2], r>> \in alerted
    OBVIOUS
  <2>1. CASE j = i
    <3>1. m = <<p, pos[i][p]>>
      BY <1>1, <2>1 DEF EngineInv
    <3>2. e \notin Malformed
      BY <3>1 DEF Matches
    <3>3. todo'[i] = Rule
      BY <1>1, <3>2 DEF EngineInv
    <3> QED
      BY <2>1, <3>3, EngineAssumption DEF EngineAssumption
  <2>2. CASE j # i
    <3>1. m \in hand[j] /\ r \in Enabled \ todo[j]
      BY <1>1, <2>2 DEF EngineInv
    <3> QED
      BY <3>1 DEF AlertInv
  <2> QED
    BY <2>1, <2>2
<1> QED
  BY <1>1, <1>2 DEF AlertInv, Event

LEMMA AlertCorrect == Spec => []AlertInv
<1>1. Init => AlertInv
  <2> SUFFICES ASSUME Init
               PROVE  AlertInv
    OBVIOUS
  <2>1. /\ alerted = {} /\ \A i \in Instance : hand[i] = {}
        /\ \A q \in Partition, n \in Offset : processed[q][n] = 0
    BY DEF Init
  <2> QED
    BY <2>1 DEF AlertInv
<1>2. EngineInv /\ OrderInv /\ AlertInv /\ [Next]_vars => AlertInv'
  <2> SUFFICES ASSUME EngineInv, OrderInv, AlertInv, [Next]_vars
               PROVE  AlertInv'
    OBVIOUS
  <2>1. CASE UNCHANGED <<hand, todo, processed, alerted>>
    BY <2>1, EventsStay DEF AlertInv
  <2>2. CASE GroupStep
    <3>1. /\ UNCHANGED <<log, processed, alerted>>
          /\ \A i \in Instance : \A m \in hand'[i] :
               m \in hand[i] /\ todo'[i] = todo[i]
      BY <2>2 DEF GroupStep
    <3> QED
      BY <3>1 DEF AlertInv, Event
  <2>3. CASE \E i \in Instance, p \in Partition : Recv(i, p)
    BY <2>3, AlertRecv
  <2>4. CASE \E i \in Instance : Done(i)
    BY <2>4, AlertDone
  <2>5. CASE \E i \in Instance, r \in Rule : RunRule(i, r)
    BY <2>5, AlertRun
  <2> QED
    BY <2>1, <2>2, <2>3, <2>4, <2>5, GroupSteps
    DEF Next, Publish, Assign, Engine, task, vars
<1> QED
  BY <1>1, <1>2, EngineCorrect, OrderCorrect, PTL DEF Spec

\* What was processed to the end has raised the alerts of all enabled rules it
\* matches, and no other alert is ever raised (engine.rs:58-96), for any rules.
THEOREM AlertsCorrect == Spec => []AlertsComplete
<1>1. AlertInv => AlertsComplete
  <2> SUFFICES ASSUME AlertInv
               PROVE  AlertsComplete
    OBVIOUS
  <2>1. \A m \in Processed : \A r \in Enabled :
          Event(m[1], m[2]) \notin Malformed /\ Evaluate(r, Event(m[1], m[2]))
            => <<m[1], m[2], r>> \in alerted
    BY DEF AlertInv, Matches, Processed, Messages
  <2>2. \A a \in alerted : a[3] \in Enabled /\ Evaluate(a[3], Event(a[1], a[2]))
    BY DEF AlertInv
  <2> QED
    BY <2>1, <2>2 DEF AlertsComplete
<1> QED
  BY <1>1, AlertCorrect, PTL

-----------------------------------------------------------------------------
(* What can be processed again *)

Readers(q, n) == {i \in Instance : <<q, n>> \in hand[i]}

\* Where the next message of a partition is read, by its owner or the next one.
Front(q) == IF owner[q] = None THEN committed[q] ELSE pos[owner[q]][q]

Coming(q, n) == IF Front(q) <= n THEN 1 ELSE 0

\* The times a message was, is being and will be processed without further faults.
RepeatInv ==
  \A q \in Partition, n \in Offset :
    /\ IsFiniteSet(Readers(q, n))
    /\ processed[q][n] + Cardinality(Readers(q, n)) + Coming(q, n) <= 1 + faults

LEMMA FrontNat ==
  ASSUME EngineInv, NEW q \in Partition
  PROVE  Front(q) \in Nat
<1>1. owner[q] # None => owner[q] \in Instance
  BY DEF EngineInv
<1> QED
  BY <1>1 DEF Front, EngineInv

\* Nothing new: no one takes the message, and it is no further ahead than before,
\* or one more fault makes up for that.
LEMMA RepeatQuiet ==
  ASSUME EngineInv, EngineInv', RepeatInv, NEW q \in Partition, NEW n \in Offset,
         processed'[q][n] = processed[q][n],
         Readers(q, n)' \subseteq Readers(q, n),
         \/ Coming(q, n)' <= Coming(q, n) /\ faults <= faults'
         \/ faults' = faults + 1
  PROVE  /\ IsFiniteSet(Readers(q, n)')
         /\ processed'[q][n] + Cardinality(Readers(q, n)') + Coming(q, n)' <= 1 + faults'
<1>1. /\ IsFiniteSet(Readers(q, n))
      /\ processed[q][n] + Cardinality(Readers(q, n)) + Coming(q, n) <= 1 + faults
  BY DEF RepeatInv
<1>2. /\ IsFiniteSet(Readers(q, n)')
      /\ Cardinality(Readers(q, n)') <= Cardinality(Readers(q, n))
  BY <1>1, FS_Subset
<1>3. /\ Cardinality(Readers(q, n)') \in Nat /\ Cardinality(Readers(q, n)) \in Nat
      /\ processed[q][n] \in Nat /\ faults \in Nat /\ faults' \in Nat
  BY <1>1, <1>2, FS_CardinalityType, EngineAssumption
  DEF EngineAssumption, EngineInv
<1>4. Coming(q, n) \in {0, 1} /\ Coming(q, n)' \in {0, 1}
  BY DEF Coming
<1> DEFINE c == Coming(q, n)
           d == Coming(q, n)'
           r == Cardinality(Readers(q, n))
           s == Cardinality(Readers(q, n)')
<1>5. /\ c \in {0, 1} /\ d \in {0, 1} /\ r \in Nat /\ s \in Nat /\ s <= r
      /\ processed[q][n] + r + c <= 1 + faults
      /\ (d <= c /\ faults <= faults') \/ faults' = faults + 1
  BY <1>1, <1>2, <1>3, <1>4
<1> HIDE DEF c, d, r, s
<1>6. processed[q][n] + s + d <= 1 + faults'
  BY <1>3, <1>5
<1> QED
  BY <1>2, <1>6 DEF s, d

LEMMA RepeatGroup ==
  ASSUME EngineInv, EngineInv', RepeatInv, GroupStep,
         \/ faults' = faults + 1
         \/ \A q \in Partition : Front(q)' = Front(q)
  PROVE  RepeatInv'
<1> SUFFICES ASSUME NEW q \in Partition, NEW n \in Offset
             PROVE  /\ IsFiniteSet(Readers(q, n)')
                    /\ processed'[q][n] + Cardinality(Readers(q, n)') + Coming(q, n)'
                         <= 1 + faults'
  BY DEF RepeatInv
<1>1. processed'[q][n] = processed[q][n] /\ faults <= faults'
  BY DEF GroupStep
<1>2. Readers(q, n)' \subseteq Readers(q, n)
  BY DEF GroupStep, Readers
<1>3. Coming(q, n) \in {0, 1}
  BY DEF Coming
<1>4. Front(q)' = Front(q) => Coming(q, n)' <= Coming(q, n)
  BY <1>3 DEF Coming
<1> QED
  BY <1>1, <1>2, <1>4, RepeatQuiet

\* Commits, rebalances and orderly stops hand a partition on where it stands.
LEMMA FrontGroup ==
  ASSUME EngineInv,
         \/ \E i \in Instance, p \in Partition :
              AutoCommit(i, p) \/ Revoke(i, p) \/ SessionLost(i, p)
         \/ \E i \in Instance : Stop(i) \/ Crash(i) \/ Start(i)
  PROVE  \/ faults' = faults + 1
         \/ \A q \in Partition : Front(q)' = Front(q)
<1>1. CASE \E i \in Instance, p \in Partition : AutoCommit(i, p) \/ Revoke(i, p)
  <2>1. PICK i \in Instance, p \in Partition :
          /\ owner[p] = i /\ i # None /\ pos' = pos
          /\ committed' = [committed EXCEPT ![p] = pos[i][p]]
          /\ owner' = owner \/ owner' = [owner EXCEPT ![p] = None]
    BY <1>1, EngineAssumption DEF EngineAssumption, AutoCommit, Revoke
  <2>2. committed'[p] = pos[i][p]
    BY <2>1 DEF EngineInv
  <2>3. Front(p)' = Front(p)
    BY <2>1, <2>2 DEF Front, EngineInv
  <2>4. \A q \in Partition \ {p} : Front(q)' = Front(q)
    BY <2>1 DEF Front, EngineInv
  <2> QED
    BY <2>3, <2>4
<1>2. CASE \E i \in Instance : Stop(i)
  <2>1. PICK i \in Instance : Stop(i)
    BY <1>2
  <2>2. /\ i # None /\ pos' = pos
        /\ \A q \in Partition :
             /\ committed'[q] = IF owner[q] = i THEN pos[i][q] ELSE committed[q]
             /\ owner'[q] = IF owner[q] = i THEN None ELSE owner[q]
    BY <2>1, EngineAssumption DEF EngineAssumption, Stop, Close, Leave
  <2> QED
    BY <2>2 DEF Front
<1>3. CASE \E i \in Instance : Start(i)
  BY <1>3 DEF Start, group, Front
<1> QED
  BY <1>1, <1>2, <1>3 DEF SessionLost, Crash

\* What neither reads, finishes nor gives anything up leaves each front alone.
LEMMA RepeatElse ==
  ASSUME EngineInv, EngineInv', RepeatInv,
         UNCHANGED <<hand, processed, faults>>,
         \A q \in Partition : Front(q)' = Front(q)
  PROVE  RepeatInv'
<1> SUFFICES ASSUME NEW q \in Partition, NEW n \in Offset
             PROVE  /\ IsFiniteSet(Readers(q, n)')
                    /\ processed'[q][n] + Cardinality(Readers(q, n)') + Coming(q, n)'
                         <= 1 + faults'
  BY DEF RepeatInv
<1>1. Readers(q, n)' \subseteq Readers(q, n) /\ processed'[q][n] = processed[q][n]
  BY DEF Readers
<1>2. Coming(q, n) \in {0, 1} /\ faults \in Nat
  BY EngineAssumption DEF EngineAssumption, EngineInv, Coming
<1>3. Coming(q, n)' <= Coming(q, n) /\ faults <= faults'
  <2>1. Coming(q, n)' = Coming(q, n) /\ faults' = faults
    BY DEF Coming
  <2> QED
    BY <2>1, <1>2
<1> QED
  BY <1>1, <1>3, RepeatQuiet

LEMMA RepeatRecv ==
  ASSUME EngineInv, EngineInv', RepeatInv,
         NEW i \in Instance, NEW p \in Partition, Recv(i, p)
  PROVE  RepeatInv'
<1>1. /\ owner[p] = i /\ i # None /\ hand[i] = {} /\ pos[i][p] \in Nat
      /\ hand' = [hand EXCEPT ![i] = {<<p, pos[i][p]>>}]
      /\ pos' = [pos EXCEPT ![i] = [pos[i] EXCEPT ![p] = pos[i][p] + 1]]
      /\ UNCHANGED <<log, committed, owner, faults, processed>>
  BY EngineAssumption DEF EngineAssumption, EngineInv, Recv, InRecv, group
<1>2. Front(p) = pos[i][p] /\ Front(p)' = pos[i][p] + 1
  BY <1>1 DEF Front, EngineInv
<1>3. \A q \in Partition \ {p} : Front(q)' = Front(q)
  BY <1>1 DEF Front, EngineInv
<1> SUFFICES ASSUME NEW q \in Partition, NEW n \in Offset
             PROVE  /\ IsFiniteSet(Readers(q, n)')
                    /\ processed'[q][n] + Cardinality(Readers(q, n)') + Coming(q, n)'
                         <= 1 + faults'
  BY DEF RepeatInv
<1>4. /\ n \in Nat /\ faults \in Nat /\ faults' = faults
      /\ processed[q][n] \in Nat /\ processed'[q][n] = processed[q][n]
  BY <1>1, EngineAssumption DEF EngineAssumption, EngineInv, Offset
<1>5. CASE q = p /\ n = pos[i][p]
  <2>1. i \notin Readers(q, n) /\ Readers(q, n)' = Readers(q, n) \cup {i}
    BY <1>1, <1>5 DEF Readers, EngineInv
  <2>2. /\ IsFiniteSet(Readers(q, n))
        /\ processed[q][n] + Cardinality(Readers(q, n)) + Coming(q, n) <= 1 + faults
    BY DEF RepeatInv
  <2>3. /\ IsFiniteSet(Readers(q, n)')
        /\ Cardinality(Readers(q, n)') = Cardinality(Readers(q, n)) + 1
    BY <2>1, <2>2, FS_AddElement
  <2>4. Cardinality(Readers(q, n)) \in Nat
    BY <2>2, FS_CardinalityType
  <2>5. Coming(q, n) = 1 /\ Coming(q, n)' = 0
    BY <1>1, <1>2, <1>5 DEF Coming
  <2> DEFINE r == Cardinality(Readers(q, n))
             s == Cardinality(Readers(q, n)')
  <2>6. r \in Nat /\ s = r + 1 /\ processed[q][n] + r + 1 <= 1 + faults
    BY <2>2, <2>3, <2>4, <2>5
  <2> HIDE DEF r, s
  <2>7. processed'[q][n] + s + 0 <= 1 + faults'
    BY <1>4, <2>6
  <2> QED
    BY <2>3, <2>5, <2>7 DEF s
<1>6. CASE ~(q = p /\ n = pos[i][p])
  <2>1. Readers(q, n)' \subseteq Readers(q, n)
    BY <1>1, <1>6 DEF Readers, EngineInv
  <2>2. Front(q) \in Nat /\ Front(q)' \in Nat /\ Front(q) <= Front(q)'
    BY <1>1, <1>2, <1>3, FrontNat
  <2>3. Coming(q, n)' <= Coming(q, n)
    BY <2>2, <1>4 DEF Coming
  <2> QED
    BY <1>4, <2>1, <2>3, RepeatQuiet
<1> QED
  BY <1>5, <1>6

LEMMA RepeatDone ==
  ASSUME EngineInv, EngineInv', RepeatInv, NEW i \in Instance, Done(i)
  PROVE  RepeatInv'
<1>1. PICK p \in Partition, o \in Offset : DoneWith(i, p, o)
  BY DoneIs
<1> SUFFICES ASSUME NEW q \in Partition, NEW n \in Offset
             PROVE  /\ IsFiniteSet(Readers(q, n)')
                    /\ processed'[q][n] + Cardinality(Readers(q, n)') + Coming(q, n)'
                         <= 1 + faults'
  BY DEF RepeatInv
<1>2. /\ faults \in Nat /\ faults' = faults /\ processed[q][n] \in Nat
      /\ Coming(q, n) \in {0, 1} /\ Coming(q, n)' = Coming(q, n)
  BY <1>1, EngineAssumption
  DEF EngineAssumption, EngineInv, DoneWith, Coming, Front
<1>3. CASE q = p /\ n = o
  <2>1. i \in Readers(q, n) /\ Readers(q, n)' = Readers(q, n) \ {i}
    BY <1>1, <1>3 DEF DoneWith, Readers
  <2>2. /\ IsFiniteSet(Readers(q, n))
        /\ processed[q][n] + Cardinality(Readers(q, n)) + Coming(q, n) <= 1 + faults
    BY DEF RepeatInv
  <2>3. /\ IsFiniteSet(Readers(q, n)')
        /\ Cardinality(Readers(q, n)') = Cardinality(Readers(q, n)) - 1
    BY <2>1, <2>2, FS_RemoveElement
  <2>4. Cardinality(Readers(q, n)) \in Nat
    BY <2>2, FS_CardinalityType
  <2>5. processed'[q][n] = processed[q][n] + 1
    BY <1>1, <1>3 DEF DoneWith
  <2> DEFINE r == Cardinality(Readers(q, n))
             s == Cardinality(Readers(q, n)')
             c == Coming(q, n)
             d == Coming(q, n)'
  <2>6. /\ r \in Nat /\ s = r - 1 /\ c \in {0, 1} /\ d = c
        /\ processed[q][n] + r + c <= 1 + faults
    BY <1>2, <2>2, <2>3, <2>4
  <2> HIDE DEF r, s, c, d
  <2>7. processed'[q][n] + s + d <= 1 + faults'
    BY <1>2, <2>5, <2>6
  <2> QED
    BY <2>3, <2>7 DEF s, d
<1>4. CASE ~(q = p /\ n = o)
  <2>1. processed'[q][n] = processed[q][n] /\ Readers(q, n)' \subseteq Readers(q, n)
    BY <1>1, <1>4 DEF DoneWith, Readers
  <2>2. Coming(q, n)' <= Coming(q, n) /\ faults <= faults'
    BY <1>2
  <2> QED
    BY <2>1, <2>2, RepeatQuiet
<1> QED
  BY <1>3, <1>4

\* A message is processed at most once, and once more for each crash and each lost
\* session (auto-commit, engine.rs:23): no rebalance, commit or orderly stop makes
\* the group read a message twice.
THEOREM RepeatsCorrect == Spec => []RepeatsNeedFaults
<1>1. Init => RepeatInv
  <2> SUFFICES ASSUME Init, NEW q \in Partition, NEW n \in Offset
               PROVE  /\ IsFiniteSet(Readers(q, n))
                      /\ processed[q][n] + Cardinality(Readers(q, n)) + Coming(q, n)
                           <= 1 + faults
    BY DEF RepeatInv
  <2>1. Readers(q, n) = {}
    BY DEF Init, Readers
  <2>2. IsFiniteSet(Readers(q, n)) /\ Cardinality(Readers(q, n)) = 0
    BY <2>1, FS_EmptySet
  <2>3. processed[q][n] = 0 /\ Coming(q, n) \in {0, 1} /\ faults = 0
    BY DEF Init, Coming
  <2> QED
    BY <2>2, <2>3
<1>2. EngineInv /\ EngineInv' /\ RepeatInv /\ [Next]_vars => RepeatInv'
  <2> SUFFICES ASSUME EngineInv, EngineInv', RepeatInv, [Next]_vars
               PROVE  RepeatInv'
    OBVIOUS
  <2>1. CASE \/ \E i \in Instance, p \in Partition :
                   AutoCommit(i, p) \/ Revoke(i, p) \/ SessionLost(i, p)
             \/ \E i \in Instance : Stop(i) \/ Crash(i) \/ Start(i)
    BY <2>1, GroupSteps, FrontGroup, RepeatGroup
  <2>2. CASE \E i \in Instance, p \in Partition : Recv(i, p)
    BY <2>2, RepeatRecv
  <2>3. CASE \E i \in Instance : Done(i)
    BY <2>3, RepeatDone
  <2>4. CASE \E i \in Instance, p \in Partition : Assign(i, p)
    <3>1. PICK i \in Instance, p \in Partition : Assign(i, p)
      BY <2>4
    <3>2. /\ owner[p] = None /\ i # None /\ owner' = [owner EXCEPT ![p] = i]
          /\ pos' = [pos EXCEPT ![i] = [pos[i] EXCEPT ![p] = committed[p]]]
          /\ UNCHANGED <<committed, hand, faults, processed>>
      BY <3>1, EngineAssumption DEF EngineAssumption, Assign, StartAt, task
    <3>3. Front(p)' = Front(p)
      BY <3>2 DEF Front, EngineInv
    <3>4. \A q \in Partition \ {p} : Front(q)' = Front(q)
      BY <3>2 DEF Front, EngineInv
    <3> QED
      BY <3>2, <3>3, <3>4, RepeatElse
  <2>5. CASE UNCHANGED <<committed, owner, pos, hand, processed, faults>>
    BY <2>5, RepeatElse DEF Front
  <2> QED
    BY <2>1, <2>2, <2>3, <2>4, <2>5
    DEF Next, Publish, Engine, RunRule, group, task, vars
<1>3. EngineInv /\ RepeatInv => RepeatsNeedFaults
  <2> SUFFICES ASSUME EngineInv, RepeatInv, NEW m \in Messages
               PROVE  processed[m[1]][m[2]] <= 1 + faults
    BY DEF RepeatsNeedFaults
  <2>1. m[1] \in Partition /\ m[2] \in Offset
    BY DEF Messages
  <2> DEFINE r == Cardinality(Readers(m[1], m[2]))
             c == Coming(m[1], m[2])
             k == processed[m[1]][m[2]]
  <2>2. k \in Nat /\ r \in Nat /\ c \in {0, 1} /\ faults \in Nat /\ k + r + c <= 1 + faults
    BY <2>1, FS_CardinalityType, EngineAssumption
    DEF EngineAssumption, EngineInv, RepeatInv, Coming
  <2> HIDE DEF r, c, k
  <2>3. k <= 1 + faults
    BY <2>2
  <2> QED
    BY <2>3 DEF k
<1> QED
  BY <1>1, <1>2, <1>3, EngineCorrect, PTL DEF Spec


\* A message of the topic that is not processed, in hand or lost is still to be
\* read: no rebalance, commit or crash makes the group step over one.
NothingSkipped ==
  \A m \in Messages : m \in Processed \cup InHand \cup Lost \/ Front(m[1]) <= m[2]

\* So a group that keeps reading gets to it: what EventuallyHandled needs beyond
\* fairness holds for any number of replicas, partitions and faults.
THEOREM NothingSkippedCorrect == Spec => []NothingSkipped
<1>1. EngineInv /\ OrderInv => NothingSkipped
  <2> SUFFICES ASSUME EngineInv, OrderInv, NEW m \in Messages, ~(Front(m[1]) <= m[2])
               PROVE  m \in Processed \cup InHand \cup Lost
    BY DEF NothingSkipped
  <2>1. PICK q \in Partition, n \in Offset : m = <<q, n>> /\ n < Len(log[q])
    BY DEF Messages
  <2>2. n \in Nat /\ n < Front(q)
    <3>1. n \in Nat
      BY EngineAssumption DEF EngineAssumption, Offset
    <3> QED
      BY <2>1, <3>1, FrontNat
  <2>3. Covered(q, n) => m \in Processed \cup InHand \cup Lost
    BY <2>1 DEF Covered, Lost, Processed
  <2>4. CASE owner[q] = None
    BY <2>2, <2>3, <2>4 DEF Front, Covered
  <2>5. CASE owner[q] # None
    <3>1. Covered(q, n) \/ <<q, n>> \in hand[owner[q]]
      BY <2>2, <2>5 DEF Front, OrderInv
    <3>2. owner[q] \in Instance
      BY <2>5 DEF EngineInv
    <3> QED
      BY <2>1, <2>3, <3>1, <3>2 DEF InHand
  <2> QED
    BY <2>4, <2>5
<1> QED
  BY <1>1, EngineCorrect, OrderCorrect, PTL

-----------------------------------------------------------------------------
\* Messages, offsets, owners and alerts are what they should be, and a replica
\* holds at most one message, for any number of replicas and partitions.
THEOREM TypeCorrect == Spec => []TypeOK
<1>1. EngineInv /\ AlertInv => TypeOK
  <2> SUFFICES ASSUME EngineInv, AlertInv
               PROVE  TypeOK
    OBVIOUS
  <2>1. \A p \in Partition : Len(log[p]) \in Nat /\ Len(log[p]) <= MaxEvents
    BY LenProperties DEF EngineInv
  <2>2. \A p \in Partition, o \in Nat : o < Len(log[p]) => <<p, o>> \in Messages
    BY <2>1, EngineAssumption DEF EngineAssumption, Messages, Offset
  <2>3. /\ committed \in [Partition -> 0..MaxEvents]
        /\ pos \in [Instance -> [Partition -> 0..MaxEvents]]
    <3>1. \A p \in Partition : committed[p] \in 0..MaxEvents
      BY <2>1, EngineAssumption DEF EngineAssumption, EngineInv
    <3>2. \A i \in Instance, p \in Partition : pos[i][p] \in 0..MaxEvents
      BY <2>1, EngineAssumption DEF EngineAssumption, EngineInv
    <3> QED
      BY <3>1, <3>2 DEF EngineInv
  <2>4. \A i \in Instance : hand[i] \subseteq Messages
    <3> SUFFICES ASSUME NEW i \in Instance, NEW m \in hand[i]
                 PROVE  m \in Messages
      OBVIOUS
    <3>1. m \in Partition \X Nat /\ m[2] < Len(log[m[1]])
      BY DEF EngineInv
    <3>2. m = <<m[1], m[2]>> /\ m[1] \in Partition /\ m[2] \in Nat
      BY <3>1
    <3> QED
      BY <2>2, <3>1, <3>2
  <2>5. \A i \in Instance : Cardinality(hand[i]) <= 1
    <3> SUFFICES ASSUME NEW i \in Instance
                 PROVE  Cardinality(hand[i]) <= 1
      OBVIOUS
    <3>1. CASE hand[i] = {}
      BY <3>1, FS_EmptySet
    <3>2. CASE hand[i] # {}
      <4>1. PICK m \in hand[i] : TRUE
        BY <3>2
      <4>2. \A n \in hand[i] : n = m
        BY DEF EngineInv
      <4>3. hand[i] = {m}
        BY <4>1, <4>2
      <4>4. Cardinality({m}) = 1
        BY FS_Singleton
      <4> QED
        BY <4>3, <4>4
    <3> QED
      BY <3>1, <3>2
  <2>6. \A a \in alerted : <<a[1], a[2]>> \in Messages /\ a[3] \in Rule
    BY <2>2 DEF AlertInv
  <2> QED
    BY <2>3, <2>4, <2>5, <2>6 DEF TypeOK, EngineInv
<1> QED
  BY <1>1, EngineCorrect, AlertCorrect, PTL
=============================================================================
