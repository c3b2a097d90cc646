--------------------------- MODULE UploaderProofs ---------------------------
(***************************************************************************)
(* Proofs about the uploader, for every set of events and collectors, every *)
(* batch size and every number of faults.                                   *)
(***************************************************************************)
EXTENDS Uploader, FiniteSetTheorems, SequenceTheorems, TLAPS

-----------------------------------------------------------------------------
(* Type correctness *)

\* Discarding what is in memory keeps the types.
LEMMA DiscardType ==
  ASSUME TypeOK, Discard
  PROVE  /\ queue' = <<>> /\ batch' = <<>>
         /\ accepted' \in Seq(Event) /\ acked' \in Seq(Event)
         /\ lost' \subseteq Event
<1>1. Range(batch \o queue) \subseteq Event
  <2>1. batch \in Seq(Event) /\ queue \in Seq(Event)
    BY DEF TypeOK
  <2>2. (batch \o queue) \in Seq(Event)
    BY <2>1, ConcatProperties
  <2> QED
    BY <2>2 DEF Range
<1> QED
  BY <1>1 DEF TypeOK, Discard

\* The requests given up on stay well-formed when a fault is counted.
LEMMA AbandonedType ==
  ASSUME TypeOK
  PROVE  \A r \in Abandoned :
           /\ r \in [n : 0..MaxFaults, body : Seq(Event)]
           /\ r.body # <<>>
BY DEF TypeOK, Abandoned, Flushing

\* Every handler keeps the state of the pipeline well-formed: the task never
\* posts an empty batch and closes only with the channel drained.
THEOREM TypeCorrect == Spec => []TypeOK
<1>1. Init => TypeOK
  <2> SUFFICES ASSUME Init
               PROVE  TypeOK
    OBVIOUS
  <2>1. faults \in 0..MaxFaults
    BY UploaderAssumption DEF UploaderAssumption, Init
  <2>2. delivered \in [Event -> Nat] /\ late \subseteq [n : 0..MaxFaults, body : Seq(Event)]
    BY DEF Init
  <2>3. queue \in Seq(Event) /\ batch \in Seq(Event)
        /\ accepted \in Seq(Event) /\ acked \in Seq(Event)
    BY EmptySeq DEF Init
  <2> QED
    BY <2>1, <2>2, <2>3 DEF Init, TypeOK, Flushing
<1>2. TypeOK /\ [Next]_vars => TypeOK'
  <2> SUFFICES ASSUME TypeOK, [Next]_vars
               PROVE  TypeOK'
    OBVIOUS
  <2>1. ASSUME NEW c \in Collector, NEW e \in Event, Send(c, e)
        PROVE  TypeOK'
    BY <2>1 DEF TypeOK, Send, net, Flushing
  <2>2. ASSUME NEW c \in Collector, NEW e \in Event, SendFails(c, e)
        PROVE  TypeOK'
    BY <2>2 DEF TypeOK, SendFails, net, Flushing
  <2>3. ASSUME NEW s \in Collector \cup {Main}, DropSender(s)
        PROVE  TypeOK'
    BY <2>3 DEF TypeOK, DropSender, net, hist, Flushing
  <2>4. CASE BuildClient
    BY <2>4 DEF TypeOK, BuildClient, chan, net, hist, Flushing
  <2>5. CASE RecvOk
    <3>1. Head(queue) \in Event /\ Tail(queue) \in Seq(Event)
      BY <2>5, HeadTailProperties DEF TypeOK, RecvOk
    <3>2. queue' \in Seq(Event)
      BY <2>5, <3>1 DEF RecvOk
    <3>3. batch' \in Seq(Event) /\ batch' # <<>>
      <4>1. batch \in Seq(Event) /\ batch' = Append(batch, Head(queue))
        BY <2>5 DEF TypeOK, RecvOk, Push
      <4> QED
        BY <3>1, <4>1, AppendProperties
    <3> QED
      BY <2>5, <3>2, <3>3 DEF TypeOK, RecvOk, net, hist, Flushing
  <2>6. CASE RecvTimeout
    BY <2>6 DEF TypeOK, RecvTimeout, Overdue, chan, net, hist, Flushing
  <2>7. CASE RecvDisconnected
    BY <2>7 DEF TypeOK, RecvDisconnected, Connected, chan, net, hist, Flushing
  <2>8. CASE RespOk
    <3>1. acked' \in Seq(Event) /\ batch' \in Seq(Event) /\ batch' = <<>>
      BY <2>8, ConcatProperties, EmptySeq DEF TypeOK, RespOk, Clear
    <3> QED
      BY <2>8, <3>1 DEF TypeOK, RespOk, Return, Success, chan, net, Flushing
  <2>9. CASE RespRejected
    BY <2>9, DiscardType, EmptySeq
    DEF TypeOK, RespRejected, Fail, Keep, Return, net, hist, Flushing
  <2>10. CASE BuildFails
    BY <2>10, DiscardType, EmptySeq DEF TypeOK, BuildFails, net, Flushing
  <2>11. CASE Tick
    BY <2>11 DEF TypeOK, Tick, chan, net, hist, Flushing
  <2>12. CASE GiveUp
    <3>1. faults' \in 0..MaxFaults
      BY <2>12, UploaderAssumption DEF UploaderAssumption, TypeOK, GiveUp
    <3>2. /\ late' \subseteq [n : 0..MaxFaults, body : Seq(Event)]
          /\ \A r \in late' : r.body # <<>>
      BY <2>12, AbandonedType DEF TypeOK, GiveUp
    <3>3. CASE pc = "flush"
      BY <2>12, <3>1, <3>2, <3>3
      DEF TypeOK, GiveUp, Fail, Keep, Return, hist, Flushing
    <3>4. CASE pc = "closing"
      BY <2>12, <3>1, <3>2, <3>4, DiscardType, EmptySeq
      DEF TypeOK, GiveUp, Fail, Keep, Return, Flushing
    <3> QED
      BY <2>12, <3>3, <3>4 DEF GiveUp, Flushing
  <2>13. CASE Restart
    <3>1. faults' \in 0..MaxFaults
      BY <2>13, UploaderAssumption DEF UploaderAssumption, TypeOK, Restart
    <3>2. /\ late' \subseteq [n : 0..MaxFaults, body : Seq(Event)]
          /\ \A r \in late' : r.body # <<>>
      BY <2>13, AbandonedType DEF TypeOK, Restart
    <3> QED
      BY <2>13, <3>1, <3>2, DiscardType, EmptySeq DEF TypeOK, Restart, Flushing
  <2>14. CASE PeerAccept
    BY <2>14 DEF TypeOK, PeerAccept, Deliver, chan, hist, Flushing
  <2>15. CASE PeerReject
    BY <2>15 DEF TypeOK, PeerReject, chan, net, hist, Flushing
  <2>16. ASSUME NEW r \in late, LateAccept(r)
         PROVE  TypeOK'
    BY <2>16 DEF TypeOK, LateAccept, Deliver, chan, hist, Flushing
  <2>17. CASE UNCHANGED vars
    BY <2>17 DEF TypeOK, vars, Flushing
  <2> QED
    BY <2>1, <2>2, <2>3, <2>4, <2>5, <2>6, <2>7, <2>8, <2>9, <2>10, <2>11,
       <2>12, <2>13, <2>14, <2>15, <2>16, <2>17 DEF Next, AgentStep, UploaderTask
<1> QED
  BY <1>1, <1>2, PTL DEF Spec

-----------------------------------------------------------------------------
(* Nothing pending is dropped, repeated or reordered *)

\* Moving the head of the queue to the end of the batch moves nothing.
LEMMA ShiftHead ==
  ASSUME NEW S, NEW b \in Seq(S), NEW q \in Seq(S), q # <<>>
  PROVE  Append(b, Head(q)) \o Tail(q) = b \o q
<1> DEFINE h == <<Head(q)>>
<1>1. Head(q) \in S /\ Tail(q) \in Seq(S) /\ h \in Seq(S)
  BY HeadTailProperties
<1>2. Append(b, Head(q)) = b \o h
  BY <1>1, AppendIsConcat
<1>3. (b \o h) \o Tail(q) = b \o (h \o Tail(q))
  BY <1>1, ConcatAssociative
<1>4. h \o Tail(q) = q
  <2>1. /\ (h \o Tail(q)) \in Seq(S)
        /\ Len(h \o Tail(q)) = Len(q)
        /\ \A i \in 1..Len(q) : (h \o Tail(q))[i] = q[i]
    BY <1>1, ConcatProperties, HeadTailProperties, LenProperties
  <2> QED
    BY <2>1, SeqEqual
<1> QED
  BY <1>2, <1>3, <1>4

\* What was discarded was exactly what was pending.
LEMMA DiscardAccounts ==
  ASSUME TypeOK, Discard
  PROVE  Accounting'
<1>1. queue' = <<>> /\ batch' = <<>> /\ accepted' = acked /\ acked' = acked
  BY DEF Discard
<1>2. acked \in Seq(Event) /\ <<>> \in Seq(Event)
  BY EmptySeq DEF TypeOK
<1>3. <<>> \o <<>> = <<>> /\ acked \o <<>> = acked
  BY <1>2, ConcatEmptySeq
<1> QED
  BY <1>1, <1>3 DEF Accounting

\* Rejections, network errors, retries, restarts and shutdown leave every event
\* the channel took uploaded, in the batch or in the queue, in order.
THEOREM AccountingCorrect == Spec => []Accounting
<1>1. Init => Accounting
  BY EmptySeq, ConcatEmptySeq DEF Init, Accounting
<1>2. TypeOK /\ Accounting /\ [Next]_vars => Accounting'
  <2> SUFFICES ASSUME TypeOK, Accounting, [Next]_vars
               PROVE  Accounting'
    OBVIOUS
  <2> USE DEF Accounting
  <2>0. /\ acked \in Seq(Event) /\ batch \in Seq(Event) /\ queue \in Seq(Event)
        /\ accepted \in Seq(Event) /\ <<>> \in Seq(Event)
    BY EmptySeq DEF TypeOK
  <2>1. ASSUME NEW c \in Collector, NEW e \in Event, Send(c, e)
        PROVE  Accounting'
    <3> DEFINE t == <<e>>
    <3>1. t \in Seq(Event)
      OBVIOUS
    <3>2. accepted' = accepted \o t /\ queue' = queue \o t
      BY <2>0, <2>1, AppendIsConcat DEF Send
    <3> HIDE DEF t
    <3>3. (batch \o queue) \in Seq(Event)
      BY <2>0, ConcatProperties
    <3>4. (acked \o (batch \o queue)) \o t = acked \o ((batch \o queue) \o t)
      BY <2>0, <3>1, <3>3, ConcatAssociative
    <3>5. (batch \o queue) \o t = batch \o (queue \o t)
      BY <2>0, <3>1, ConcatAssociative
    <3> QED
      BY <2>1, <3>2, <3>4, <3>5 DEF Send
  <2>2. CASE RecvOk
    BY <2>0, <2>2, ShiftHead DEF RecvOk, Push, hist
  <2>3. CASE RespOk
    <3>1. (acked \o batch) \o queue = acked \o (batch \o queue)
      BY <2>0, ConcatAssociative
    <3>2. <<>> \o queue = queue
      BY <2>0, ConcatEmptySeq
    <3> QED
      BY <2>3, <3>1, <3>2 DEF RespOk, Clear, chan
  <2>4. CASE RespRejected \/ GiveUp
    BY <2>4, DiscardAccounts DEF RespRejected, GiveUp, Fail, Keep, hist
  <2>5. CASE BuildFails \/ Restart
    BY <2>5, DiscardAccounts DEF BuildFails, Restart
  <2>6. CASE UNCHANGED <<accepted, acked, batch, queue>>
    BY <2>6
  <2>7. \/ \E c \in Collector, e \in Event : SendFails(c, e)
        \/ \E s \in Collector \cup {Main} : DropSender(s)
        \/ BuildClient \/ RecvTimeout \/ RecvDisconnected \/ Tick
        \/ PeerAccept \/ PeerReject \/ UNCHANGED vars
        \/ \E r \in late : LateAccept(r)
        => UNCHANGED <<accepted, acked, batch, queue>>
    BY DEF SendFails, DropSender, BuildClient, RecvTimeout, RecvDisconnected,
           Tick, PeerAccept, PeerReject, LateAccept, chan, hist, vars
  <2> QED
    BY <2>1, <2>2, <2>3, <2>4, <2>5, <2>6, <2>7 DEF Next, AgentStep, UploaderTask
<1> QED
  BY <1>1, <1>2, TypeCorrect, PTL DEF Spec

-----------------------------------------------------------------------------
(* Cleared means processed *)

\* While a 2xx answer is on its way back the manager has processed the batch.
OkMeansDelivered ==
  pc \in Flushing /\ req = "ok" => \A e \in Range(batch) : delivered[e] >= 1

AckInv == AckedWasDelivered /\ OkMeansDelivered

\* Processing a request only raises the counts, those of its events above zero.
LEMMA DeliverRaises ==
  ASSUME TypeOK, NEW body \in Seq(Event), Deliver(body)
  PROVE  /\ \A e \in Event : delivered'[e] >= delivered[e]
         /\ \A e \in Range(body) : e \in Event /\ delivered'[e] >= 1
<1>1. Range(body) \subseteq Event
  BY DEF Range
<1> QED
  BY <1>1 DEF TypeOK, Deliver

\* The batch is cleared on a 2xx only: no event the agent dropped as uploaded
\* is unknown to the manager, in spite of lost answers, retries and late requests.
THEOREM AckedCorrect == Spec => []AckedWasDelivered
<1>1. Init => AckInv
  BY DEF Init, AckInv, AckedWasDelivered, OkMeansDelivered, Range, Flushing
<1>2. TypeOK /\ AckInv /\ [Next]_vars => AckInv'
  <2> SUFFICES ASSUME TypeOK, AckInv, [Next]_vars
               PROVE  AckInv'
    OBVIOUS
  <2> USE DEF AckInv, AckedWasDelivered, OkMeansDelivered
  <2>0. /\ Range(acked) \subseteq Event /\ Range(batch) \subseteq Event
        /\ acked \in Seq(Event) /\ batch \in Seq(Event)
    BY DEF TypeOK, Range
  <2>1. CASE RespOk
    <3>1. Range(acked \o batch) = Range(acked) \cup Range(batch)
      BY <2>0, RangeConcatenation
    <3>2. acked' = acked \o batch /\ delivered' = delivered
          /\ pc' \notin Flushing /\ req = "ok" /\ pc \in Flushing
      BY <2>1 DEF RespOk, Success, Return, net, Flushing
    <3> QED
      BY <3>1, <3>2
  <2>2. CASE PeerAccept
    <3>1. /\ \A e \in Event : delivered'[e] >= delivered[e]
          /\ \A e \in Range(batch) : delivered'[e] >= 1
      BY <2>0, <2>2, DeliverRaises DEF PeerAccept
    <3>2. acked' = acked /\ batch' = batch
      BY <2>2 DEF PeerAccept, hist
    <3>3. delivered \in [Event -> Nat] /\ delivered' \in [Event -> Nat]
      BY <2>2 DEF TypeOK, PeerAccept, Deliver
    <3> QED
      BY <2>0, <3>1, <3>2, <3>3
  <2>3. ASSUME NEW r \in late, LateAccept(r)
        PROVE  AckInv'
    <3>1. r.body \in Seq(Event)
      BY DEF TypeOK
    <3>2. \A e \in Event : delivered'[e] >= delivered[e]
      BY <2>3, <3>1, DeliverRaises DEF LateAccept
    <3>3. acked' = acked /\ batch' = batch /\ pc' = pc /\ req' = req
      BY <2>3 DEF LateAccept, hist
    <3>4. delivered \in [Event -> Nat] /\ delivered' \in [Event -> Nat]
      BY <2>3 DEF TypeOK, LateAccept, Deliver
    <3> QED
      BY <2>0, <3>2, <3>3, <3>4
  <2>4. CASE /\ UNCHANGED <<acked, delivered>>
             /\ req' # "ok" \/ pc' \notin Flushing
    BY <2>4
  <2>5. \/ RecvOk \/ RecvTimeout \/ RecvDisconnected \/ RespRejected
        \/ BuildFails \/ GiveUp \/ Restart \/ PeerReject \/ BuildClient
        => /\ UNCHANGED <<acked, delivered>>
           /\ req' # "ok" \/ pc' \notin Flushing
    BY DEF RecvOk, RecvTimeout, RecvDisconnected, RespRejected, BuildFails,
           GiveUp, Restart, PeerReject, BuildClient, Fail, Keep, Return, Discard,
           net, hist, Flushing
  <2>6. CASE UNCHANGED <<acked, delivered, batch, pc, req>>
    BY <2>6
  <2>7. \/ \E c \in Collector, e \in Event : Send(c, e) \/ SendFails(c, e)
        \/ \E s \in Collector \cup {Main} : DropSender(s)
        \/ Tick \/ UNCHANGED vars
        => UNCHANGED <<acked, delivered, batch, pc, req>>
    BY DEF Send, SendFails, DropSender, Tick, net, hist, vars
  <2> QED
    BY <2>1, <2>2, <2>3, <2>4, <2>5, <2>6, <2>7 DEF Next, AgentStep, UploaderTask
<1>3. AckInv => AckedWasDelivered
  BY DEF AckInv
<1> QED
  BY <1>1, <1>2, <1>3, TypeCorrect, PTL DEF Spec

-----------------------------------------------------------------------------
(* The batch outgrows batch_size only under failures *)

\* A task that has not built its client has not received anything.
InitEmpty == pc = "init" => batch = <<>>

OverfullInv == OverfullOnlyAfterFailure /\ InitEmpty

\* A batch of batch_size events or more is kept back only because the last
\* exchange failed: after a success, or a start, it is posted when it is full.
THEOREM OverfullCorrect == Spec => []OverfullOnlyAfterFailure
<1>1. Init => OverfullInv
  BY DEF Init, OverfullInv, OverfullOnlyAfterFailure, InitEmpty
<1>2. TypeOK /\ OverfullInv /\ [Next]_vars => OverfullInv'
  <2> SUFFICES ASSUME TypeOK, OverfullInv, [Next]_vars
               PROVE  OverfullInv'
    OBVIOUS
  <2> USE DEF OverfullInv, OverfullOnlyAfterFailure, InitEmpty
  <2>1. CASE RecvOk
    <3>1. CASE Full(batch')
      BY <2>1, <3>1 DEF RecvOk
    <3>2. CASE ~Full(batch')
      <4>1. batch' \in Seq(Event)
        <5>1. batch \in Seq(Event) /\ Head(queue) \in Event
          BY <2>1, HeadTailProperties DEF TypeOK, RecvOk
        <5> QED
          BY <2>1, <5>1, AppendProperties DEF RecvOk, Push
      <4>2. Len(batch') \in Nat /\ BatchSize \in Nat
        BY <4>1, LenProperties, UploaderAssumption DEF UploaderAssumption
      <4> QED
        BY <2>1, <3>2, <4>2 DEF RecvOk, Full
    <3> QED
      BY <3>1, <3>2
  <2>2. CASE BuildClient
    BY <2>2 DEF BuildClient
  <2>3. CASE pc' \notin {"init", "recv"}
    BY <2>3
  <2>4. CASE batch' = <<>>
    BY <2>4
  <2>5. CASE pc' = "recv" /\ req' \in {"rejected", "failed"}
    BY <2>5
  <2>6. RecvTimeout \/ RecvDisconnected \/ BuildFails \/ PeerAccept \/ PeerReject
        => pc' \notin {"init", "recv"}
    BY DEF TypeOK, RecvTimeout, RecvDisconnected, BuildFails, PeerAccept,
           PeerReject, Flushing
  <2>7. RespOk \/ Restart => batch' = <<>>
    BY DEF RespOk, Clear, Restart, Discard
  <2>8. RespRejected \/ GiveUp
        => \/ pc' = "recv" /\ req' \in {"rejected", "failed"}
           \/ pc' \notin {"init", "recv"}
    BY DEF RespRejected, GiveUp, Fail, Return
  <2>9. CASE UNCHANGED <<pc, batch, req>>
    BY <2>9
  <2>10. \/ \E c \in Collector, e \in Event : Send(c, e) \/ SendFails(c, e)
         \/ \E s \in Collector \cup {Main} : DropSender(s)
         \/ Tick \/ UNCHANGED vars
         \/ \E r \in late : LateAccept(r)
         => UNCHANGED <<pc, batch, req>>
    BY DEF Send, SendFails, DropSender, Tick, LateAccept, net, vars
  <2> QED
    BY <2>1, <2>2, <2>3, <2>4, <2>5, <2>6, <2>7, <2>8, <2>9, <2>10
    DEF Next, AgentStep, UploaderTask
<1>3. OverfullInv => OverfullOnlyAfterFailure
  BY DEF OverfullInv
<1> QED
  BY <1>1, <1>2, <1>3, TypeCorrect, PTL DEF Spec

-----------------------------------------------------------------------------
(* How often the manager processes an event *)

\* An event is in one place of the pipeline, and there once.
Single ==
  /\ IsInjective(batch \o queue)
  /\ fresh \cap Range(batch \o queue) = {}

\* The events that will be in a request again if nothing else fails.
Ahead == fresh \cup Range(queue)
           \cup (IF pc \in Flushing /\ req = "ok" THEN {} ELSE Range(batch))

LateWith(e) == {r \in late : e \in Range(r.body)}
ToCome(e) == IF e \in Ahead THEN 1 ELSE 0

\* The times an event was processed, may yet be by a late request, and will be in
\* a request without further faults.
DupInv ==
  \A e \in Event :
    /\ IsFiniteSet(LateWith(e))
    /\ delivered[e] + Cardinality(LateWith(e)) + ToCome(e) <= 1 + faults

LEMMA InjectiveTail ==
  ASSUME NEW S, NEW s \in Seq(S), NEW t \in Seq(S), IsInjective(s \o t)
  PROVE  IsInjective(t) /\ Range(s) \cap Range(t) = {}
<1>1. /\ Len(s) \in Nat /\ Len(t) \in Nat /\ Len(s \o t) = Len(s) + Len(t)
      /\ \A i \in 1..(Len(s) + Len(t)) :
           (s \o t)[i] = IF i <= Len(s) THEN s[i] ELSE t[i - Len(s)]
      /\ DOMAIN s = 1..Len(s) /\ DOMAIN t = 1..Len(t)
      /\ DOMAIN (s \o t) = 1..(Len(s) + Len(t))
  BY ConcatProperties, LenProperties
<1>2. \A i \in 1..Len(t) : /\ Len(s) + i \in 1..(Len(s) + Len(t))
                           /\ (s \o t)[Len(s) + i] = t[i]
  <2> SUFFICES ASSUME NEW i \in 1..Len(t)
               PROVE  /\ Len(s) + i \in 1..(Len(s) + Len(t))
                      /\ (s \o t)[Len(s) + i] = t[i]
    OBVIOUS
  <2>1. /\ Len(s) + i \in 1..(Len(s) + Len(t)) /\ ~(Len(s) + i <= Len(s))
        /\ (Len(s) + i) - Len(s) = i
    BY <1>1
  <2> QED
    BY <1>1, <2>1
<1>3. \A i \in 1..Len(s) : i \in 1..(Len(s) + Len(t)) /\ (s \o t)[i] = s[i]
  BY <1>1
<1>4. IsInjective(t)
  <2> SUFFICES ASSUME NEW i \in 1..Len(t), NEW j \in 1..Len(t), t[i] = t[j]
               PROVE  i = j
    BY <1>1 DEF IsInjective
  <2>1. Len(s) + i = Len(s) + j
    BY <1>1, <1>2 DEF IsInjective
  <2> QED
    BY <1>1, <2>1
<1>5. ASSUME NEW i \in 1..Len(s), NEW j \in 1..Len(t), s[i] = t[j]
      PROVE  FALSE
  <2>1. i = Len(s) + j
    BY <1>1, <1>2, <1>3, <1>5 DEF IsInjective
  <2> QED
    BY <1>1, <2>1
<1> QED
  BY <1>1, <1>4, <1>5 DEF Range

LEMMA InjectiveAppend ==
  ASSUME NEW S, NEW s \in Seq(S), NEW e \in S, IsInjective(s), e \notin Range(s)
  PROVE  IsInjective(Append(s, e)) /\ Range(Append(s, e)) = Range(s) \cup {e}
<1>1. /\ Len(s) \in Nat /\ Len(Append(s, e)) = Len(s) + 1
      /\ DOMAIN s = 1..Len(s) /\ DOMAIN Append(s, e) = 1..(Len(s) + 1)
      /\ \A i \in 1..Len(s) : Append(s, e)[i] = s[i]
      /\ Append(s, e)[Len(s) + 1] = e
  BY AppendProperties, LenProperties
<1>2. \A i \in 1..(Len(s) + 1) : i \in 1..Len(s) \/ i = Len(s) + 1
  BY <1>1
<1>3. \A i \in 1..Len(s) : i \in 1..(Len(s) + 1) /\ s[i] \in Range(s)
  BY <1>1 DEF Range
<1>4. Len(s) + 1 \in 1..(Len(s) + 1)
  BY <1>1
<1>5. IsInjective(Append(s, e))
  <2> SUFFICES ASSUME NEW i \in 1..(Len(s) + 1), NEW j \in 1..(Len(s) + 1),
                      Append(s, e)[i] = Append(s, e)[j]
               PROVE  i = j
    BY <1>1 DEF IsInjective
  <2>1. CASE i \in 1..Len(s) /\ j \in 1..Len(s)
    BY <1>1, <2>1 DEF IsInjective
  <2> QED
    BY <1>1, <1>2, <1>3, <2>1
<1>6. Range(Append(s, e)) = Range(s) \cup {e}
  <2>1. Range(Append(s, e)) \subseteq Range(s) \cup {e}
    BY <1>1, <1>2, <1>3 DEF Range
  <2>2. Range(s) \cup {e} \subseteq Range(Append(s, e))
    BY <1>1, <1>3, <1>4 DEF Range
  <2> QED
    BY <2>1, <2>2
<1> QED
  BY <1>5, <1>6

\* Events enter the pipeline once, and leave it for good.
LEMMA SingleCorrect == Spec => []Single
<1> DEFINE pending == batch \o queue
<1>1. Init => Single
  <2> SUFFICES ASSUME Init
               PROVE  Single
    OBVIOUS
  <2>1. pending = <<>>
    BY ConcatEmptySeq, EmptySeq DEF Init
  <2> QED
    BY <2>1 DEF Single, IsInjective, Range
<1>2. TypeOK /\ Single /\ [Next]_vars => Single'
  <2> SUFFICES ASSUME TypeOK, Single, [Next]_vars
               PROVE  Single'
    OBVIOUS
  <2>0. batch \in Seq(Event) /\ queue \in Seq(Event) /\ pending \in Seq(Event)
        /\ fresh \subseteq Event
    BY ConcatProperties DEF TypeOK
  <2>1. CASE batch' \o queue' = pending /\ fresh' \subseteq fresh
    BY <2>1 DEF Single
  <2>2. CASE batch' = <<>> /\ queue' = <<>> /\ fresh' = fresh
    <3>1. batch' \o queue' = <<>>
      BY <2>2, ConcatEmptySeq, EmptySeq
    <3> QED
      BY <3>1 DEF Single, IsInjective, Range
  <2>3. CASE \E c \in Collector, e \in Event : Send(c, e)
    <3>1. PICK e \in Event : /\ e \in fresh /\ fresh' = fresh \ {e}
                             /\ queue' = Append(queue, e) /\ batch' = batch
      BY <2>3 DEF Send
    <3>2. batch' \o queue' = Append(pending, e)
      <4>1. /\ <<e>> \in Seq(Event) /\ Append(queue, e) = queue \o <<e>>
            /\ Append(pending, e) = pending \o <<e>>
        BY <2>0, AppendIsConcat
      <4> QED
        BY <2>0, <3>1, <4>1, ConcatAssociative
    <3>3. /\ IsInjective(Append(pending, e))
          /\ Range(Append(pending, e)) = Range(pending) \cup {e}
      <4>1. IsInjective(pending) /\ e \notin Range(pending) /\ pending \in Seq(Event)
        BY <2>0, <3>1 DEF Single
      <4> HIDE DEF pending
      <4> QED
        BY <4>1, InjectiveAppend
    <3> QED
      BY <3>1, <3>2, <3>3 DEF Single
  <2>4. CASE RespOk
    <3>1. batch' = <<>> /\ queue' = queue /\ fresh' = fresh
      BY <2>4 DEF RespOk, Clear, chan
    <3>2. batch' \o queue' = queue
      BY <2>0, <3>1, ConcatEmptySeq
    <3>3. IsInjective(queue) /\ Range(queue) \subseteq Range(pending)
      BY <2>0, InjectiveTail, RangeConcatenation DEF Single
    <3> QED
      BY <3>1, <3>2, <3>3 DEF Single
  <2>5. CASE RecvOk
    BY <2>0, <2>1, <2>5, ShiftHead DEF RecvOk, Push
  <2>6. BuildFails \/ RespRejected \/ GiveUp \/ Restart
        => \/ batch' = <<>> /\ queue' = <<>> /\ fresh' = fresh
           \/ UNCHANGED <<batch, queue, fresh>>
    BY DEF BuildFails, RespRejected, GiveUp, Restart, Fail, Keep, Discard
  <2>7. \/ \E c \in Collector, e \in Event : SendFails(c, e)
        \/ \E s \in Collector \cup {Main} : DropSender(s)
        \/ BuildClient \/ RecvTimeout \/ RecvDisconnected \/ Tick
        \/ PeerAccept \/ PeerReject \/ \E r \in late : LateAccept(r)
        \/ UNCHANGED vars
        => UNCHANGED <<batch, queue>> /\ fresh' \subseteq fresh
    BY DEF SendFails, DropSender, BuildClient, RecvTimeout, RecvDisconnected, Tick,
           PeerAccept, PeerReject, LateAccept, chan, vars
  <2> QED
    BY <2>1, <2>2, <2>3, <2>4, <2>5, <2>6, <2>7 DEF Next, AgentStep, UploaderTask
<1> QED
  BY <1>1, <1>2, TypeCorrect, PTL DEF Spec

LEMMA DupParts ==
  ASSUME TypeOK, NEW e \in Event, IsFiniteSet(LateWith(e))
  PROVE  /\ Cardinality(LateWith(e)) \in Nat /\ delivered[e] \in Nat
         /\ faults \in Nat /\ ToCome(e) \in {0, 1}
  BY FS_CardinalityType, UploaderAssumption
  DEF UploaderAssumption, TypeOK, ToCome

\* What no request takes up, or one more fault makes up for, tips no balance.
LEMMA DupQuiet ==
  ASSUME TypeOK, TypeOK', DupInv, NEW e \in Event,
         delivered'[e] = delivered[e],
         \/ /\ LateWith(e)' \subseteq LateWith(e)
            /\ ToCome(e)' <= ToCome(e)
            /\ faults' = faults
         \/ LateWith(e)' \subseteq LateWith(e) /\ faults' = faults + 1
         \/ /\ \E r : LateWith(e)' = LateWith(e) \cup {r}
            /\ ToCome(e)' <= ToCome(e)
            /\ faults' = faults + 1
  PROVE  /\ IsFiniteSet(LateWith(e)')
         /\ delivered'[e] + Cardinality(LateWith(e)') + ToCome(e)' <= 1 + faults'
<1> DEFINE k == Cardinality(LateWith(e))
           l == Cardinality(LateWith(e)')
           c == ToCome(e)
           d == ToCome(e)'
<1>1. IsFiniteSet(LateWith(e)) /\ delivered[e] + k + c <= 1 + faults
  BY DEF DupInv
<1>2. k \in Nat /\ delivered[e] \in Nat /\ faults \in Nat /\ c \in {0, 1}
  BY <1>1, DupParts
<1>3. d \in {0, 1}
  BY DEF ToCome
<1>4. CASE LateWith(e)' \subseteq LateWith(e)
  <2>1. IsFiniteSet(LateWith(e)') /\ l <= k
    BY <1>1, <1>4, FS_Subset
  <2>2. l \in Nat
    BY <2>1, FS_CardinalityType
  <2>3. (d <= c /\ faults' = faults) \/ faults' = faults + 1
    OBVIOUS
  <2> HIDE DEF k, l, c, d
  <2>4. delivered'[e] + l + d <= 1 + faults'
    BY <1>1, <1>2, <1>3, <2>1, <2>2, <2>3
  <2> QED
    BY <2>1, <2>4 DEF l, d
<1>5. CASE /\ \E r : LateWith(e)' = LateWith(e) \cup {r}
           /\ ToCome(e)' <= ToCome(e) /\ faults' = faults + 1
  <2>1. PICK r : LateWith(e)' = LateWith(e) \cup {r}
    BY <1>5
  <2>2. /\ IsFiniteSet(LateWith(e)')
        /\ l = IF r \in LateWith(e) THEN k ELSE k + 1
    BY <1>1, <2>1, FS_AddElement
  <2>3. d <= c /\ faults' = faults + 1
    BY <1>5
  <2> HIDE DEF k, l, c, d
  <2>4. delivered'[e] + l + d <= 1 + faults'
    BY <1>1, <1>2, <1>3, <2>2, <2>3
  <2> QED
    BY <2>2, <2>4 DEF l, d
<1> QED
  BY <1>4, <1>5

\* The steps that neither deliver nor fail put no event ahead that was not.
LEMMA AheadShrinks ==
  ASSUME TypeOK,
         \/ \E c \in Collector, e \in Event : Send(c, e) \/ SendFails(c, e)
         \/ \E s \in Collector \cup {Main} : DropSender(s)
         \/ UploaderTask \/ BuildFails \/ Tick \/ PeerReject \/ UNCHANGED vars
  PROVE  /\ Ahead' \subseteq Ahead
         /\ UNCHANGED <<late, faults, delivered>>
<1>0. queue \in Seq(Event) /\ batch \in Seq(Event)
  BY DEF TypeOK
<1>1. CASE \E c \in Collector, e \in Event : Send(c, e)
  <2>1. PICK e \in Event : /\ e \in fresh /\ fresh' = fresh \ {e}
                           /\ queue' = Append(queue, e)
                           /\ UNCHANGED <<batch, pc, req, late, faults, delivered>>
    BY <1>1 DEF Send, net
  <2>2. Range(queue') = Range(queue) \cup {e}
    <3>1. <<e>> \in Seq(Event) /\ queue' = queue \o <<e>> /\ Range(<<e>>) = {e}
      BY <1>0, <2>1, AppendIsConcat DEF Range
    <3>2. Range(queue \o <<e>>) = Range(queue) \cup Range(<<e>>)
      BY <1>0, <3>1, RangeConcatenation
    <3> QED
      BY <3>1, <3>2
  <2> QED
    BY <2>1, <2>2 DEF Ahead
<1>2. CASE RecvOk
  <2>1. /\ pc = "recv" /\ queue # <<>>
        /\ queue' = Tail(queue) /\ batch' = Append(batch, Head(queue))
        /\ (pc' = "flush" /\ req' = "sent") \/ pc' = "recv"
        /\ UNCHANGED <<fresh, late, faults, delivered>>
    BY <1>2 DEF RecvOk, Push, net
  <2>2. Head(queue) \in Event /\ Tail(queue) \in Seq(Event)
    BY <1>0, <2>1, HeadTailProperties
  <2>3. Range(batch') \cup Range(queue') = Range(batch) \cup Range(queue)
    <3> DEFINE b == Append(batch, Head(queue))
               q == Tail(queue)
    <3>1. b \in Seq(Event) /\ q \in Seq(Event)
      BY <1>0, <2>1, <2>2, AppendProperties
    <3>2. b \o q = batch \o queue
      BY <1>0, <2>1, ShiftHead
    <3> HIDE DEF b, q
    <3>3. Range(b \o q) = Range(b) \cup Range(q)
      BY <3>1, RangeConcatenation
    <3>4. Range(batch \o queue) = Range(batch) \cup Range(queue)
      BY <1>0, RangeConcatenation
    <3> QED
      BY <2>1, <3>2, <3>3, <3>4 DEF b, q
  <2> QED
    BY <2>1, <2>3 DEF Ahead, Flushing
<1>3. CASE RespRejected
  <2>1. /\ pc \in Flushing /\ req = "rejected"
        /\ UNCHANGED <<fresh, late, faults, delivered>>
        /\ (batch' = <<>> /\ queue' = <<>>) \/ UNCHANGED <<batch, queue>>
    BY <1>3 DEF RespRejected, Fail, Keep, Discard, net
  <2>2. Range(<<>>) = {}
    BY DEF Range
  <2> QED
    BY <2>1, <2>2 DEF Ahead
<1>4. CASE RespOk \/ BuildFails
  <2>1. /\ batch' = <<>> /\ UNCHANGED <<fresh, late, faults, delivered>>
        /\ queue' = queue \/ queue' = <<>>
    BY <1>4 DEF RespOk, Clear, BuildFails, Discard, chan, net
  <2>2. Range(<<>>) = {}
    BY DEF Range
  <2> QED
    BY <2>1, <2>2 DEF Ahead
<1>5. CASE RecvTimeout \/ RecvDisconnected
  BY <1>5 DEF RecvTimeout, RecvDisconnected, Ahead, Flushing, chan, net
<1>6. CASE BuildClient
  BY <1>6 DEF BuildClient, Ahead, Flushing, chan, net
<1>7. CASE PeerReject
  BY <1>7 DEF PeerReject, Ahead, Flushing, chan, net
<1>8. CASE \/ \E c \in Collector, e \in Event : SendFails(c, e)
           \/ \E s \in Collector \cup {Main} : DropSender(s)
           \/ Tick \/ UNCHANGED vars
  <2>1. /\ fresh' \subseteq fresh
        /\ UNCHANGED <<queue, batch, pc, req, late, faults, delivered>>
    BY <1>8 DEF SendFails, DropSender, Tick, chan, net, vars
  <2> QED
    BY <2>1 DEF Ahead
<1> QED
  BY <1>1, <1>2, <1>3, <1>4, <1>5, <1>6, <1>7, <1>8 DEF UploaderTask

\* The manager processes the batch: its events are no longer ahead.
LEMMA DupAccept ==
  ASSUME TypeOK, TypeOK', Single, DupInv, PeerAccept, NEW e \in Event
  PROVE  /\ IsFiniteSet(LateWith(e)')
         /\ delivered'[e] + Cardinality(LateWith(e)') + ToCome(e)' <= 1 + faults'
<1>1. /\ pc \in Flushing /\ req = "sent" /\ req' = "ok"
      /\ Deliver(batch) /\ UNCHANGED <<fresh, queue, pc, batch, late, faults>>
  BY DEF PeerAccept, TypeOK, chan
<1>2. Ahead = fresh \cup Range(queue) \cup Range(batch)
      /\ Ahead' = fresh \cup Range(queue)
  BY <1>1 DEF Ahead
<1>3. LateWith(e)' = LateWith(e)
  BY <1>1 DEF LateWith
<1>4. CASE e \in Range(batch)
  <2>1. batch \in Seq(Event) /\ queue \in Seq(Event)
    BY DEF TypeOK
  <2>2. e \notin Range(queue)
    BY <1>4, <2>1, InjectiveTail DEF Single
  <2>3. e \notin fresh
    BY <1>4, <2>1, RangeConcatenation DEF Single
  <2>4. ToCome(e) = 1 /\ ToCome(e)' = 0
    BY <1>2, <1>4, <2>2, <2>3 DEF ToCome
  <2>5. delivered'[e] = delivered[e] + 1
    BY <1>1, <1>4 DEF Deliver
  <2> DEFINE k == Cardinality(LateWith(e))
  <2>6. /\ IsFiniteSet(LateWith(e)) /\ k \in Nat /\ delivered[e] \in Nat /\ faults \in Nat
        /\ delivered[e] + k + 1 <= 1 + faults
    BY <2>4, DupParts DEF DupInv
  <2> HIDE DEF k
  <2>7. (delivered[e] + 1) + k + 0 <= 1 + faults
    BY <2>6
  <2> QED
    BY <1>1, <1>3, <2>4, <2>5, <2>6, <2>7 DEF k
<1>5. CASE e \notin Range(batch)
  <2>1. delivered'[e] = delivered[e] /\ faults' = faults
    BY <1>1, <1>5 DEF Deliver, TypeOK
  <2>2. ToCome(e) \in {0, 1} /\ ToCome(e)' = ToCome(e)
    BY <1>2, <1>5 DEF ToCome
  <2>3. ToCome(e)' <= ToCome(e)
    BY <2>2
  <2> QED
    BY <1>3, <2>1, <2>3, DupQuiet
<1> QED
  BY <1>4, <1>5

\* A request given up on is processed, and cannot be again.
LEMMA DupLate ==
  ASSUME TypeOK, TypeOK', DupInv, NEW r \in late, LateAccept(r), NEW e \in Event
  PROVE  /\ IsFiniteSet(LateWith(e)')
         /\ delivered'[e] + Cardinality(LateWith(e)') + ToCome(e)' <= 1 + faults'
<1>1. /\ late' = late \ {r} /\ Deliver(r.body)
      /\ UNCHANGED <<fresh, queue, pc, batch, req, faults>>
  BY DEF LateAccept, chan
<1>2. ToCome(e) \in {0, 1} /\ ToCome(e)' = ToCome(e)
  BY <1>1 DEF ToCome, Ahead
<1>3. LateWith(e)' = LateWith(e) \ {r}
  BY <1>1 DEF LateWith
<1>4. CASE e \in Range(r.body)
  <2>1. r \in LateWith(e)
    BY <1>4 DEF LateWith
  <2> DEFINE k == Cardinality(LateWith(e))
             l == Cardinality(LateWith(e)')
             c == ToCome(e)
             d == ToCome(e)'
  <2>2. IsFiniteSet(LateWith(e)) /\ delivered[e] + k + c <= 1 + faults
    BY DEF DupInv
  <2>3. IsFiniteSet(LateWith(e)') /\ l = k - 1
    BY <1>3, <2>1, <2>2, FS_RemoveElement
  <2>4. k \in Nat /\ delivered[e] \in Nat /\ faults \in Nat /\ c \in {0, 1} /\ d = c
    BY <1>2, <2>2, DupParts
  <2>5. delivered'[e] = delivered[e] + 1 /\ faults' = faults
    BY <1>1, <1>4 DEF Deliver
  <2> HIDE DEF k, l, c, d
  <2>6. delivered'[e] + l + d <= 1 + faults'
    BY <2>2, <2>3, <2>4, <2>5
  <2> QED
    BY <2>3, <2>6 DEF l, d
<1>5. CASE e \notin Range(r.body)
  <2>1. delivered'[e] = delivered[e] /\ faults' = faults
    BY <1>1, <1>5 DEF Deliver, TypeOK
  <2>2. LateWith(e)' \subseteq LateWith(e) /\ ToCome(e)' <= ToCome(e)
    BY <1>2, <1>3
  <2> QED
    BY <2>1, <2>2, DupQuiet
<1> QED
  BY <1>4, <1>5

\* What a fault adds: one late request, or one more try.
LEMMA DupFault ==
  ASSUME TypeOK, TypeOK', DupInv, GiveUp \/ Restart, NEW e \in Event
  PROVE  /\ IsFiniteSet(LateWith(e)')
         /\ delivered'[e] + Cardinality(LateWith(e)') + ToCome(e)' <= 1 + faults'
<1>1. /\ faults' = faults + 1 /\ late' = late \cup Abandoned
      /\ UNCHANGED <<fresh, delivered>>
      /\ (batch' = <<>> /\ queue' = <<>>) \/ UNCHANGED <<batch, queue>>
  BY DEF GiveUp, Restart, Fail, Keep, Discard
<1>2. CASE req = "sent"
  <2>1. Range(<<>>) = {}
    BY DEF Range
  <2>2. Ahead' \subseteq Ahead
    BY <1>1, <1>2, <2>1 DEF Ahead
  <2>3. ToCome(e)' <= ToCome(e)
    BY <2>2 DEF ToCome
  <2> DEFINE r == [n |-> faults, body |-> batch]
  <2>4. late' = late \cup {r}
    BY <1>1, <1>2 DEF Abandoned
  <2>5. LateWith(e)' = LateWith(e) \cup {r} \/ LateWith(e)' \subseteq LateWith(e)
    BY <2>4 DEF LateWith
  <2> HIDE DEF r
  <2>6. CASE LateWith(e)' = LateWith(e) \cup {r}
    <3>1. \E x : LateWith(e)' = LateWith(e) \cup {x}
      BY <2>6
    <3> QED
      BY <1>1, <2>3, <3>1, DupQuiet
  <2>7. CASE LateWith(e)' \subseteq LateWith(e)
    BY <1>1, <2>7, DupQuiet
  <2> QED
    BY <2>5, <2>6, <2>7
<1>3. CASE req # "sent"
  <2>1. LateWith(e)' \subseteq LateWith(e)
    BY <1>1, <1>3 DEF Abandoned, LateWith
  <2> QED
    BY <1>1, <2>1, DupQuiet
<1> QED
  BY <1>2, <1>3

\* The manager processes an event once, and once more at most for each exchange
\* that failed and each restart (mod.rs:17, :86), whenever late requests arrive.
THEOREM DuplicatesCorrect == Spec => []DuplicatesNeedFaults
<1>1. Init => DupInv
  <2> SUFFICES ASSUME Init, NEW e \in Event
               PROVE  /\ IsFiniteSet(LateWith(e))
                      /\ delivered[e] + Cardinality(LateWith(e)) + ToCome(e) <= 1 + faults
    BY DEF DupInv
  <2>1. LateWith(e) = {}
    BY DEF Init, LateWith
  <2>2. IsFiniteSet(LateWith(e)) /\ Cardinality(LateWith(e)) = 0
    BY <2>1, FS_EmptySet
  <2>3. delivered[e] = 0 /\ faults = 0 /\ ToCome(e) \in {0, 1}
    BY DEF Init, ToCome
  <2> QED
    BY <2>2, <2>3
<1>2. TypeOK /\ TypeOK' /\ Single /\ DupInv /\ [Next]_vars => DupInv'
  <2> SUFFICES ASSUME TypeOK, TypeOK', Single, DupInv, [Next]_vars, NEW e \in Event
               PROVE  /\ IsFiniteSet(LateWith(e)')
                      /\ delivered'[e] + Cardinality(LateWith(e)') + ToCome(e)'
                           <= 1 + faults'
    BY DEF DupInv
  <2>1. CASE PeerAccept
    BY <2>1, DupAccept
  <2>2. CASE \E r \in late : LateAccept(r)
    BY <2>2, DupLate
  <2>3. CASE GiveUp \/ Restart
    BY <2>3, DupFault
  <2>4. CASE Ahead' \subseteq Ahead /\ UNCHANGED <<late, faults, delivered>>
    <3>1. LateWith(e)' = LateWith(e)
      BY <2>4 DEF LateWith
    <3>2. ToCome(e)' <= ToCome(e)
      BY <2>4 DEF ToCome
    <3> QED
      BY <2>4, <3>1, <3>2, DupQuiet
  <2> QED
    BY <2>1, <2>2, <2>3, <2>4, AheadShrinks DEF Next, AgentStep
<1>3. TypeOK /\ DupInv => DuplicatesNeedFaults
  <2> SUFFICES ASSUME TypeOK, DupInv, NEW e \in Event
               PROVE  delivered[e] <= 1 + faults
    BY DEF DuplicatesNeedFaults
  <2> DEFINE k == Cardinality(LateWith(e))
             c == ToCome(e)
  <2>1. /\ k \in Nat /\ c \in {0, 1} /\ delivered[e] \in Nat /\ faults \in Nat
        /\ delivered[e] + k + c <= 1 + faults
    BY DupParts DEF DupInv
  <2> HIDE DEF k, c
  <2> QED
    BY <2>1
<1> QED
  BY <1>1, <1>2, <1>3, TypeCorrect, SingleCorrect, PTL DEF Spec

-----------------------------------------------------------------------------
(* The uploader implements the at-least-once queue *)

Seen == {e \in Event : delivered[e] > 0}
Known == Range(accepted) \cup lost

\* Of the accepted events, those in S are the oldest.
Oldest(S) ==
  \A i, j \in DOMAIN accepted : i < j /\ accepted[j] \in S => accepted[i] \in S

\* What is fresh is unknown to the pipeline's two ends; what the manager has, and
\* what late requests may bring it, are the oldest of the accepted events.
QueueInv ==
  /\ fresh \cap Known = {}
  /\ Seen \subseteq Known
  /\ \A r \in late : Range(r.body) \subseteq Known
  /\ Oldest(Seen)
  /\ \A r \in late : Oldest(Seen \cup Range(r.body))

\* All that is proved above.
Base == TypeOK /\ Accounting /\ Single /\ AckedWasDelivered

LEMMA OldestUnion ==
  ASSUME NEW S, NEW T, Oldest(S), Oldest(T)
  PROVE  Oldest(S \cup T)
  BY DEF Oldest

\* The accepted events are the acknowledged ones, then the batch, then the queue.
LEMMA Layout ==
  ASSUME Base
  PROVE  /\ Range(accepted) = Range(acked) \cup Range(batch) \cup Range(queue)
         /\ Range(batch) \cap Range(queue) = {}
         /\ DOMAIN accepted = 1..Len(accepted) /\ DOMAIN acked = 1..Len(acked)
         /\ Len(acked) \in Nat /\ Len(batch) \in Nat /\ Len(accepted) \in Nat
         /\ Len(acked) + Len(batch) <= Len(accepted)
         /\ \A i \in 1..Len(acked) : i \in 1..Len(accepted) /\ accepted[i] = acked[i]
         /\ \A i \in 1..Len(accepted) :
              IF i <= Len(acked) + Len(batch)
                THEN accepted[i] \in Range(acked) \cup Range(batch)
                ELSE accepted[i] \in Range(queue)
         /\ {accepted[i] : i \in Len(acked) + 1 .. Len(accepted)} = Range(batch \o queue)
<1> DEFINE a == Len(acked)
           b == Len(batch)
           q == Len(queue)
           pending == batch \o queue
<1>1. /\ acked \in Seq(Event) /\ batch \in Seq(Event) /\ queue \in Seq(Event)
      /\ accepted = acked \o pending
  BY DEF Base, TypeOK, Accounting
<1>2. /\ pending \in Seq(Event) /\ a \in Nat /\ b \in Nat /\ q \in Nat
      /\ Len(pending) = b + q
      /\ \A i \in 1..(b + q) : pending[i] = IF i <= b THEN batch[i] ELSE queue[i - b]
      /\ DOMAIN batch = 1..b /\ DOMAIN queue = 1..q /\ DOMAIN pending = 1..(b + q)
      /\ DOMAIN acked = 1..a
  BY <1>1, ConcatProperties, LenProperties
<1>3. Range(pending) = Range(batch) \cup Range(queue) /\ Range(batch) \cap Range(queue) = {}
  BY <1>1, RangeConcatenation, InjectiveTail DEF Base, Single
<1> HIDE DEF pending
<1>4. /\ Len(accepted) = a + (b + q) /\ DOMAIN accepted = 1..(a + (b + q))
      /\ \A i \in 1..(a + (b + q)) :
           accepted[i] = IF i <= a THEN acked[i] ELSE pending[i - a]
      /\ Range(accepted) = Range(acked) \cup Range(pending)
  <2>1. acked \o pending \in Seq(Event) /\ Len(acked \o pending) = a + (b + q)
    <3>1. /\ acked \o pending \in Seq(Event)
          /\ Len(acked \o pending) = Len(acked) + Len(pending)
      BY <1>1, <1>2, ConcatProperties
    <3> QED
      BY <1>2, <3>1
  <2>2. Range(acked \o pending) = Range(acked) \cup Range(pending)
    BY <1>1, <1>2, RangeConcatenation
  <2>3. \A i \in 1..(a + (b + q)) :
          (acked \o pending)[i] = IF i <= a THEN acked[i] ELSE pending[i - a]
    BY <1>1, <1>2, ConcatProperties
  <2>4. DOMAIN (acked \o pending) = 1..(a + (b + q))
    BY <2>1, LenProperties
  <2> QED
    BY <1>1, <2>1, <2>2, <2>3, <2>4
<1> HIDE DEF a, b, q
<1>5. \A i \in 1..a : i \in 1..(a + (b + q)) /\ accepted[i] = acked[i]
  BY <1>2, <1>4
<1>6. ASSUME NEW i \in 1..(a + (b + q))
      PROVE  IF i <= a + b THEN accepted[i] \in Range(acked) \cup Range(batch)
                           ELSE accepted[i] \in Range(queue)
  <2>1. CASE i <= a
    <3>1. i \in 1..a /\ i <= a + b
      BY <1>2, <2>1
    <3> QED
      BY <1>2, <1>4, <2>1, <3>1 DEF Range
  <2>2. CASE ~(i <= a) /\ i <= a + b
    <3>1. i - a \in 1..b /\ i - a \in 1..(b + q) /\ i - a <= b
      BY <1>2, <2>2
    <3>2. accepted[i] = batch[i - a]
      BY <1>2, <1>4, <2>2, <3>1
    <3> QED
      BY <1>2, <2>2, <3>1, <3>2 DEF Range
  <2>3. CASE ~(i <= a + b)
    <3>1. /\ i - a \in 1..(b + q) /\ ~(i - a <= b) /\ ~(i <= a)
          /\ (i - a) - b \in 1..q
      BY <1>2, <2>3
    <3>2. accepted[i] = queue[(i - a) - b]
      BY <1>2, <1>4, <3>1
    <3> QED
      BY <1>2, <2>3, <3>1, <3>2 DEF Range
  <2> QED
    BY <2>1, <2>2, <2>3
<1>7. {accepted[i] : i \in a + 1 .. a + (b + q)} = Range(pending)
  <2>1. ASSUME NEW i \in a + 1 .. a + (b + q)
        PROVE  accepted[i] \in Range(pending)
    <3>1. i \in 1..(a + (b + q)) /\ ~(i <= a) /\ i - a \in 1..(b + q)
      BY <1>2
    <3> QED
      BY <1>2, <1>4, <3>1 DEF Range
  <2>2. ASSUME NEW i \in 1..(b + q)
        PROVE  \E j \in a + 1 .. a + (b + q) : accepted[j] = pending[i]
    <3>1. /\ a + i \in a + 1 .. a + (b + q) /\ a + i \in 1..(a + (b + q))
          /\ ~(a + i <= a) /\ (a + i) - a = i
      BY <1>2
    <3> QED
      BY <1>4, <3>1
  <2> QED
    BY <1>2, <2>1, <2>2 DEF Range
<1>8. a + b <= a + (b + q)
  BY <1>2
<1> QED
  BY <1>2, <1>3, <1>4, <1>5, <1>6, <1>7, <1>8 DEF a, b, pending

\* With the batch, the manager has the oldest of the accepted events.
LEMMA BatchOldest ==
  ASSUME Base, Oldest(Seen)
  PROVE  Oldest(Seen \cup Range(batch)) /\ Range(batch) \subseteq Known
<1>1. Range(acked) \subseteq Seen
  <2>1. Range(acked) \subseteq Event
    BY DEF Base, TypeOK, Range
  <2>2. \A e \in Range(acked) : delivered[e] \in Nat /\ delivered[e] >= 1
    BY <2>1 DEF Base, TypeOK, AckedWasDelivered
  <2>3. \A e \in Range(acked) : delivered[e] > 0
    BY <2>2
  <2> QED
    BY <2>1, <2>3 DEF Seen
<1>2. ASSUME NEW i \in DOMAIN accepted, NEW j \in DOMAIN accepted, i < j,
             accepted[j] \in Seen \cup Range(batch)
      PROVE  accepted[i] \in Seen \cup Range(batch)
  <2>1. CASE accepted[j] \in Seen
    BY <1>2, <2>1 DEF Oldest
  <2>2. CASE accepted[j] \in Range(batch)
    <3>1. j <= Len(acked) + Len(batch)
      BY <2>2, Layout
    <3>2. i \in 1..Len(accepted) /\ i <= Len(acked) + Len(batch)
      BY <1>2, <3>1, Layout
    <3> QED
      BY <1>1, <3>2, Layout
  <2> QED
    BY <1>2, <2>1, <2>2
<1>3. Range(batch) \subseteq Known
  BY Layout DEF Known
<1> QED
  BY <1>2, <1>3 DEF Oldest

\* A failure leaves everything in place, or drops what was not acknowledged; the
\* request given up on becomes a late one.
LEMMA FailQueue ==
  ASSUME Base, QueueInv, Discard \/ UNCHANGED <<accepted, acked, lost>>,
         late' \subseteq late \cup Abandoned,
         UNCHANGED <<fresh, delivered>>
  PROVE  QueueInv'
<1>1. Seen' = Seen
  BY DEF Seen
<1>2. \A r \in late' : /\ Range(r.body) \subseteq Known
                       /\ Oldest(Seen \cup Range(r.body))
  <2>1. \A r \in Abandoned : r.body = batch
    BY DEF Abandoned
  <2>2. Oldest(Seen \cup Range(batch)) /\ Range(batch) \subseteq Known
    BY BatchOldest DEF QueueInv
  <2> QED
    BY <2>1, <2>2 DEF QueueInv
<1>3. CASE UNCHANGED <<accepted, acked, lost>>
  BY <1>1, <1>2, <1>3 DEF QueueInv, Known, Oldest
<1>4. CASE Discard
  <2>1. accepted' = acked /\ lost' = lost \cup Range(batch \o queue)
    BY <1>4 DEF Discard
  <2>2. Range(batch \o queue) = Range(batch) \cup Range(queue)
    BY RangeConcatenation DEF Base, TypeOK
  <2>3. Known' = Known
    BY <2>1, <2>2, Layout DEF Known
  <2>4. \A S : Oldest(S) => \A i, j \in DOMAIN acked : i < j /\ acked[j] \in S
                              => acked[i] \in S
    BY Layout DEF Oldest
  <2>5. Oldest(Seen)'
    BY <1>1, <2>1, <2>4 DEF QueueInv, Oldest
  <2>6. \A r \in late' : Oldest(Seen \cup Range(r.body))'
    <3> SUFFICES ASSUME NEW r \in late'
                 PROVE  Oldest(Seen \cup Range(r.body))'
      OBVIOUS
    <3>1. Oldest(Seen \cup Range(r.body))
      BY <1>2
    <3> QED
      BY <1>1, <2>1, <2>4, <3>1 DEF Oldest
  <2> QED
    BY <1>1, <1>2, <2>3, <2>5, <2>6 DEF QueueInv
<1> QED
  BY <1>3, <1>4

\* Processing the batch, or a late request, brings the manager the next oldest.
LEMMA DeliverQueue ==
  ASSUME Base, QueueInv, NEW body \in Seq(Event), Deliver(body),
         Oldest(Seen \cup Range(body)), Range(body) \subseteq Known,
         late' \subseteq late, UNCHANGED <<fresh, accepted, lost>>
  PROVE  /\ Seen' = Seen \cup Range(body)
         /\ QueueInv'
<1>1. Seen' = Seen \cup Range(body)
  <2>1. Range(body) \subseteq Event
    BY DEF Range
  <2>2. \A e \in Event : /\ delivered[e] \in Nat
                         /\ delivered'[e] = IF e \in Range(body) THEN delivered[e] + 1
                                                                 ELSE delivered[e]
    BY DEF Base, TypeOK, Deliver
  <2>3. \A e \in Event : delivered'[e] > 0 <=> delivered[e] > 0 \/ e \in Range(body)
    BY <2>2
  <2> QED
    BY <2>1, <2>3 DEF Seen
<1>2. Known' = Known
  BY DEF Known
<1>3. \A S : Oldest(S) => Oldest(S)'
  BY DEF Oldest
<1>4. Oldest(Seen)'
  <2> DEFINE S == Seen \cup Range(body)
  <2>1. \A i, j \in DOMAIN accepted : i < j /\ accepted[j] \in S => accepted[i] \in S
    BY DEF Oldest
  <2> QED
    BY <1>1, <2>1 DEF Oldest
<1>5. \A r \in late' : Oldest(Seen \cup Range(r.body))'
  <2> SUFFICES ASSUME NEW r \in late'
               PROVE  Oldest(Seen \cup Range(r.body))'
    OBVIOUS
  <2> DEFINE S == (Seen \cup Range(body)) \cup (Seen \cup Range(r.body))
  <2>1. Oldest(S)
    BY OldestUnion DEF QueueInv
  <2>2. Seen' \cup Range(r.body) = S
    BY <1>1
  <2> HIDE DEF S
  <2>3. \A i, j \in DOMAIN accepted : i < j /\ accepted[j] \in S => accepted[i] \in S
    BY <2>1 DEF Oldest
  <2> QED
    BY <2>2, <2>3 DEF Oldest
<1> QED
  BY <1>1, <1>2, <1>4, <1>5 DEF QueueInv

\* A new event goes behind all others.
LEMMA SendQueue ==
  ASSUME Base, QueueInv, NEW c \in Collector, NEW e \in Event, Send(c, e)
  PROVE  e \notin Known /\ Seen' = Seen /\ QueueInv'
<1>1. /\ e \in fresh /\ fresh' = fresh \ {e} /\ accepted' = Append(accepted, e)
      /\ delivered' = delivered /\ late' = late /\ lost' = lost
  BY DEF Send, net
<1>2. e \notin Known
  BY <1>1 DEF QueueInv
<1>3. Seen' = Seen
  BY <1>1 DEF Seen
<1>4. Range(accepted') = Range(accepted) \cup {e} /\ accepted \in Seq(Event)
  <2>1. /\ accepted \in Seq(Event) /\ <<e>> \in Seq(Event)
        /\ Append(accepted, e) = accepted \o <<e>>
    BY AppendIsConcat DEF Base, TypeOK
  <2>2. Range(<<e>>) = {e}
    BY DEF Range
  <2>3. Range(accepted \o <<e>>) = Range(accepted) \cup Range(<<e>>)
    BY <2>1, RangeConcatenation
  <2> QED
    BY <1>1, <2>1, <2>2, <2>3
<1>5. Known' = Known \cup {e}
  BY <1>1, <1>4 DEF Known
<1>6. /\ \A i \in DOMAIN accepted : accepted'[i] = accepted[i]
      /\ DOMAIN accepted = 1..Len(accepted) /\ Len(accepted) \in Nat
      /\ DOMAIN accepted' = 1..(Len(accepted) + 1)
      /\ accepted'[Len(accepted) + 1] = e
  <2>1. /\ DOMAIN accepted = 1..Len(accepted) /\ Len(accepted) \in Nat
        /\ accepted' \in Seq(Event)
        /\ Len(accepted') = Len(accepted) + 1
        /\ \A i \in 1..Len(accepted) : accepted'[i] = accepted[i]
        /\ accepted'[Len(accepted) + 1] = e
    BY <1>1, <1>4, AppendProperties, LenProperties
  <2>2. DOMAIN accepted' = 1..(Len(accepted) + 1)
    BY <2>1, LenProperties
  <2> QED
    BY <2>1, <2>2
<1>7. ASSUME NEW S, Oldest(S), e \notin S
      PROVE  \A i, j \in DOMAIN accepted' : i < j /\ accepted'[j] \in S
                                              => accepted'[i] \in S
  <2> SUFFICES ASSUME NEW i \in DOMAIN accepted', NEW j \in DOMAIN accepted',
                      i < j, accepted'[j] \in S
               PROVE  accepted'[i] \in S
    OBVIOUS
  <2>1. j # Len(accepted) + 1
    BY <1>6, <1>7
  <2>2. i \in DOMAIN accepted /\ j \in DOMAIN accepted
    BY <1>6, <2>1
  <2> QED
    BY <1>6, <1>7, <2>2 DEF Oldest
<1>8. Oldest(Seen)'
  BY <1>2, <1>3, <1>7 DEF QueueInv, Oldest
<1>9. ASSUME NEW r \in late'
      PROVE  Oldest(Seen \cup Range(r.body))'
  <2>1. Oldest(Seen \cup Range(r.body)) /\ e \notin Seen \cup Range(r.body)
    BY <1>1, <1>2 DEF QueueInv
  <2> QED
    BY <1>3, <1>7, <2>1 DEF Oldest
<1>10. fresh' \cap Known' = {}
  BY <1>1, <1>5 DEF QueueInv
<1> QED
  BY <1>1, <1>2, <1>3, <1>5, <1>8, <1>9, <1>10 DEF QueueInv

\* The steps of Next by what they do to the two ends of the pipeline.
LEMMA Ends ==
  /\ BuildFails \/ RespRejected \/ GiveUp \/ Restart
     => /\ Discard \/ UNCHANGED <<accepted, acked, lost>>
        /\ late' \subseteq late \cup Abandoned
        /\ UNCHANGED <<fresh, delivered>>
  /\ \/ \E s \in Collector \cup {Main} : DropSender(s)
     \/ BuildClient \/ RecvOk \/ RecvTimeout \/ RecvDisconnected \/ Tick
     \/ PeerReject \/ UNCHANGED vars
     => UNCHANGED <<fresh, accepted, acked, lost, delivered, late>>
  BY DEF BuildFails, RespRejected, GiveUp, Restart, Fail, Keep, DropSender,
         BuildClient, RecvOk, RecvTimeout, RecvDisconnected, Tick, PeerReject,
         vars, chan, net, hist

\* The batch posted, or a late request, is processed.
LEMMA ProcessQueue ==
  ASSUME Base, QueueInv, PeerAccept \/ \E r \in late : LateAccept(r)
  PROVE  /\ \E S \in SUBSET Known : Seen' = Seen \cup S
         /\ QueueInv' /\ UNCHANGED <<accepted, acked, lost>>
<1>1. CASE PeerAccept
  <2>1. batch \in Seq(Event) /\ Deliver(batch) /\ late' \subseteq late
        /\ UNCHANGED <<fresh, accepted, acked, lost>>
    BY <1>1 DEF PeerAccept, chan, hist, Base, TypeOK
  <2>2. Oldest(Seen \cup Range(batch)) /\ Range(batch) \subseteq Known
    BY BatchOldest DEF QueueInv
  <2> QED
    BY <2>1, <2>2, DeliverQueue
<1>2. ASSUME NEW r \in late, LateAccept(r)
      PROVE  /\ \E S \in SUBSET Known : Seen' = Seen \cup S
             /\ QueueInv' /\ UNCHANGED <<accepted, acked, lost>>
  <2>1. r.body \in Seq(Event) /\ Deliver(r.body) /\ late' \subseteq late
        /\ UNCHANGED <<fresh, accepted, acked, lost>>
    BY <1>2 DEF LateAccept, chan, hist, Base, TypeOK
  <2>2. Oldest(Seen \cup Range(r.body)) /\ Range(r.body) \subseteq Known
    BY DEF QueueInv
  <2> QED
    BY <2>1, <2>2, DeliverQueue
<1> QED
  BY <1>1, <1>2

\* What the manager has is always the oldest of what the channel took.
LEMMA QueueCorrect == Spec => []QueueInv
<1>1. Init => QueueInv
  BY DEF Init, QueueInv, Known, Seen, Oldest, Range
<1>2. Base /\ QueueInv /\ [Next]_vars => QueueInv'
  <2> SUFFICES ASSUME Base, QueueInv, [Next]_vars
               PROVE  QueueInv'
    OBVIOUS
  <2>1. ASSUME NEW c \in Collector, NEW e \in Event, Send(c, e)
        PROVE  QueueInv'
    BY <2>1, SendQueue
  <2>2. ASSUME NEW c \in Collector, NEW e \in Event, SendFails(c, e)
        PROVE  QueueInv'
    BY <2>2 DEF SendFails, net, QueueInv, Known, Seen, Oldest
  <2>3. CASE PeerAccept \/ \E r \in late : LateAccept(r)
    BY <2>3, ProcessQueue
  <2>4. CASE BuildFails \/ RespRejected \/ GiveUp \/ Restart
    BY <2>4, Ends, FailQueue
  <2>5. CASE UNCHANGED <<fresh, accepted, lost, delivered, late>>
    BY <2>5 DEF QueueInv, Known, Seen, Oldest
  <2>6. RespOk => UNCHANGED <<fresh, accepted, lost, delivered, late>>
    BY DEF RespOk, chan, net
  <2> QED
    BY <2>1, <2>2, <2>3, <2>4, <2>5, <2>6, Ends DEF Next, AgentStep, UploaderTask
<1> QED
  BY <1>1, <1>2, TypeCorrect, AccountingCorrect, SingleCorrect, AckedCorrect, PTL
  DEF Spec, Base

\* Dropping what was not acknowledged writes off exactly that.
LEMMA DiscardOnce ==
  ASSUME Base, EveryEventOnce, Discard, UNCHANGED fresh
  PROVE  EveryEventOnce'
<1> DEFINE pending == batch \o queue
<1>1. /\ acked \in Seq(Event) /\ batch \in Seq(Event) /\ queue \in Seq(Event)
      /\ accepted = acked \o pending
  BY DEF Base, TypeOK, Accounting
<1>2. pending \in Seq(Event) /\ Range(pending) = Range(batch) \cup Range(queue)
  BY <1>1, ConcatProperties, RangeConcatenation
<1>3. Range(acked) \cap Range(pending) = {}
  <2> HIDE DEF pending
  <2> QED
    BY <1>1, <1>2, InjectiveTail DEF EveryEventOnce
<1>4. IsInjective(acked)
  <2>1. \A i \in DOMAIN acked : i \in DOMAIN accepted /\ accepted[i] = acked[i]
    BY Layout
  <2> QED
    BY <2>1 DEF EveryEventOnce, IsInjective
<1>5. Range(accepted) = Range(acked) \cup Range(pending)
  BY <1>2, Layout
<1>6. accepted' = acked /\ lost' = lost \cup Range(pending)
  BY DEF Discard
<1> HIDE DEF pending
<1> QED
  BY <1>3, <1>4, <1>5, <1>6 DEF EveryEventOnce

\* Every event is in one place, once: still to come, lost, or taken by the channel
\* and not written off since; so no event is uploaded twice, or uploaded and lost.
THEOREM OnceCorrect == Spec => []EveryEventOnce
<1>1. Init => EveryEventOnce
  BY DEF Init, EveryEventOnce, IsInjective, Range
<1>2. Base /\ EveryEventOnce /\ [Next]_vars => EveryEventOnce'
  <2> SUFFICES ASSUME Base, EveryEventOnce, [Next]_vars
               PROVE  EveryEventOnce'
    OBVIOUS
  <2>1. ASSUME NEW c \in Collector, NEW e \in Event, Send(c, e)
        PROVE  EveryEventOnce'
    <3>1. /\ e \in fresh /\ fresh' = fresh \ {e}
          /\ accepted' = Append(accepted, e) /\ lost' = lost
      BY <2>1 DEF Send
    <3>2. /\ IsInjective(Append(accepted, e))
          /\ Range(Append(accepted, e)) = Range(accepted) \cup {e}
      <4>1. accepted \in Seq(Event) /\ e \notin Range(accepted)
        BY <3>1 DEF Base, TypeOK, EveryEventOnce
      <4> QED
        BY <4>1, InjectiveAppend DEF EveryEventOnce
    <3>3. e \notin lost
      BY <3>1 DEF EveryEventOnce
    <3> QED
      BY <3>1, <3>2, <3>3 DEF EveryEventOnce
  <2>2. ASSUME NEW c \in Collector, NEW e \in Event, SendFails(c, e)
        PROVE  EveryEventOnce'
    BY <2>2 DEF SendFails, EveryEventOnce
  <2>3. CASE Discard /\ UNCHANGED fresh
    BY <2>3, DiscardOnce
  <2>4. CASE UNCHANGED <<fresh, accepted, lost>>
    BY <2>4 DEF EveryEventOnce
  <2>5. BuildFails \/ RespRejected \/ GiveUp \/ Restart
        => (Discard /\ UNCHANGED fresh) \/ UNCHANGED <<fresh, accepted, lost>>
    BY Ends
  <2>6. RespOk \/ PeerAccept \/ (\E r \in late : LateAccept(r))
        => UNCHANGED <<fresh, accepted, lost>>
    BY DEF RespOk, PeerAccept, LateAccept, chan, hist
  <2> QED
    BY <2>1, <2>2, <2>3, <2>4, <2>5, <2>6, Ends DEF Next, AgentStep, UploaderTask
<1> QED
  BY <1>1, <1>2, TypeCorrect, AccountingCorrect, SingleCorrect, AckedCorrect, PTL
  DEF Spec, Base

\* Leaving for good leaves nothing in memory: the last flush took the batch, or
\* what it could not upload is written off (mod.rs:48-51).
NothingLeftBehind == pc = "done" => batch = <<>> /\ queue = <<>> /\ accepted = acked

\* A task that has returned left no event of which nobody knows what became: all
\* that the channel took is uploaded or lost.  With a fair uploader and manager it
\* comes to that (EverySentIsSettled); this half of it holds without fairness.
THEOREM LeavesNothing == Spec => []NothingLeftBehind
<1> DEFINE Inv == pc = "done" => batch = <<>> /\ queue = <<>>
<1>1. Init => Inv
  BY DEF Init
<1>2. TypeOK /\ Inv /\ [Next]_vars => Inv'
  <2> SUFFICES ASSUME TypeOK, Inv, [Next]_vars, pc' = "done"
               PROVE  batch' = <<>> /\ queue' = <<>>
    OBVIOUS
  <2>1. CASE RespOk
    <3>1. pc = "closing" /\ queue = <<>>
      BY <2>1 DEF RespOk, Return, TypeOK
    <3> QED
      BY <2>1, <3>1 DEF RespOk, Clear, chan
  <2>2. CASE RespRejected \/ GiveUp
    BY <2>2 DEF RespRejected, GiveUp, Fail, Return, Discard
  <2>3. CASE BuildFails \/ Restart
    BY <2>3 DEF BuildFails, Restart, Discard
  <2>4. CASE RecvDisconnected
    BY <2>4 DEF RecvDisconnected, chan
  <2>5. CASE pc = "done" /\ UNCHANGED <<batch, queue>>
    BY <2>5
  <2>6. Tick \/ PeerAccept \/ PeerReject \/ (\E r \in late : LateAccept(r))
          \/ (\E c \in Collector, e \in Event : Send(c, e) \/ SendFails(c, e))
          \/ (\E s \in Collector \cup {Main} : DropSender(s)) \/ UNCHANGED vars
        => pc = "done" /\ UNCHANGED <<batch, queue>>
    BY DEF Tick, PeerAccept, PeerReject, LateAccept, Send, SendFails, DropSender,
           chan, vars
  <2>7. ~(BuildClient \/ RecvOk \/ RecvTimeout)
    BY DEF BuildClient, RecvOk, RecvTimeout
  <2> QED
    BY <2>1, <2>2, <2>3, <2>4, <2>5, <2>6, <2>7 DEF Next, AgentStep, UploaderTask
<1>3. TypeOK /\ Accounting /\ Inv => NothingLeftBehind
  <2> SUFFICES ASSUME TypeOK, Accounting, batch = <<>>, queue = <<>>
               PROVE  accepted = acked
    BY DEF NothingLeftBehind
  <2>1. acked \in Seq(Event) /\ <<>> \o <<>> = <<>> /\ acked \o <<>> = acked
    BY EmptySeq, ConcatEmptySeq DEF TypeOK
  <2> QED
    BY <2>1 DEF Accounting
<1> HIDE DEF Inv
<1> QED
  BY <1>1, <1>2, <1>3, TypeCorrect, AccountingCorrect, PTL DEF Spec

\* Acknowledging the batch acknowledges the next of the accepted events.
LEMMA AckPrefix ==
  ASSUME Base
  PROVE  \E n \in Len(acked)..Len(accepted) : acked \o batch = SubSeq(accepted, 1, n)
<1> DEFINE done == acked \o batch
           n == Len(done)
<1>1. /\ done \in Seq(Event) /\ queue \in Seq(Event) /\ accepted = done \o queue
      /\ n = Len(acked) + Len(batch)
  <2>1. /\ acked \in Seq(Event) /\ batch \in Seq(Event) /\ queue \in Seq(Event)
        /\ accepted = acked \o (batch \o queue)
    BY DEF Base, TypeOK, Accounting
  <2>2. done \in Seq(Event) /\ n = Len(acked) + Len(batch)
    BY <2>1, ConcatProperties
  <2>3. acked \o (batch \o queue) = (acked \o batch) \o queue
    BY <2>1, ConcatAssociative
  <2> QED
    BY <2>1, <2>2, <2>3
<1>2. n \in Len(acked)..Len(accepted)
  BY <1>1, Layout
<1>3. n \in Nat
  BY <1>1, LenProperties
<1> HIDE DEF done
<1>4. CASE n = 0
  <2>1. done = <<>>
    BY <1>1, <1>4, EmptySeq
  <2>2. SubSeq(accepted, 1, 0) = <<>>
    BY SubSeqEmpty
  <2> QED
    BY <1>2, <1>4, <2>1, <2>2 DEF done
<1>5. CASE n # 0
  <2>1. 1 \in 1..n /\ n \in 1..n
    BY <1>3, <1>5
  <2>2. SubSeq(done \o queue, 1, n) = SubSeq(done, 1, n)
    BY <1>1, <2>1, SubSeqOfConcat1
  <2>3. SubSeq(done, 1, n) = done
    BY <1>1, SubSeqFull
  <2>4. done = SubSeq(accepted, 1, n)
    BY <1>1, <2>2, <2>3
  <2> QED
    BY <1>2, <2>4 DEF done
<1> QED
  BY <1>4, <1>5

\* Every behaviour of the pipeline, seen from its two ends, is one of the
\* at-least-once, in-order queue: taking an event, refusing one, receiving some,
\* acknowledging the batch and losing what was pending are its steps, and every
\* other step of the uploader changes nothing it can see.
THEOREM ImplementsCorrect == Spec => Implements
<1> DEFINE Same == UNCHANGED <<accepted, acked, Seen, lost>>
<1>1. Init => Promise!Init
  BY DEF Init, Promise!Init
<1>2. Base /\ QueueInv /\ Base' /\ QueueInv' /\ [Next]_vars
        => [Promise!Next]_(Promise!avars)
  <2> SUFFICES ASSUME Base, QueueInv, Base', QueueInv', [Next]_vars
               PROVE  Promise!Next \/ Same
    BY DEF Promise!avars, Seen
  <2>1. ASSUME NEW c \in Collector, NEW e \in Event, Send(c, e)
        PROVE  Promise!Next
    <3>1. e \notin Known /\ Seen' = Seen
      BY <2>1, SendQueue
    <3>2. Promise!Accept(e)
      BY <2>1, <3>1
      DEF Send, Promise!Accept, Promise!Known, Promise!Range, Range, Known, Seen
    <3> QED
      BY <3>2 DEF Promise!Next
  <2>2. ASSUME NEW c \in Collector, NEW e \in Event, SendFails(c, e)
        PROVE  Promise!Next
    <3>1. e \notin Known
      BY <2>2 DEF SendFails, QueueInv
    <3>2. Promise!Refuse(e)
      BY <2>2, <3>1
      DEF SendFails, net, Promise!Refuse, Promise!Known, Promise!Range, Range, Known
    <3> QED
      BY <3>2 DEF Promise!Next
  <2>3. CASE PeerAccept \/ \E r \in late : LateAccept(r)
    <3>1. /\ \E S \in SUBSET Known : Seen' = Seen \cup S
          /\ UNCHANGED <<accepted, acked, lost>>
      BY <2>3, ProcessQueue
    <3>2. Promise!InOrder(Seen')
      BY <3>1 DEF QueueInv, Oldest, Promise!InOrder
    <3>3. Promise!Receive
      BY <3>1, <3>2
      DEF Promise!Receive, Promise!Known, Promise!Range, Range, Known, Seen
    <3> QED
      BY <3>3 DEF Promise!Next
  <2>4. CASE RespOk
    <3>1. acked' = acked \o batch /\ UNCHANGED <<accepted, lost, delivered>>
      BY <2>4 DEF RespOk, net
    <3>2. \E n \in Len(acked)..Len(accepted) : acked' = SubSeq(accepted, 1, n)
      BY <3>1, AckPrefix
    <3>3. Range(acked') \subseteq Seen
      <4>1. Range(acked') \subseteq Event
        BY DEF Base, TypeOK, Range
      <4>2. \A e \in Range(acked') : delivered[e] \in Nat /\ delivered[e] >= 1
        BY <3>1, <4>1 DEF Base, TypeOK, AckedWasDelivered
      <4>3. \A e \in Range(acked') : delivered[e] > 0
        BY <4>2
      <4> QED
        BY <4>1, <4>3 DEF Seen
    <3>4. Promise!Ack
      BY <3>1, <3>2, <3>3 DEF Promise!Ack, Promise!Range, Range, Seen
    <3> QED
      BY <3>4 DEF Promise!Next
  <2>5. CASE BuildFails \/ RespRejected \/ GiveUp \/ Restart
    <3>1. UNCHANGED delivered /\ (Discard \/ UNCHANGED <<accepted, acked, lost>>)
      BY <2>5, Ends
    <3>2. Discard => Promise!Forget
      <4>1. {accepted[i] : i \in Len(acked) + 1 .. Len(accepted)}
              = Range(batch \o queue)
        BY Layout
      <4> QED
        BY <3>1, <4>1 DEF Discard, Promise!Forget
    <3> QED
      BY <3>1, <3>2 DEF Promise!Next, Seen
  <2>6. CASE UNCHANGED <<fresh, accepted, acked, lost, delivered, late>>
    BY <2>6 DEF Seen
  <2> QED
    BY <2>1, <2>2, <2>3, <2>4, <2>5, <2>6, Ends DEF Next, AgentStep, UploaderTask
<1> QED
  BY <1>1, <1>2, TypeCorrect, AccountingCorrect, SingleCorrect, AckedCorrect,
     QueueCorrect, PTL
  DEF Spec, Base, Implements, Promise!Spec
=============================================================================
