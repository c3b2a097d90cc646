----------------------------- MODULE AtLeastOnce -----------------------------
(***************************************************************************)
(* What the agent's event pipeline promises, whatever the uploader does to  *)
(* keep the promise: events are taken in an order, reach the manager at     *)
(* least once before they are forgotten as uploaded, and first reach it in  *)
(* the order they were taken.  Only what was not yet uploaded may be lost.   *)
(***************************************************************************)
EXTENDS Naturals, Sequences, Functions

CONSTANT Event

VARIABLES
  accepted,   \* events taken over and not lost since, oldest first
  acked,      \* the prefix of them the agent has dropped as uploaded
  seen,       \* events the manager has received
  lost        \* events refused, or forgotten before they were uploaded

avars == <<accepted, acked, seen, lost>>

Init ==
  /\ accepted = <<>>
  /\ acked = <<>>
  /\ seen = {}
  /\ lost = {}

Known == Range(accepted) \cup lost

Accept(e) ==
  /\ e \notin Known
  /\ accepted' = Append(accepted, e)
  /\ UNCHANGED <<acked, seen, lost>>

Refuse(e) ==
  /\ e \notin Known
  /\ lost' = lost \cup {e}
  /\ UNCHANGED <<accepted, acked, seen>>

\* The manager receives events, new ones or again; what it has received of the
\* accepted events is a prefix of them.
InOrder(S) ==
  \A i, j \in DOMAIN accepted : i < j /\ accepted[j] \in S => accepted[i] \in S

Receive ==
  /\ \E S \in SUBSET Known : seen' = seen \cup S
  /\ InOrder(seen')
  /\ UNCHANGED <<accepted, acked, lost>>

Ack ==
  /\ \E n \in Len(acked)..Len(accepted) : acked' = SubSeq(accepted, 1, n)
  /\ Range(acked') \subseteq seen
  /\ UNCHANGED <<accepted, seen, lost>>

Forget ==
  /\ accepted' = acked
  /\ lost' = lost \cup {accepted[i] : i \in Len(acked) + 1 .. Len(accepted)}
  /\ UNCHANGED <<acked, seen>>

Next ==
  \/ \E e \in Event : Accept(e) \/ Refuse(e)
  \/ Receive
  \/ Ack
  \/ Forget

Spec == Init /\ [][Next]_avars
=============================================================================
