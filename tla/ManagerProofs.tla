--------------------------- MODULE ManagerProofs ---------------------------
(***************************************************************************)
(* Proofs about the manager's tables, for every set of rows and of clients,  *)
(* and every number of writes and faults.                                    *)
(***************************************************************************)
EXTENDS ManagerStore, FiniteSetTheorems, SequenceTheorems, TLAPS

-----------------------------------------------------------------------------
(* Type correctness, one part of the state at a time *)

\* The tables and the histories of identities.
RowsType ==
  /\ spent \subseteq Id /\ live \subseteq spent
  /\ status \in [Id -> Status]
  /\ refs \in [Alert -> SUBSET (Agent \cup Rule)]
  /\ links \subseteq Case \X Alert

\* Updating the status of a row gives it a status.
LEMMA SetStatusType ==
  ASSUME RowsType, NEW x \in Id, NEW s \in Status \cup {None}, SetStatus(x, s)
  PROVE  status' \in [Id -> Status]
<1>1. Coalesce(s, status[x]) \in Status
  BY DEF RowsType, Coalesce
<1>2. CASE x \in live
  BY <1>1, <1>2 DEF RowsType, SetStatus
<1>3. CASE x \notin live
  BY <1>3 DEF RowsType, SetStatus
<1> QED
  BY <1>2, <1>3

\* A new row is a fresh identity with a status.
LEMMA InsertType ==
  ASSUME RowsType, NEW x \in Id, NEW s \in Status, Insert(x, s)
  PROVE  /\ spent' \subseteq Id /\ live' \subseteq spent'
         /\ status' \in [Id -> Status]
BY DEF RowsType, Insert

\* An answer that is ready, with the tables well-formed, keeps everything so.
LEMMA ReadyType ==
  ASSUME TypeOK, NEW c \in Client, NEW x \in Id,
         NEW code \in {200, 201, 404, 500}, Ready(c, code, x), RowsType',
         writes' \in 0..MaxWrites, faults' \in Nat
  PROVE  TypeOK'
<1>1. reply' = [reply EXCEPT ![c] = [code |-> code, id |-> x, had |-> x \in live]]
  BY DEF Ready
<1>2. [code |-> code, id |-> x, had |-> x \in live] \in Response
  BY DEF Response
<1>3. /\ reply' \in [Client -> Response \cup {None}]
      /\ \A d \in Client \ busy' : reply'[d] = None
  BY <1>1, <1>2 DEF TypeOK, Ready
<1> QED
  BY <1>3 DEF TypeOK, RowsType, Ready, stats

\* A request whose statement keeps the tables well-formed keeps everything so.
LEMMA RequestType ==
  ASSUME TypeOK, NEW c \in Client, NEW x \in Id, NEW code \in {200, 201, 404, 500},
         NEW error \in {404, 500}, Request(c, code, error, x), RowsType'
  PROVE  TypeOK'
<1>1. writes' \in 0..MaxWrites /\ faults' \in Nat
  BY StoreAssumption DEF StoreAssumption, TypeOK, Request
<1>2. Ready(c, code, x) \/ Ready(c, error, x)
  BY DEF Request
<1>3. error \in {200, 201, 404, 500}
  OBVIOUS
<1> QED
  BY <1>1, <1>2, <1>3, ReadyType

\* A deletion keeps the types.
LEMMA DeleteRowType ==
  ASSUME TypeOK, NEW c \in Client, NEW x \in Id, DeleteRow(c, x)
  PROVE  TypeOK'
<1> DEFINE gone == x \in live /\ ~Referenced(x)
<1>1. RowsType'
  BY DEF TypeOK, RowsType, DeleteRow
<1>2. \E code \in {200, 404} : Request(c, code, 404, x)
  BY DEF DeleteRow, Code
<1> QED
  BY <1>1, <1>2, RequestType

\* Every handler keeps the types.
LEMMA HandlerType ==
  ASSUME TypeOK, NEW c \in Client, Handler(c)
  PROVE  TypeOK'
<1> USE DEF Id
<1>0. RowsType
  BY DEF TypeOK, RowsType
<1>1. ASSUME NEW x \in Agent, AgentCreate(c, x)
      PROVE  TypeOK'
  <2>1. RowsType'
    BY <1>0, <1>1, InsertType DEF AgentCreate, RowsType, Status
  <2> QED
    BY <1>1, <2>1, RequestType DEF AgentCreate
<1>2. ASSUME NEW x \in Agent, AgentDelete(c, x)
      PROVE  TypeOK'
  BY <1>2, DeleteRowType DEF AgentDelete
<1>3. ASSUME NEW x \in Agent, NEW s \in Status \cup {None}, AgentUpdate(c, x, s)
      PROVE  TypeOK'
  <2>1. RowsType'
    BY <1>0, <1>3, SetStatusType DEF AgentUpdate, RowsType
  <2>2. \E code \in {200, 404, 500}, error \in {404, 500} : Request(c, code, error, x)
    BY <1>3 DEF AgentUpdate, Code
  <2> QED
    BY <2>1, <2>2, RequestType
<1>4. ASSUME NEW x \in Rule, RuleDelete(c, x)
      PROVE  TypeOK'
  BY <1>4, DeleteRowType DEF RuleDelete
<1>5. ASSUME NEW x \in Rule, NEW s \in Status, RuleCreate(c, x, s)
      PROVE  TypeOK'
  <2>1. RowsType'
    BY <1>0, <1>5, InsertType DEF RuleCreate, RowsType
  <2> QED
    BY <1>5, <2>1, RequestType DEF RuleCreate
<1>6. ASSUME NEW x \in Rule, NEW s \in Status \cup {None}, RuleUpdate(c, x, s)
      PROVE  TypeOK'
  <2>1. RowsType'
    BY <1>0, <1>6, SetStatusType DEF RuleUpdate, RowsType
  <2>2. \E code \in {200, 404, 500}, error \in {404, 500} : Request(c, code, error, x)
    BY <1>6 DEF RuleUpdate, Code
  <2> QED
    BY <2>1, <2>2, RequestType
<1>7. ASSUME NEW x \in Alert, NEW s \in Status, AlertUpdate(c, x, s)
      PROVE  TypeOK'
  <2>1. RowsType'
    BY <1>0, <1>7, SetStatusType DEF AlertUpdate, RowsType
  <2>2. \E code \in {200, 404, 500}, error \in {404, 500} : Request(c, code, error, x)
    BY <1>7 DEF AlertUpdate, Code
  <2> QED
    BY <2>1, <2>2, RequestType
<1>8. ASSUME NEW x \in Alert, AlertResolve(c, x)
      PROVE  TypeOK'
  <2>1. RowsType'
    BY <1>0, <1>8, SetStatusType DEF AlertResolve, RowsType, Status
  <2>2. \E code \in {200, 404, 500}, error \in {404, 500} : Request(c, code, error, x)
    BY <1>8 DEF AlertResolve, Code
  <2> QED
    BY <2>1, <2>2, RequestType
<1>9. ASSUME NEW x \in Alert, NEW u \in User \cup {Stranger}, AlertAssign(c, x, u)
      PROVE  TypeOK'
  <2>1. RowsType'
    BY <1>0, <1>9 DEF AlertAssign, rows, RowsType
  <2>2. \E code \in {200, 404, 500}, error \in {404, 500} : Request(c, code, error, x)
    BY <1>9 DEF AlertAssign, Code
  <2> QED
    BY <2>1, <2>2, RequestType
<1>10. ASSUME NEW x \in Case, CaseCreate(c, x)
       PROVE  TypeOK'
  <2>1. RowsType'
    BY <1>0, <1>10, InsertType DEF CaseCreate, RowsType, Status
  <2> QED
    BY <1>10, <2>1, RequestType DEF CaseCreate
<1>11. ASSUME NEW x \in Case, CaseDelete(c, x)
       PROVE  TypeOK'
  BY <1>11, DeleteRowType DEF CaseDelete
<1>12. ASSUME NEW x \in Case, NEW s \in Status \cup {None},
              NEW u \in User \cup {Stranger}, CaseUpdate(c, x, s, u)
       PROVE  TypeOK'
  <2>1. RowsType'
    BY <1>0, <1>12, SetStatusType DEF CaseUpdate, RowsType
  <2>2. \E code \in {200, 404, 500}, error \in {404, 500} : Request(c, code, error, x)
    BY <1>12 DEF CaseUpdate, Code
  <2> QED
    BY <2>1, <2>2, RequestType
<1>13. ASSUME NEW x \in Case, NEW a \in Alert, CaseAddAlert(c, x, a)
       PROVE  TypeOK'
  <2>1. RowsType'
    BY <1>0, <1>13 DEF CaseAddAlert, RowsType
  <2>2. \E code \in {200, 404, 500}, error \in {404, 500} : Request(c, code, error, x)
    BY <1>13 DEF CaseAddAlert, Code
  <2> QED
    BY <2>1, <2>2, RequestType
<1>14. ASSUME NEW x \in Id, NEW code \in {404, 500}, StatementFails(c, x, code)
       PROVE  TypeOK'
  <2>1. RowsType' /\ Ready(c, code, x)
    BY <1>0, <1>14 DEF StatementFails, rows, RowsType
  <2>2. writes' \in 0..MaxWrites /\ faults' \in Nat
    BY <1>14 DEF TypeOK, StatementFails
  <2>3. code \in {200, 201, 404, 500}
    OBVIOUS
  <2> QED
    BY <2>1, <2>2, <2>3, ReadyType
<1> QED
  BY <1>1, <1>2, <1>3, <1>4, <1>5, <1>6, <1>7, <1>8, <1>9, <1>10, <1>11,
     <1>12, <1>13, <1>14 DEF Handler

\* A query of the dashboard counts the rows of a finite table.
LEMMA CountType ==
  ASSUME TypeOK, NEW S
  PROVE  Cardinality(S \cap live) \in Nat
<1>1. IsFiniteSet(live)
  BY StoreAssumption, FS_Subset DEF StoreAssumption, TypeOK
<1>2. IsFiniteSet(S \cap live)
  BY <1>1, FS_Subset
<1> QED
  BY <1>2, FS_CardinalityType

\* No counts are kept.
CountsEmpty ==
  /\ dash \in Seq(Nat) /\ Len(dash) <= 9 /\ dash = <<>>
  /\ mark \in 0..MaxWrites /\ holes \in BOOLEAN

\* What is forgotten leaves no counts.
LEMMA ForgetType == ASSUME Forget PROVE CountsEmpty'
<1>1. dash' \in Seq(Nat) /\ Len(dash') <= 9
  BY EmptySeq DEF Forget
<1>2. dash' = <<>>
  BY DEF Forget
<1>3. mark' = 0 /\ holes' = FALSE
  BY DEF Forget
<1>4. 0 \in 0..MaxWrites
  BY StoreAssumption DEF StoreAssumption
<1> QED
  BY <1>1, <1>2, <1>3, <1>4 DEF CountsEmpty

\* A query touches nothing but the counts.
LEMMA CountsType ==
  ASSUME TypeOK, NEW n \in Nat, Counts(n), faults' \in Nat, holes' \in BOOLEAN
  PROVE  TypeOK'
<1>1. dash' \in Seq(Nat) /\ Len(dash') = Len(dash) + 1
  BY AppendProperties DEF TypeOK, Counts
<1>2. Len(dash') <= 9
  <2> DEFINE k == Len(dash)
             m == Len(dash')
  <2>1. k \in 0..8 /\ m = k + 1
    BY <1>1 DEF Counts
  <2> HIDE DEF k, m
  <2>2. m <= 9
    BY <2>1
  <2> QED
    BY <2>2 DEF m
<1>3. mark' \in 0..MaxWrites
  BY DEF TypeOK, Counts
<1>4. /\ server' = server /\ busy' = busy /\ reply' = reply /\ told' = told
      /\ Dashboard \in busy /\ writes' = writes
      /\ UNCHANGED <<live, spent, status, refs, links>>
  BY DEF Counts, rows
<1> QED
  BY <1>1, <1>2, <1>3, <1>4 DEF TypeOK

\* Every table holds rows with fresh identities, references of the declared
\* kinds and a status, and the server that is down has nothing in memory,
\* whatever the handlers, faults and restarts (init.sql, main.go:101-124).
THEOREM StoreTypeCorrect == Spec => []TypeOK
<1>1. Init => TypeOK
  <2> SUFFICES ASSUME Init
               PROVE  TypeOK
    OBVIOUS
  <2>1. status \in [Id -> Status] /\ refs \in [Alert -> SUBSET (Agent \cup Rule)]
    BY DEF Init, Status
  <2>2. dash \in Seq(Nat) /\ Len(dash) <= 9
    BY EmptySeq DEF Init
  <2>3. mark \in 0..MaxWrites /\ writes \in 0..MaxWrites
    BY StoreAssumption DEF StoreAssumption, Init
  <2>4. server = "up" /\ holes = FALSE /\ faults = 0
    BY DEF Init
  <2>5. /\ spent = {} /\ live = {} /\ links = {} /\ told = {} /\ busy = {} /\ dash = <<>>
        /\ reply = [c \in Client |-> None]
    BY DEF Init
  <2> QED
    BY <2>1, <2>2, <2>3, <2>4, <2>5 DEF TypeOK
<1>2. TypeOK /\ [Next]_vars => TypeOK'
  <2> SUFFICES ASSUME TypeOK, [Next]_vars
               PROVE  TypeOK'
    OBVIOUS
  <2>1. ASSUME NEW c \in Client, Handler(c)
        PROVE  TypeOK'
    BY <2>1, HandlerType
  <2>2. ASSUME NEW c \in Client, Answer(c)
        PROVE  TypeOK'
    <3>1. /\ reply' \in [Client -> Response \cup {None}]
          /\ \A d \in Client \ busy' : reply'[d] = None
      BY <2>2 DEF TypeOK, Answer
    <3>2. busy' \subseteq busy /\ (Dashboard \in busy => Dashboard \in busy')
      BY <2>2, StoreAssumption DEF StoreAssumption, Answer
    <3>3. told' \subseteq Id
      BY <2>2 DEF TypeOK, Answer, Response
    <3> QED
      BY <2>2, <3>1, <3>2, <3>3 DEF TypeOK, Answer, rows, stats
  <2>3. ASSUME NEW x \in Alert, NEW r \in SUBSET (Agent \cup Rule), AlertInsert(x, r)
        PROVE  TypeOK'
    <3>1. RowsType'
      BY <2>3, InsertType DEF TypeOK, RowsType, AlertInsert, Status, Id
    <3>2. writes' \in 0..MaxWrites
      BY <2>3, StoreAssumption DEF StoreAssumption, TypeOK, AlertInsert
    <3> QED
      BY <2>3, <3>1, <3>2 DEF TypeOK, RowsType, AlertInsert, stats
  <2>4. ASSUME NEW c \in Client \cup {Dashboard}, Accept(c)
        PROVE  TypeOK'
    BY <2>4 DEF TypeOK, Accept, rows, stats
  <2>5. CASE StatsQuery
    <3>1. Cardinality(Counted[Len(dash) + 1] \cap live) \in Nat
      BY CountType
    <3>2. faults' \in Nat /\ holes' \in BOOLEAN
      BY <2>5 DEF TypeOK, StatsQuery
    <3> QED
      BY <2>5, <3>1, <3>2, CountsType DEF StatsQuery
  <2>6. CASE StatsQueryFails
    <3>1. Counts(0) /\ faults' = faults + 1 /\ holes' = TRUE
      BY <2>6 DEF StatsQueryFails
    <3>2. faults' \in Nat
      BY <3>1 DEF TypeOK
    <3>3. holes' \in BOOLEAN
      BY <3>1
    <3> QED
      BY <3>1, <3>2, <3>3, CountsType
  <2>7. CASE StatsAnswer
    <3>1. CountsEmpty'
      BY <2>7, ForgetType DEF StatsAnswer
    <3>2. UNCHANGED <<server, rows, reply, told, writes, faults>>
      BY <2>7 DEF StatsAnswer
    <3>3. busy' = busy \ {Dashboard}
      BY <2>7 DEF StatsAnswer
    <3>4. \A c \in Client : c # Dashboard
      BY StoreAssumption DEF StoreAssumption
    <3> QED
      BY <3>1, <3>2, <3>3, <3>4 DEF TypeOK, CountsEmpty, rows
  <2>8. CASE Shutdown
    BY <2>8 DEF TypeOK, Shutdown, rows, stats
  <2>9. CASE Start
    BY <2>9 DEF TypeOK, Start, rows, stats
  <2>10. CASE ExitDrained \/ ExitForced \/ Crash
    <3>1. Exit /\ faults' \in Nat
      BY <2>10 DEF TypeOK, ExitDrained, ExitForced, Crash
    <3>2. CountsEmpty'
      BY <3>1, ForgetType DEF Exit
    <3>3. server' = "down" /\ busy' = {} /\ writes' = writes /\ UNCHANGED rows /\ told' = told
      BY <3>1 DEF Exit
    <3>4. reply' = [c \in Client |-> None]
      BY <3>1 DEF Exit
    <3> QED
      BY <3>1, <3>2, <3>3, <3>4 DEF TypeOK, CountsEmpty, rows
  <2>11. CASE UNCHANGED vars
    BY <2>11 DEF TypeOK, vars
  <2> QED
    BY <2>1, <2>2, <2>3, <2>4, <2>5, <2>6, <2>7, <2>8, <2>9, <2>10, <2>11 DEF Next
<1> QED
  BY <1>1, <1>2, PTL DEF Spec

-----------------------------------------------------------------------------
(* References *)

\* An alert is never deleted, and what it points to cannot be: a row that is
\* deleted is referenced by no live alert, and takes its links along.
LEMMA DeleteRowKeeps ==
  ASSUME TypeOK, NoDangling, NEW c \in Client, NEW x \in Id \ Alert, DeleteRow(c, x)
  PROVE  NoDangling'
<1> DEFINE gone == x \in live /\ ~Referenced(x)
<1>1. refs' = refs /\ links' = {l \in links : l[1] # x \/ ~gone}
      /\ live' = IF gone THEN live \ {x} ELSE live
  BY DEF DeleteRow
<1>2. CASE gone
  <2>1. \A a \in live \cap Alert : x \notin refs[a]
    BY <1>2 DEF Referenced
  <2>2. \A l \in links' : l \in links /\ l[1] # x /\ l[2] # x
    BY <1>1, <1>2 DEF TypeOK
  <2> QED
    BY <1>1, <1>2, <2>1, <2>2 DEF NoDangling
<1>3. CASE ~gone
  BY <1>1, <1>3 DEF NoDangling
<1> QED
  BY <1>2, <1>3

\* A row that is added outside the table of alerts points to nothing.
LEMMA InsertKeeps ==
  ASSUME TypeOK, NoDangling, NEW x \in Id \ Alert, NEW s, Insert(x, s),
         UNCHANGED <<refs, links>>
  PROVE  NoDangling'
BY DEF TypeOK, NoDangling, Insert

\* Whatever is deleted while alerts and links to it are being added, nothing is
\* left pointing to a row that is gone (init.sql:75-76, 107-108).
THEOREM ReferencesHold == Spec => []NoDangling
<1>1. Init => NoDangling
  BY DEF Init, NoDangling
<1>2. TypeOK /\ NoDangling /\ [Next]_vars => NoDangling'
  <2> SUFFICES ASSUME TypeOK, NoDangling, [Next]_vars
               PROVE  NoDangling'
    OBVIOUS
  <2>0. /\ Agent \subseteq Id \ Alert /\ Rule \subseteq Id \ Alert
        /\ Case \subseteq Id \ Alert /\ Alert \subseteq Id
    BY StoreAssumption DEF StoreAssumption, Id
  <2>1. ASSUME NEW c \in Client, NEW x \in Agent, AgentCreate(c, x)
        PROVE  NoDangling'
    BY <2>0, <2>1, InsertKeeps DEF AgentCreate
  <2>2. ASSUME NEW c \in Client, NEW x \in Rule, NEW s \in Status, RuleCreate(c, x, s)
        PROVE  NoDangling'
    BY <2>0, <2>2, InsertKeeps DEF RuleCreate
  <2>3. ASSUME NEW c \in Client, NEW x \in Case, CaseCreate(c, x)
        PROVE  NoDangling'
    BY <2>0, <2>3, InsertKeeps DEF CaseCreate
  <2>4. ASSUME NEW c \in Client, NEW x \in Agent \cup Rule \cup Case,
               AgentDelete(c, x) \/ RuleDelete(c, x) \/ CaseDelete(c, x)
        PROVE  NoDangling'
    BY <2>0, <2>4, DeleteRowKeeps DEF AgentDelete, RuleDelete, CaseDelete
  <2>5. ASSUME NEW x \in Alert, NEW r \in SUBSET (Agent \cup Rule), AlertInsert(x, r)
        PROVE  NoDangling'
    <3>1. /\ r \subseteq live /\ x \notin live
          /\ live' = live \cup {x} /\ links' = links
          /\ refs' = [refs EXCEPT ![x] = r]
      BY <2>5 DEF TypeOK, AlertInsert, Insert
    <3>2. \A a \in live' \cap Alert : refs'[a] = IF a = x THEN r ELSE refs[a]
      BY <3>1 DEF TypeOK
    <3> QED
      BY <3>1, <3>2 DEF NoDangling
  <2>6. ASSUME NEW c \in Client, NEW x \in Case, NEW a \in Alert, CaseAddAlert(c, x, a)
        PROVE  NoDangling'
    <3>1. /\ UNCHANGED <<live, refs>>
          /\ links' = IF {x, a} \subseteq live THEN links \cup {<<x, a>>} ELSE links
      BY <2>6 DEF CaseAddAlert
    <3> QED
      BY <3>1 DEF NoDangling
  <2>7. CASE UNCHANGED <<live, refs, links>>
    BY <2>7 DEF NoDangling
  <2>8. ASSUME NEW c \in Client, Handler(c)
        PROVE  NoDangling'
    BY <2>8, <2>1, <2>2, <2>3, <2>4, <2>6, <2>7
    DEF Handler, AgentUpdate, RuleUpdate, AlertUpdate, AlertResolve, AlertAssign,
        CaseUpdate, StatementFails, rows
  <2> QED
    BY <2>5, <2>7, <2>8
    DEF Next, Accept, Answer, Counts, StatsQuery, StatsQueryFails, StatsAnswer,
        Shutdown, ExitDrained, ExitForced, Crash, Exit, Start, rows, vars
<1> QED
  BY <1>1, <1>2, StoreTypeCorrect, PTL DEF Spec

-----------------------------------------------------------------------------
(* What the dashboard counts *)

\* The counts that a later one is compared with.
Whole == {1, 3, 4, 6, 8}

\* A row counted since, or one that has come to be counted, was written since.
StatsInv ==
  /\ mark <= writes
  /\ holes \/ \A k \in Whole : k <= Len(dash) =>
       Cardinality(Counted[k] \cap live) <= dash[k] + (writes - mark)
  /\ StatsAgree

\* A statement writes one row, and nothing else changes what the queries read.
OneRow ==
  /\ writes' = writes + 1
  /\ \E x \in Id : /\ live' \subseteq live \cup {x}
                   /\ \A y \in Id \ {x} : status'[y] = status[y]
  /\ UNCHANGED stats

NoRow == UNCHANGED <<live, status, writes>>

LEMMA DeleteRowWrites ==
  ASSUME TypeOK, NEW c \in Client, NEW x \in Id, DeleteRow(c, x)
  PROVE  OneRow
  BY DEF TypeOK, DeleteRow, Request, Ready, OneRow

LEMMA SetStatusWrites ==
  ASSUME TypeOK, NEW x \in Id, NEW s, SetStatus(x, s), live' = live,
         writes' = writes + 1, UNCHANGED stats
  PROVE  OneRow
  BY DEF TypeOK, SetStatus, OneRow

LEMMA InsertWrites ==
  ASSUME TypeOK, NEW x \in Id, NEW s, Insert(x, s), writes' = writes + 1,
         UNCHANGED stats
  PROVE  OneRow
  BY DEF TypeOK, Insert, OneRow

LEMMA HandlerWrites ==
  ASSUME TypeOK, NEW c \in Client, Handler(c)
  PROVE  OneRow \/ (NoRow /\ UNCHANGED stats)
<1>0. /\ Agent \subseteq Id /\ Rule \subseteq Id /\ Alert \subseteq Id
      /\ Case \subseteq Id
  BY DEF Id
<1>1. ASSUME NEW x \in Agent,
             \/ AgentCreate(c, x) \/ AgentDelete(c, x)
             \/ \E s \in Status \cup {None} : AgentUpdate(c, x, s)
      PROVE  OneRow
  BY <1>0, <1>1, DeleteRowWrites, SetStatusWrites, InsertWrites
  DEF AgentCreate, AgentDelete, AgentUpdate, Request, Ready
<1>2. ASSUME NEW x \in Rule,
             \/ RuleDelete(c, x)
             \/ \E s \in Status : RuleCreate(c, x, s)
             \/ \E s \in Status \cup {None} : RuleUpdate(c, x, s)
      PROVE  OneRow
  BY <1>0, <1>2, DeleteRowWrites, SetStatusWrites, InsertWrites
  DEF RuleCreate, RuleDelete, RuleUpdate, Request, Ready
<1>3. ASSUME NEW x \in Alert,
             (\E s \in Status : AlertUpdate(c, x, s)) \/ AlertResolve(c, x)
      PROVE  OneRow
  BY <1>0, <1>3, SetStatusWrites DEF AlertUpdate, AlertResolve, Request, Ready
<1>4. ASSUME NEW x \in Alert, NEW u, AlertAssign(c, x, u)
      PROVE  OneRow
  BY <1>0, <1>4 DEF AlertAssign, Request, Ready, OneRow, rows
<1>5. ASSUME NEW x \in Case, CaseCreate(c, x) \/ CaseDelete(c, x)
      PROVE  OneRow
  BY <1>0, <1>5, DeleteRowWrites, InsertWrites DEF CaseCreate, CaseDelete, Request, Ready
<1>6. ASSUME NEW x \in Case, NEW s, NEW u, CaseUpdate(c, x, s, u)
      PROVE  OneRow
  <2>1. live' = live /\ writes' = writes + 1 /\ UNCHANGED stats
    BY <1>6 DEF CaseUpdate, Request, Ready
  <2>2. SetStatus(x, s) \/ status' = status
    BY <1>6 DEF CaseUpdate
  <2>3. CASE status' = status
    BY <1>0, <2>1, <2>3 DEF OneRow
  <2> QED
    BY <1>0, <2>1, <2>2, <2>3, SetStatusWrites
<1>7. ASSUME NEW x \in Case, NEW a \in Alert, CaseAddAlert(c, x, a)
      PROVE  OneRow
  BY <1>0, <1>7 DEF CaseAddAlert, Request, Ready, OneRow
<1>8. ASSUME NEW x \in Id, NEW code, StatementFails(c, x, code)
      PROVE  NoRow /\ UNCHANGED stats
  BY <1>8 DEF StatementFails, Ready, NoRow, rows
<1> QED
  BY <1>1, <1>2, <1>3, <1>4, <1>5, <1>6, <1>7, <1>8 DEF Handler

\* One written row adds at most one to any count.
LEMMA CountGrows ==
  ASSUME TypeOK, OneRow, NEW k \in Whole
  PROVE  /\ Cardinality(Counted[k] \cap live) \in Nat
         /\ Cardinality(Counted[k] \cap live)' \in Nat
         /\ Cardinality(Counted[k] \cap live)' <= Cardinality(Counted[k] \cap live) + 1
<1>1. PICK x \in Id : /\ live' \subseteq live \cup {x}
                      /\ \A y \in Id \ {x} : status'[y] = status[y]
  BY DEF OneRow
<1> DEFINE S == Counted[k] \cap live
           T == Counted'[k] \cap live'
<1>2. T \subseteq S \cup {x}
  <2>1. live \subseteq Id
    BY DEF TypeOK
  <2>2. k = 1 \/ k = 3 \/ k = 4 \/ k = 6 \/ k = 8
    BY DEF Whole
  <2>3. \A y \in live' : y # x => y \in live /\ y \in Id /\ status'[y] = status[y]
    BY <1>1, <2>1
  <2>4. CASE k = 4
    BY <2>3, <2>4 DEF Counted, On
  <2>5. CASE k # 4
    <3>1. Counted'[k] = Counted[k]
      BY <2>2, <2>5 DEF Counted
    <3> QED
      BY <2>3, <3>1
  <2> QED
    BY <2>4, <2>5
<1>3. IsFiniteSet(live)
  BY StoreAssumption, FS_Subset DEF StoreAssumption, TypeOK
<1>4. IsFiniteSet(S)
  BY <1>3, FS_Subset
<1> HIDE DEF S, T
<1>5. /\ IsFiniteSet(S \cup {x}) /\ Cardinality(S) \in Nat
      /\ Cardinality(S \cup {x}) <= Cardinality(S) + 1
  <2>1. Cardinality(S) \in Nat
    BY <1>4, FS_CardinalityType
  <2>2. /\ IsFiniteSet(S \cup {x})
        /\ Cardinality(S \cup {x})
             = IF x \in S THEN Cardinality(S) ELSE Cardinality(S) + 1
    BY <1>4, FS_AddElement
  <2> QED
    BY <2>1, <2>2
<1>6. IsFiniteSet(T) /\ Cardinality(T) <= Cardinality(S \cup {x})
  BY <1>2, <1>5, FS_Subset
<1>7. Cardinality(T) \in Nat /\ Cardinality(S \cup {x}) \in Nat
  BY <1>5, <1>6, FS_CardinalityType
<1>8. Cardinality(T) <= Cardinality(S) + 1
  BY <1>5, <1>6, <1>7
<1> QED
  BY <1>5, <1>7, <1>8 DEF S, T

\* The pairs of a part and its whole.
Pairs == {<<2, 1>>, <<4, 3>>, <<5, 4>>, <<7, 6>>, <<9, 8>>}

LEMMA PartOfWhole ==
  ASSUME TypeOK, NEW p \in Pairs
  PROVE  /\ p[2] \in Whole /\ p[1] \in 1..9 /\ p[2] < p[1]
         /\ Cardinality(Counted[p[1]] \cap live) \in Nat
         /\ Cardinality(Counted[p[2]] \cap live) \in Nat
         /\ Cardinality(Counted[p[1]] \cap live) <= Cardinality(Counted[p[2]] \cap live)
<1>1. p[2] \in Whole /\ p[1] \in 1..9 /\ p[2] < p[1]
  BY DEF Pairs, Whole
<1>2. Counted[p[1]] \subseteq Counted[p[2]]
  <2>1. CASE p = <<2, 1>>
    BY <2>1 DEF Counted, On
  <2>2. CASE p = <<4, 3>>
    BY <2>2 DEF Counted, On
  <2>3. CASE p = <<5, 4>>
    BY <2>3, StoreAssumption DEF StoreAssumption, Counted, On
  <2>4. CASE p = <<7, 6>>
    BY <2>4 DEF Counted, On
  <2>5. CASE p = <<9, 8>>
    BY <2>5 DEF Counted, On
  <2> QED
    BY <2>1, <2>2, <2>3, <2>4, <2>5 DEF Pairs
<1> DEFINE S == Counted[p[1]] \cap live
           T == Counted[p[2]] \cap live
<1>3. Cardinality(S) \in Nat /\ Cardinality(T) \in Nat
  BY CountType
<1>4. S \subseteq T /\ IsFiniteSet(live) /\ T \subseteq live
  BY <1>2, StoreAssumption, FS_Subset DEF StoreAssumption, TypeOK
<1> HIDE DEF S, T
<1>5. IsFiniteSet(T)
  BY <1>4, FS_Subset
<1>6. Cardinality(S) <= Cardinality(T)
  BY <1>4, <1>5, FS_Subset
<1> QED
  BY <1>1, <1>3, <1>6 DEF S, T

\* Nothing was written, and the counts are as they were.
LEMMA StatsQuiet ==
  ASSUME StatsInv, NoRow, UNCHANGED stats
  PROVE  StatsInv'
<1>1. \A k \in Whole : Counted'[k] = Counted[k]
  BY DEF NoRow, Counted, On
<1>2. \A k \in Whole : (Counted[k] \cap live)' = Counted[k] \cap live
  BY <1>1 DEF NoRow
<1> QED
  BY <1>2 DEF StatsInv, StatsAgree, NoRow, stats

LEMMA StatsWrite ==
  ASSUME TypeOK, StatsInv, OneRow
  PROVE  StatsInv'
<1>1. /\ writes' = writes + 1 /\ dash' = dash /\ mark' = mark /\ holes' = holes
      /\ writes \in Nat /\ mark \in Nat /\ dash \in Seq(Nat)
  BY StoreAssumption DEF StoreAssumption, TypeOK, OneRow, stats
<1>2. mark' <= writes'
  BY <1>1 DEF StatsInv
<1>3. ASSUME ~holes, NEW k \in Whole, k <= Len(dash)
      PROVE  Cardinality(Counted[k] \cap live)' <= dash[k] + (writes' - mark)
  <2> DEFINE m == Cardinality(Counted[k] \cap live)
             n == Cardinality(Counted[k] \cap live)'
  <2>1. m \in Nat /\ n \in Nat /\ n <= m + 1
    BY CountGrows
  <2>2. m <= dash[k] + (writes - mark)
    BY <1>3 DEF StatsInv
  <2>3. dash[k] \in Nat
    BY <1>1, <1>3 DEF Whole
  <2> HIDE DEF m, n
  <2>4. n <= dash[k] + (writes' - mark)
    BY <1>1, <2>1, <2>2, <2>3
  <2> QED
    BY <2>4 DEF n
<1>4. StatsAgree'
  <2> SUFFICES ASSUME NEW p \in Pairs, p[1] <= Len(dash), ~holes
               PROVE  dash[p[1]] <= dash[p[2]] + (writes' - mark)
    BY <1>1 DEF StatsAgree, Pairs
  <2>1. dash[p[1]] <= dash[p[2]] + (writes - mark)
    BY DEF StatsInv, StatsAgree, Pairs
  <2>2. dash[p[1]] \in Nat /\ dash[p[2]] \in Nat
    <3>1. p[1] \in 1..Len(dash) /\ p[2] \in 1..Len(dash)
      BY <1>1 DEF Pairs
    <3> QED
      BY <1>1, <3>1
  <2> QED
    BY <1>1, <2>1, <2>2
<1> QED
  BY <1>1, <1>2, <1>3, <1>4 DEF StatsInv

\* The next count is the number of rows there are, and a part is no more than its
\* whole, which has grown by no more than what was written.
LEMMA StatsCount ==
  ASSUME TypeOK, StatsInv, StatsQuery, dash # <<>>
  PROVE  StatsInv'
<1> DEFINE n == Len(dash)
           next == Cardinality(Counted[n + 1] \cap live)
<1>1. /\ UNCHANGED <<live, status, writes, mark, holes>>
      /\ n \in 1..8 /\ dash' = Append(dash, next) /\ dash \in Seq(Nat)
      /\ writes \in Nat /\ mark \in Nat /\ mark <= writes
  <2>1. Len(dash) # 0
    BY EmptySeq DEF TypeOK
  <2> QED
    BY <2>1, StoreAssumption
    DEF StoreAssumption, TypeOK, StatsQuery, Counts, rows, StatsInv
<1>2. next \in Nat
  BY CountType
<1>3. \A k \in Whole : Counted'[k] \cap live' = Counted[k] \cap live
  BY <1>1 DEF Counted, On
<1> HIDE DEF next
<1>4. /\ Len(dash') = n + 1 /\ dash'[n + 1] = next
      /\ \A k \in 1..n : dash'[k] = dash[k] /\ dash[k] \in Nat
  BY <1>1, <1>2, AppendProperties
<1>5. n \in 1..8 /\ writes \in Nat /\ mark \in Nat
  BY <1>1
<1> HIDE DEF n
<1>6. ASSUME ~holes, NEW k \in Whole, k <= n + 1
      PROVE  Cardinality(Counted[k] \cap live) <= dash'[k] + (writes - mark)
  <2>1. k \in 1..(n + 1)
    BY <1>1, <1>6 DEF Whole
  <2>2. CASE k <= n
    <3>1. Cardinality(Counted[k] \cap live) <= dash[k] + (writes - mark)
      BY <1>6, <2>2 DEF StatsInv, n
    <3>2. k \in 1..n
      BY <1>1, <2>1, <2>2
    <3> QED
      BY <1>4, <3>1, <3>2
  <2>3. CASE k = n + 1
    <3>1. Cardinality(Counted[k] \cap live) = next /\ dash'[k] = next
      BY <1>4, <2>3 DEF next
    <3> QED
      BY <1>1, <1>2, <3>1
  <2>4. k <= n \/ k = n + 1
    BY <1>5, <2>1
  <2> QED
    BY <2>2, <2>3, <2>4
<1>7. ASSUME ~holes, NEW p \in Pairs, p[1] <= n + 1
      PROVE  dash'[p[1]] <= dash'[p[2]] + (writes - mark)
  <2>1. p[2] \in Whole /\ p[1] \in 1..9 /\ p[2] < p[1] /\ p[2] \in 1..9
    BY DEF Pairs, Whole
  <2>2. p[2] \in 1..n /\ dash'[p[2]] = dash[p[2]] /\ dash[p[2]] \in Nat
    <3>1. p[2] \in 1..n
      BY <1>5, <1>7, <2>1
    <3> QED
      BY <1>4, <3>1
  <2>3. CASE p[1] <= n
    <3>1. dash[p[1]] <= dash[p[2]] + (writes - mark)
      BY <1>7, <2>3 DEF StatsInv, StatsAgree, Pairs, n
    <3>2. p[1] \in 1..n
      BY <1>1, <2>1, <2>3
    <3> QED
      BY <1>4, <2>2, <3>1, <3>2
  <2>4. CASE p[1] = n + 1
    <3> DEFINE whole == Cardinality(Counted[p[2]] \cap live)
    <3>1. next <= whole /\ whole \in Nat
      BY <2>4, PartOfWhole DEF next
    <3>2. whole <= dash[p[2]] + (writes - mark)
      <4>1. p[2] <= n
        BY <1>5, <2>2
      <4> QED
        BY <1>7, <2>1, <4>1 DEF StatsInv, n
    <3>3. dash'[p[1]] = next
      BY <1>4, <2>4
    <3> HIDE DEF whole
    <3> QED
      BY <1>1, <1>2, <2>2, <3>1, <3>2, <3>3
  <2>5. p[1] <= n \/ p[1] = n + 1
    BY <1>5, <1>7, <2>1
  <2> QED
    BY <2>3, <2>4, <2>5
<1>8. StatsAgree'
  BY <1>1, <1>4, <1>7 DEF StatsAgree, Pairs
<1>9. holes' \/ \A k \in Whole : k <= Len(dash') =>
        Cardinality(Counted'[k] \cap live') <= dash'[k] + (writes' - mark')
  BY <1>1, <1>3, <1>4, <1>6
<1> QED
  BY <1>1, <1>8, <1>9 DEF StatsInv

\* The dashboard's nine counts are not one snapshot, but a part exceeds its whole
\* by no more than the rows written meanwhile (dashboard.go:34-48).
THEOREM StatsCorrect == Spec => []StatsAgree
<1>1. Init => StatsInv
  <2> SUFFICES ASSUME Init
               PROVE  StatsInv
    OBVIOUS
  <2>1. dash = <<>> /\ Len(dash) = 0 /\ mark = 0 /\ writes = 0
    BY EmptySeq DEF Init
  <2> QED
    BY <2>1 DEF StatsInv, StatsAgree, Whole
<1>2. TypeOK /\ StatsInv /\ [Next]_vars => StatsInv'
  <2> SUFFICES ASSUME TypeOK, StatsInv, [Next]_vars
               PROVE  StatsInv'
    OBVIOUS
  <2>0. writes \in Nat /\ mark \in Nat /\ mark <= writes
    BY StoreAssumption DEF StoreAssumption, TypeOK, StatsInv
  <2>1. ASSUME NEW c \in Client, Handler(c)
        PROVE  StatsInv'
    BY <2>1, HandlerWrites, StatsWrite, StatsQuiet
  <2>2. ASSUME NEW x \in Alert, NEW r, AlertInsert(x, r)
        PROVE  StatsInv'
    <3>1. x \in Id /\ Insert(x, "on") /\ writes' = writes + 1 /\ UNCHANGED stats
      BY <2>2 DEF AlertInsert, Id
    <3> QED
      BY <3>1, InsertWrites, StatsWrite
  <2>3. CASE StatsQuery /\ dash = <<>>
    <3>0. Len(dash) = 0 /\ Counted[1] = Agent
      BY <2>3, EmptySeq DEF Counted
    <3>2. Cardinality(Agent \cap live) \in Nat
      BY CountType
    <3>1. Len(dash') = 1 /\ dash'[1] = Cardinality(Agent \cap live)
          /\ mark' = writes /\ writes' = writes /\ live' = live
      <4> DEFINE n == Cardinality(Agent \cap live)
      <4>0. Len(dash) + 1 = 1
        BY <3>0
      <4>1. /\ dash' = Append(<<>>, Cardinality(Counted[1] \cap live))
            /\ mark' = writes /\ writes' = writes /\ live' = live
        <5>1. /\ dash' = Append(dash, Cardinality(Counted[Len(dash) + 1] \cap live))
              /\ mark' = IF dash = <<>> THEN writes ELSE mark
              /\ writes' = writes /\ live' = live
          BY <2>3 DEF StatsQuery, Counts, rows
        <5> QED
          BY <2>3, <4>0, <5>1, Zenon
      <4>2. dash' = Append(<<>>, n) /\ <<>> \in Seq(Nat) /\ Len(<<>>) = 0
        BY <3>0, <4>1, EmptySeq
      <4>3. n \in Nat
        BY <3>2
      <4> HIDE DEF n
      <4>4. Len(dash') = 1 /\ dash'[1] = n
        BY <4>2, <4>3, AppendProperties
      <4> QED
        BY <4>1, <4>4 DEF n
    <3>3. Counted'[1] = Agent
      BY DEF Counted
    <3>4. \A k \in Whole : k <= Len(dash') => k = 1
      BY <3>1 DEF Whole
    <3>5. Cardinality(Counted'[1] \cap live') <= dash'[1] + (writes' - mark')
      BY <2>0, <3>1, <3>2, <3>3
    <3>6. StatsAgree'
      BY <3>1 DEF StatsAgree
    <3>7. mark' <= writes'
      BY <2>0, <3>1
    <3> QED
      BY <3>4, <3>5, <3>6, <3>7 DEF StatsInv
  <2>4. CASE StatsQuery /\ dash # <<>>
    BY <2>4, StatsCount
  <2>5. CASE StatsQueryFails
    <3>1. holes' = TRUE /\ mark' \in {mark, writes} /\ writes' = writes
      BY <2>5 DEF StatsQueryFails, Counts
    <3> QED
      BY <2>0, <3>1 DEF StatsInv, StatsAgree
  <2>6. CASE Forget /\ writes' = writes
    <3>1. dash' = <<>> /\ Len(dash') = 0 /\ mark' = 0 /\ writes' = writes
      BY <2>6, EmptySeq DEF Forget
    <3> QED
      BY <2>0, <3>1 DEF StatsInv, StatsAgree, Whole
  <2>7. StatsAnswer \/ ExitDrained \/ ExitForced \/ Crash => Forget /\ writes' = writes
    BY DEF StatsAnswer, ExitDrained, ExitForced, Crash, Exit
  <2>8. CASE NoRow /\ UNCHANGED stats
    BY <2>8, StatsQuiet
  <2>9. \/ \E c \in Client : Answer(c)
        \/ \E c \in Client \cup {Dashboard} : Accept(c)
        \/ Shutdown \/ Start \/ UNCHANGED vars
        => NoRow /\ UNCHANGED stats
    BY DEF Accept, Answer, Shutdown, Start, vars, rows, stats, NoRow
  <2> QED
    BY <2>1, <2>2, <2>3, <2>4, <2>5, <2>6, <2>7, <2>8, <2>9 DEF Next
<1>3. StatsInv => StatsAgree
  BY DEF StatsInv
<1> QED
  BY <1>1, <1>2, <1>3, StoreTypeCorrect, PTL DEF Spec

-----------------------------------------------------------------------------
(* What the clients are told *)

\* Rows whose 201 is ready to be sent, and rows that nobody was, or will be, told of.
Telling == {reply[c].id : c \in {d \in Client : reply[d] # None /\ reply[d].code = 201}}
Untold == (spent \ Alert) \ (told \cup Telling)

ToldInv ==
  /\ DOMAIN reply = Client
  /\ told \cup Telling \subseteq spent
  /\ Cardinality(Untold) <= Cardinality(Client) * faults

LEMMA UntoldFinite ==
  ASSUME TypeOK
  PROVE  /\ IsFiniteSet(Untold) /\ Cardinality(Untold) \in Nat
         /\ Cardinality(Client) \in Nat /\ faults \in Nat
<1>1. spent \in SUBSET Id /\ IsFiniteSet(Id) /\ IsFiniteSet(Client) /\ faults \in Nat
  BY StoreAssumption DEF StoreAssumption, TypeOK
<1>2. IsFiniteSet(spent) /\ Untold \in SUBSET spent
  BY <1>1, FS_Subset DEF Untold
<1>3. IsFiniteSet(Untold)
  BY <1>2, FS_Subset
<1> QED
  BY <1>1, <1>3, FS_CardinalityType

\* Nobody is left untold who was not before.
LEMMA ToldQuiet ==
  ASSUME TypeOK, ToldInv, DOMAIN reply' = Client, told' \cup Telling' \subseteq spent',
         Untold' \subseteq Untold, faults' \in {faults, faults + 1}
  PROVE  ToldInv'
<1> DEFINE k == Cardinality(Client)
           m == Cardinality(Untold)
           n == Cardinality(Untold')
<1>1. k \in Nat /\ m \in Nat /\ faults \in Nat /\ m <= k * faults
  BY UntoldFinite DEF ToldInv
<1>2. IsFiniteSet(Untold) /\ Untold' \in SUBSET Untold
  BY UntoldFinite
<1>3. IsFiniteSet(Untold') /\ n <= m
  BY <1>2, FS_Subset
<1>4. n \in Nat
  BY <1>3, FS_CardinalityType
<1> HIDE DEF k, m, n
<1>5. k * faults \in Nat /\ k * (faults + 1) = k * faults + k
  BY <1>1
<1>6. n <= k * faults'
  <2> DEFINE now == k * faults
  <2>1. now \in Nat /\ n <= now /\ n <= now + k
    BY <1>1, <1>3, <1>4, <1>5
  <2>2. k * faults' = now \/ k * faults' = now + k
    BY <1>5
  <2> HIDE DEF now
  <2> QED
    BY <2>1, <2>2
<1> QED
  BY <1>6 DEF ToldInv, k, n

\* A request has been to the database.  What was inserted is in its answer, unless
\* the database's reply was lost.
Stated(c) ==
  /\ told' = told
  /\ \E x \in Id, code \in {200, 201, 404, 500} :
       /\ Ready(c, code, x)
       /\ \/ /\ spent' = IF code = 201 THEN spent \cup {x} ELSE spent
             /\ faults' \in {faults, faults + 1}
          \/ /\ code = 500 /\ spent' = spent \cup {x}
             /\ faults' = faults + 1

LEMMA HandlerStates ==
  ASSUME TypeOK, NEW c \in Client, Handler(c)
  PROVE  Stated(c)
<1>0. /\ Agent \subseteq Id /\ Rule \subseteq Id /\ Alert \subseteq Id
      /\ Case \subseteq Id
  BY DEF Id
<1>1. ASSUME NEW x \in Id, NEW code \in {200, 404, 500}, NEW error \in {404, 500},
             Request(c, code, error, x), spent' = spent
      PROVE  Stated(c)
  <2>1. \E k \in {code, error} : Ready(c, k, x)
    BY <1>1 DEF Request
  <2>2. told' = told /\ faults' \in {faults, faults + 1}
    BY <1>1 DEF Request, Ready
  <2>3. \A k \in {code, error} : k # 201 /\ k \in {200, 201, 404, 500}
    OBVIOUS
  <2> QED
    BY <1>1, <2>1, <2>2, <2>3 DEF Stated
<1>2. ASSUME NEW x \in Id, Request(c, 201, 500, x), spent' = spent \cup {x}
      PROVE  Stated(c)
  <2>1. told' = told
    BY <1>2 DEF Request, Ready
  <2>2. CASE Ready(c, 201, x) /\ UNCHANGED faults
    BY <1>2, <2>1, <2>2 DEF Stated
  <2>3. CASE Ready(c, 500, x) /\ faults' = faults + 1
    BY <1>2, <2>1, <2>3 DEF Stated
  <2> QED
    BY <1>2, <2>2, <2>3 DEF Request
<1>3. ASSUME NEW x \in Id, NEW b \in BOOLEAN, Request(c, Code(b), 404, x),
             spent' = spent
      PROVE  Stated(c)
  <2>1. Code(b) \in {200, 404, 500}
    BY DEF Code
  <2> QED
    BY <1>1, <1>3, <2>1
<1>4. ASSUME NEW x \in Id, DeleteRow(c, x)
      PROVE  Stated(c)
  <2>1. \E b \in BOOLEAN : Request(c, Code(b), 404, x)
    BY <1>4 DEF DeleteRow
  <2> QED
    BY <1>3, <1>4, <2>1 DEF DeleteRow
<1>5. ASSUME NEW x \in Id, NEW s, \/ AgentCreate(c, x) \/ RuleCreate(c, x, s)
                                  \/ CaseCreate(c, x)
      PROVE  Stated(c)
  BY <1>2, <1>5 DEF AgentCreate, RuleCreate, CaseCreate, Insert
<1>6. ASSUME NEW x \in Id, NEW s, NEW u,
             \/ AgentUpdate(c, x, s) \/ RuleUpdate(c, x, s) \/ AlertUpdate(c, x, s)
             \/ AlertResolve(c, x) \/ AlertAssign(c, x, u) \/ CaseUpdate(c, x, s, u)
      PROVE  Stated(c)
  <2>1. (x \in live) \in BOOLEAN /\ (x \in live /\ u # Stranger) \in BOOLEAN
    OBVIOUS
  <2> QED
    BY <1>3, <1>6, <2>1
    DEF AgentUpdate, RuleUpdate, AlertUpdate, AlertResolve, AlertAssign, CaseUpdate, rows
<1>7. ASSUME NEW x \in Id, NEW a, CaseAddAlert(c, x, a)
      PROVE  Stated(c)
  BY <1>1, <1>7 DEF CaseAddAlert
<1>8. ASSUME NEW x \in Id, NEW code \in {404, 500}, StatementFails(c, x, code)
      PROVE  Stated(c)
  <2>1. Ready(c, code, x) /\ spent' = spent /\ told' = told /\ faults' = faults + 1
    BY <1>8 DEF StatementFails, Ready, rows
  <2>2. code # 201 /\ code \in {200, 201, 404, 500}
    OBVIOUS
  <2> QED
    BY <2>1, <2>2 DEF Stated
<1> QED
  <2>1. ASSUME NEW x \in Agent,
               \/ AgentCreate(c, x) \/ AgentDelete(c, x)
               \/ \E s \in Status \cup {None} : AgentUpdate(c, x, s)
        PROVE  Stated(c)
    BY <1>0, <1>4, <1>5, <1>6, <2>1 DEF AgentDelete
  <2>2. ASSUME NEW x \in Rule,
               \/ RuleDelete(c, x)
               \/ \E s \in Status : RuleCreate(c, x, s)
               \/ \E s \in Status \cup {None} : RuleUpdate(c, x, s)
        PROVE  Stated(c)
    BY <1>0, <1>4, <1>5, <1>6, <2>2 DEF RuleDelete
  <2>3. ASSUME NEW x \in Alert,
               \/ \E s \in Status : AlertUpdate(c, x, s)
               \/ AlertResolve(c, x)
               \/ \E u \in User \cup {Stranger} : AlertAssign(c, x, u)
        PROVE  Stated(c)
    BY <1>0, <1>6, <2>3
  <2>4. ASSUME NEW x \in Case,
               \/ CaseCreate(c, x) \/ CaseDelete(c, x)
               \/ \E s \in Status \cup {None}, u \in User \cup {Stranger} :
                    CaseUpdate(c, x, s, u)
               \/ \E a \in Alert : CaseAddAlert(c, x, a)
        PROVE  Stated(c)
    BY <1>0, <1>4, <1>5, <1>6, <1>7, <2>4 DEF CaseDelete
  <2> QED
    BY <1>8, <2>1, <2>2, <2>3, <2>4 DEF Handler

\* A fault leaves no more rows untold than there are clients.
LEMMA OneMore ==
  ASSUME TypeOK, ToldInv, NEW c \in Client, NEW x, DOMAIN reply' = Client,
         told' \cup Telling' \subseteq spent', Untold' \subseteq Untold \cup {x},
         faults' = faults + 1
  PROVE  ToldInv'
<1> DEFINE k == Cardinality(Client)
           m == Cardinality(Untold)
           n == Cardinality(Untold')
<1>1. k \in Nat /\ m \in Nat /\ faults \in Nat /\ m <= k * faults
  BY UntoldFinite DEF ToldInv
<1>2. k # 0
  BY StoreAssumption, FS_EmptySet DEF StoreAssumption
<1>3. /\ IsFiniteSet(Untold \cup {x})
      /\ Cardinality(Untold \cup {x}) \in {m, m + 1}
  BY UntoldFinite, FS_AddElement
<1>4. Untold' \in SUBSET (Untold \cup {x})
  OBVIOUS
<1>5. IsFiniteSet(Untold') /\ n <= Cardinality(Untold \cup {x})
  BY <1>3, <1>4, FS_Subset
<1>6. n \in Nat
  BY <1>5, FS_CardinalityType
<1> HIDE DEF k, m, n
<1>7. n <= m + 1
  BY <1>1, <1>3, <1>5, <1>6
<1>8. k * faults \in Nat /\ k * (faults + 1) = k * faults + k
  BY <1>1
<1>9. n <= k * faults'
  <2> DEFINE now == k * faults
  <2>1. now \in Nat /\ m <= now /\ k * faults' = now + k
    BY <1>1, <1>8
  <2> HIDE DEF now
  <2>2. n <= now + k
    BY <1>1, <1>2, <1>6, <1>7, <2>1
  <2> QED
    BY <2>1, <2>2
<1> QED
  BY <1>9 DEF ToldInv, k, n

\* A new row is in its answer until that is sent, or its reply was lost.
LEMMA StatedTold ==
  ASSUME TypeOK, ToldInv, NEW c \in Client, Stated(c)
  PROVE  ToldInv'
<1>1. PICK x \in Id, code \in {200, 201, 404, 500} :
        /\ Ready(c, code, x)
        /\ \/ /\ spent' = IF code = 201 THEN spent \cup {x} ELSE spent
              /\ faults' \in {faults, faults + 1}
           \/ /\ code = 500 /\ spent' = spent \cup {x}
              /\ faults' = faults + 1
  BY DEF Stated
<1> DEFINE new == [code |-> code, id |-> x, had |-> x \in live]
<1>2. new # None /\ new.code = code /\ new.id = x
  <2>1. new \in Response
    BY DEF Response
  <2>2. None \notin Response
    BY StoreAssumption DEF StoreAssumption
  <2> QED
    BY <2>1, <2>2
<1> HIDE DEF new
<1>3. /\ DOMAIN reply' = Client /\ reply'[c] = new /\ reply[c] = None
      /\ \A d \in Client \ {c} : reply'[d] = reply[d]
  BY <1>1 DEF ToldInv, Ready, new
<1>4. Telling' = IF code = 201 THEN Telling \cup {x} ELSE Telling
  BY <1>2, <1>3 DEF Telling
<1>5. told' = told
  BY DEF Stated
<1>6. CASE /\ spent' = IF code = 201 THEN spent \cup {x} ELSE spent
           /\ faults' \in {faults, faults + 1}
  <2>1. told' \cup Telling' \subseteq spent' /\ Untold' \subseteq Untold
    BY <1>4, <1>5, <1>6 DEF ToldInv, Untold
  <2> QED
    BY <1>3, <1>6, <2>1, ToldQuiet
<1>7. CASE code = 500 /\ spent' = spent \cup {x} /\ faults' = faults + 1
  <2>1. told' \cup Telling' \subseteq spent' /\ Untold' \subseteq Untold \cup {x}
    BY <1>4, <1>5, <1>7 DEF ToldInv, Untold
  <2> QED
    BY <1>3, <1>7, <2>1, OneMore
<1> QED
  BY <1>1, <1>6, <1>7

\* What is cut off with an answer is one row for each client at the most.
LEMMA CutOff ==
  ASSUME TypeOK, ToldInv, DOMAIN reply' = Client, Telling' = {},
         told' = told, spent' = spent, faults' = faults + 1
  PROVE  ToldInv'
<1> DEFINE S == {d \in Client : reply[d] # None /\ reply[d].code = 201}
           f == [c \in S |-> reply[c].id]
           k == Cardinality(Client)
           m == Cardinality(Untold)
           n == Cardinality(Untold')
           t == Cardinality(Telling)
<1>1. k \in Nat /\ m \in Nat /\ faults \in Nat /\ m <= k * faults
  BY UntoldFinite DEF ToldInv
<1>2. IsFiniteSet(Client) /\ S \in SUBSET Client
  BY StoreAssumption DEF StoreAssumption
<1>3. IsFiniteSet(S) /\ Cardinality(S) \in Nat /\ Cardinality(S) <= k
  <2>1. IsFiniteSet(S) /\ Cardinality(S) <= k
    BY <1>2, FS_Subset
  <2> QED
    BY <2>1, FS_CardinalityType
<1>4. f \in Surjection(S, Telling)
  BY DEF Surjection, Telling
<1>5. IsFiniteSet(Telling) /\ t <= Cardinality(S)
  BY <1>3, <1>4, FS_Surjection
<1>6. t \in Nat
  BY <1>5, FS_CardinalityType
<1>7. IsFiniteSet(Untold \cup Telling) /\ Cardinality(Untold \cup Telling) <= m + t
  <2>1. IsFiniteSet(Untold) /\ IsFiniteSet(Untold \cap Telling)
    BY UntoldFinite, FS_Subset
  <2>2. Cardinality(Untold \cap Telling) \in Nat
    BY <2>1, FS_CardinalityType
  <2>3. /\ IsFiniteSet(Untold \cup Telling)
        /\ Cardinality(Untold \cup Telling) = m + t - Cardinality(Untold \cap Telling)
    BY <1>5, <2>1, FS_Union
  <2> HIDE DEF m, t
  <2> QED
    BY <1>1, <1>6, <2>2, <2>3
<1>8. Untold' \in SUBSET (Untold \cup Telling)
  BY DEF Untold
<1>9. IsFiniteSet(Untold') /\ n <= Cardinality(Untold \cup Telling)
  BY <1>7, <1>8, FS_Subset
<1>10. n \in Nat /\ Cardinality(Untold \cup Telling) \in Nat
  BY <1>7, <1>9, FS_CardinalityType
<1> HIDE DEF S, f, k, m, n, t
<1>11. k * faults \in Nat /\ k * (faults + 1) = k * faults + k
  BY <1>1
<1>12. n <= k * faults'
  BY <1>1, <1>3, <1>5, <1>6, <1>7, <1>9, <1>10, <1>11
<1> QED
  BY <1>12 DEF ToldInv, k, n

\* A 201 is never sent for a row that was not written, and for each row whose creator
\* is never told there was a lost reply of the database, a crash, or the end of a
\* shutdown's five seconds; none of these leaves more of them than there are clients.
THEOREM CreatedCorrect == Spec => []CreatedIsTold
<1>1. Init => ToldInv
  <2> SUFFICES ASSUME Init
               PROVE  ToldInv
    OBVIOUS
  <2>1. /\ told = {} /\ spent = {} /\ faults = 0 /\ DOMAIN reply = Client
        /\ \A c \in Client : reply[c] = None
    BY DEF Init
  <2>2. Telling = {} /\ Untold = {}
    BY <2>1 DEF Telling, Untold
  <2>3. Cardinality(Client) \in Nat /\ Cardinality({}) = 0
    BY StoreAssumption, FS_CardinalityType, FS_EmptySet DEF StoreAssumption
  <2>4. Cardinality(Client) * faults = 0
    BY <2>1, <2>3
  <2> QED
    BY <2>1, <2>2, <2>3, <2>4 DEF ToldInv
<1>2. TypeOK /\ ToldInv /\ [Next]_vars => ToldInv'
  <2> SUFFICES ASSUME TypeOK, ToldInv, [Next]_vars
               PROVE  ToldInv'
    OBVIOUS
  <2>1. ASSUME NEW c \in Client, Handler(c)
        PROVE  ToldInv'
    BY <2>1, HandlerStates, StatedTold
  <2>2. ASSUME NEW c \in Client, Answer(c)
        PROVE  ToldInv'
    <3>1. /\ reply' = [reply EXCEPT ![c] = None] /\ spent' = spent /\ faults' = faults
          /\ told' = IF reply[c].code = 201 THEN told \cup {reply[c].id} ELSE told
          /\ reply[c] # None
      BY <2>2 DEF Answer, rows
    <3>2. /\ DOMAIN reply' = Client /\ reply'[c] = None
          /\ \A d \in Client \ {c} : reply'[d] = reply[d]
      BY <3>1 DEF ToldInv
    <3>3. told' \cup Telling' = told \cup Telling
      BY <3>1, <3>2 DEF Telling
    <3>4. told' \cup Telling' \subseteq spent' /\ Untold' \subseteq Untold
      BY <3>1, <3>3 DEF ToldInv, Untold
    <3> QED
      BY <3>1, <3>2, <3>4, ToldQuiet
  <2>3. ASSUME NEW x \in Alert, NEW r, AlertInsert(x, r)
        PROVE  ToldInv'
    <3>1. spent' = spent \cup {x} /\ UNCHANGED <<reply, told, faults>>
      BY <2>3 DEF AlertInsert, Insert
    <3>2. Telling' = Telling
      BY <3>1 DEF Telling
    <3>3. /\ DOMAIN reply' = Client /\ told' \cup Telling' \subseteq spent'
          /\ Untold' \subseteq Untold
      BY <3>1, <3>2 DEF ToldInv, Untold
    <3> QED
      BY <3>1, <3>3, ToldQuiet
  <2>4. CASE UNCHANGED <<spent, reply, told>> /\ faults' \in {faults, faults + 1}
    <3>1. Telling' = Telling
      BY <2>4 DEF Telling
    <3>2. /\ DOMAIN reply' = Client /\ told' \cup Telling' \subseteq spent'
          /\ Untold' \subseteq Untold
      BY <2>4, <3>1 DEF ToldInv, Untold
    <3> QED
      BY <2>4, <3>2, ToldQuiet
  <2>5. CASE ExitDrained \/ ExitForced \/ Crash
    <3>0. \A c \in Client : c \notin busy => reply[c] = None
      BY DEF TypeOK
    <3>1. reply' = [c \in Client |-> None] /\ told' = told /\ spent' = spent
      BY <2>5 DEF ExitDrained, ExitForced, Crash, Exit, rows
    <3>2. DOMAIN reply' = Client /\ Telling' = {}
      BY <3>1 DEF Telling
    <3>3. CASE faults' = faults + 1
      BY <3>1, <3>2, <3>3, CutOff
    <3>4. CASE faults' = faults /\ \A c \in Client : reply[c] = None
      <4>1. Telling = {}
        BY <3>4 DEF Telling
      <4>2. told' \cup Telling' \subseteq spent' /\ Untold' \subseteq Untold
        BY <3>1, <3>2, <4>1 DEF ToldInv, Untold
      <4> QED
        BY <3>2, <3>4, <4>2, ToldQuiet
    <3> QED
      BY <2>5, <3>0, <3>3, <3>4 DEF ExitDrained, ExitForced, Crash, Drained
  <2>6. \/ \E c \in Client \cup {Dashboard} : Accept(c)
        \/ StatsQuery \/ StatsQueryFails \/ StatsAnswer
        \/ Shutdown \/ Start \/ UNCHANGED vars
        => UNCHANGED <<spent, reply, told>> /\ faults' \in {faults, faults + 1}
    BY DEF Accept, Counts, StatsQuery, StatsQueryFails, StatsAnswer, Shutdown, Start,
           rows, vars
  <2> QED
    BY <2>1, <2>2, <2>3, <2>4, <2>5, <2>6 DEF Next
<1>3. TypeOK /\ ToldInv => CreatedIsTold
  <2> SUFFICES ASSUME TypeOK, ToldInv
               PROVE  CreatedIsTold
    OBVIOUS
  <2> DEFINE pending == {reply[c].id : c \in {d \in Client : reply[d] # None}}
             untold == (spent \ Alert) \ (told \cup pending)
             m == Cardinality(untold)
             n == Cardinality(Untold)
             k == Cardinality(Client) * faults
  <2>1. untold \in SUBSET Untold
    BY DEF Untold, Telling
  <2>2. IsFiniteSet(Untold) /\ n \in Nat /\ k \in Nat /\ n <= k
    BY UntoldFinite DEF ToldInv
  <2>3. IsFiniteSet(untold) /\ m <= n
    BY <2>1, <2>2, FS_Subset
  <2>4. m \in Nat
    BY <2>3, FS_CardinalityType
  <2> HIDE DEF m, n, k
  <2>5. m <= k
    BY <2>2, <2>3, <2>4
  <2>6. told \subseteq spent
    BY DEF ToldInv
  <2> QED
    BY <2>5, <2>6 DEF CreatedIsTold, m, k
<1> QED
  BY <1>1, <1>2, <1>3, StoreTypeCorrect, PTL DEF Spec
-----------------------------------------------------------------------------
(* What an answer says of the tables *)

\* The answer to a request about row x is as it should be: an error has changed
\* nothing, unless a reply of the database was lost; a success had its row; and a 404
\* in spite of the row is about an alert or a case, or a row that alerts keep, or
\* comes with a fault.
Honest(code, x) ==
  /\ code \in {404, 500} => UNCHANGED rows \/ faults' = faults + 1
  /\ code = 200 => x \in live
  /\ code = 404 /\ x \in live =>
       x \in Alert \cup Case \/ Referenced(x) \/ faults' = faults + 1

\* The answer to c's request is computed, and honest.
Answered(c) ==
  \E code \in {200, 201, 404, 500}, x \in Id :
    /\ reply' = [reply EXCEPT ![c] = [code |-> code, id |-> x, had |-> x \in live]]
    /\ Honest(code, x)

\* With the reply of the database lost, any error is an honest answer.
LEMMA RequestAnswers ==
  ASSUME NEW c \in Client, NEW x \in Id, NEW code \in {200, 201, 404, 500},
         NEW error \in {404, 500}, Request(c, code, error, x), Honest(code, x)
  PROVE  Answered(c)
<1>0. ASSUME NEW k \in {200, 201, 404, 500}, Ready(c, k, x), Honest(k, x)
      PROVE  Answered(c)
  <2>1. reply' = [reply EXCEPT ![c] = [code |-> k, id |-> x, had |-> x \in live]]
    BY <1>0 DEF Ready
  <2> QED
    BY <1>0, <2>1, Zenon DEF Answered
<1>1. CASE Ready(c, code, x)
  BY <1>0, <1>1
<1>2. CASE Ready(c, error, x) /\ faults' = faults + 1
  <2>1. Honest(error, x) /\ error \in {200, 201, 404, 500}
    BY <1>2 DEF Honest
  <2> QED
    BY <1>0, <1>2, <2>1
<1> QED
  <2>1. Ready(c, code, x) \/ (Ready(c, error, x) /\ faults' = faults + 1)
    BY DEF Request
  <2> QED
    BY <1>1, <1>2, <2>1

LEMMA DeleteRowAnswers ==
  ASSUME NEW c \in Client, NEW x \in Id, DeleteRow(c, x)
  PROVE  Answered(c)
<1> DEFINE gone == x \in live /\ ~Referenced(x)
<1>1. /\ Request(c, Code(gone), 404, x)
      /\ live' = IF gone THEN live \ {x} ELSE live
      /\ links' = {l \in links : l[1] # x \/ ~gone}
      /\ UNCHANGED <<spent, status, refs>>
  BY DEF DeleteRow
<1>2. ~gone => UNCHANGED rows
  BY <1>1 DEF rows
<1>3. Code(gone) \in {200, 404} /\ (Code(gone) = 200 <=> gone)
  BY DEF Code
<1>4. Honest(Code(gone), x)
  BY <1>2, <1>3 DEF Honest
<1> HIDE DEF gone
<1> QED
  BY <1>1, <1>3, <1>4, RequestAnswers

\* An update, of a row or of none, for which the handler looks at RowsAffected.
LEMMA UpdateAnswers ==
  ASSUME NEW c \in Client, NEW x \in Id, NEW done \in BOOLEAN, done => x \in live,
         x \in live /\ ~done => x \in Alert \cup Case,
         Request(c, Code(done), 404, x), ~done => UNCHANGED rows
  PROVE  Answered(c)
<1>1. Code(done) \in {200, 404} /\ (Code(done) = 200 <=> done)
  BY DEF Code
<1>2. Honest(Code(done), x)
  BY <1>1 DEF Honest
<1> QED
  BY <1>1, <1>2, RequestAnswers

LEMMA HandlerAnswers ==
  ASSUME NEW c \in Client, Handler(c)
  PROVE  Answered(c)
<1>0. /\ Agent \subseteq Id /\ Rule \subseteq Id /\ Alert \subseteq Id /\ Case \subseteq Id
  BY DEF Id
<1>1. ASSUME NEW x \in Id, Request(c, 201, 500, x)
      PROVE  Answered(c)
  BY <1>1, RequestAnswers DEF Honest
<1>2. ASSUME NEW x \in Agent \cup Rule \cup Alert, NEW s,
             Request(c, Code(x \in live), 404, x), SetStatus(x, s),
             UNCHANGED <<live, spent, refs, links>>
      PROVE  Answered(c)
  <2>1. x \notin live => UNCHANGED rows
    BY <1>2 DEF SetStatus, rows
  <2>2. x \in Id /\ (x \in live) \in BOOLEAN
    BY <1>0
  <2>3. CASE x \in live
    BY <1>2, <2>2, <2>3, RequestAnswers DEF Code, Honest
  <2>4. CASE x \notin live
    BY <1>2, <2>1, <2>2, <2>4, RequestAnswers DEF Code, Honest
  <2> QED
    BY <2>3, <2>4
<1>3. ASSUME NEW x \in Alert, NEW u, AlertAssign(c, x, u)
      PROVE  Answered(c)
  BY <1>0, <1>3, UpdateAnswers DEF AlertAssign
<1>4. ASSUME NEW x \in Case, NEW s, NEW u, CaseUpdate(c, x, s, u)
      PROVE  Answered(c)
  <2>1. ~(x \in live /\ u # Stranger) => UNCHANGED rows
    BY <1>4 DEF CaseUpdate, SetStatus, rows
  <2> QED
    BY <1>0, <1>4, <2>1, UpdateAnswers DEF CaseUpdate
<1>5. ASSUME NEW x \in Case, NEW a \in Alert, CaseAddAlert(c, x, a)
      PROVE  Answered(c)
  <2>1. CASE {x, a} \subseteq live
    <3>1. Request(c, 200, 500, x) /\ Honest(200, x)
      BY <1>5, <2>1 DEF CaseAddAlert, Honest
    <3> QED
      BY <1>0, <3>1, RequestAnswers
  <2>2. CASE ~({x, a} \subseteq live)
    <3>1. Request(c, 500, 500, x) /\ Honest(500, x)
      BY <1>5, <2>2 DEF CaseAddAlert, Honest, rows
    <3> QED
      BY <1>0, <3>1, RequestAnswers
  <2> QED
    BY <2>1, <2>2
<1>6. ASSUME NEW x \in Id, NEW code \in {404, 500}, StatementFails(c, x, code)
      PROVE  Answered(c)
  <2>1. /\ reply' = [reply EXCEPT ![c] = [code |-> code, id |-> x, had |-> x \in live]]
        /\ Honest(code, x)
    BY <1>6 DEF StatementFails, Ready, Honest
  <2>2. code \in {200, 201, 404, 500}
    OBVIOUS
  <2> QED
    BY <2>1, <2>2, Zenon DEF Answered
<1>7. ASSUME NEW x \in Id, AgentDelete(c, x) \/ RuleDelete(c, x) \/ CaseDelete(c, x)
      PROVE  Answered(c)
  BY <1>7, DeleteRowAnswers DEF AgentDelete, RuleDelete, CaseDelete
<1> QED
  BY <1>0, <1>1, <1>2, <1>3, <1>4, <1>5, <1>6, <1>7
  DEF Handler, AgentCreate, AgentUpdate, RuleCreate, RuleUpdate, AlertUpdate,
      AlertResolve, CaseCreate

\* When an answer is computed it is honest.
HonestStep ==
  \A c \in Client : reply[c] = None /\ reply'[c] # None =>
    Honest(reply'[c].code, reply'[c].id)
AnswersHonest == [][HonestStep]_vars

\* An error has changed nothing, but for a reply of the database that was lost: it
\* is taken for a failed statement (agents.go:74, cases.go:93, rules.go:78).  A success
\* had its row; and this is how far the answers for broken references go
\* (agents.go:118, alerts.go:124, rules.go:125): an existing row is answered 404 only
\* if alerts refer to it, if it is an alert or a case, which can be given to a
\* stranger, or if the statement failed or its reply was lost.
THEOREM AnswersCorrect == Spec => AnswersHonest
<1> DEFINE Inv == DOMAIN reply = Client
<1>1. Init => Inv
  BY DEF Init
<1>2. Inv /\ [Next]_vars => Inv' /\ HonestStep
  <2> USE DEF HonestStep
  <2> DEFINE Goal == DOMAIN reply' = Client /\ HonestStep
  <2> SUFFICES ASSUME DOMAIN reply = Client, [Next]_vars
               PROVE  Goal
    OBVIOUS
  <2>1. ASSUME NEW c \in Client, Handler(c)
        PROVE  Goal
    <3>1. PICK code \in {200, 201, 404, 500}, x \in Id :
            /\ reply' = [reply EXCEPT ![c] =
                           [code |-> code, id |-> x, had |-> x \in live]]
            /\ Honest(code, x)
      BY <2>1, HandlerAnswers DEF Answered
    <3>2. \A d \in Client : d # c => reply'[d] = reply[d]
      BY <3>1
    <3>3. reply'[c].code = code /\ reply'[c].id = x
      BY <3>1
    <3> QED
      BY <3>1, <3>2, <3>3
  <2>2. ASSUME NEW c \in Client, Answer(c)
        PROVE  Goal
    BY <2>2 DEF Answer
  <2>3. CASE ExitDrained \/ ExitForced \/ Crash
    BY <2>3 DEF ExitDrained, ExitForced, Crash, Exit
  <2>4. CASE UNCHANGED reply
    BY <2>4
  <2>5. \/ \E x \in Alert, r \in SUBSET (Agent \cup Rule) : AlertInsert(x, r)
        \/ \E c \in Client \cup {Dashboard} : Accept(c)
        \/ StatsQuery \/ StatsQueryFails \/ StatsAnswer
        \/ Shutdown \/ Start \/ UNCHANGED vars
        => UNCHANGED reply
    BY DEF AlertInsert, Accept, Counts, StatsQuery, StatsQueryFails, StatsAnswer,
           Shutdown, Start, vars
  <2> QED
    BY <2>1, <2>2, <2>3, <2>4, <2>5 DEF Next
<1> HIDE DEF Inv
<1> QED
  BY <1>1, <1>2, PTL DEF Spec, AnswersHonest
=============================================================================
