---------------------------- MODULE ManagerStore ----------------------------
(***************************************************************************)
(* The manager's REST handlers over its Postgres tables, for one tenant.     *)
(* Each handler runs one SQL statement, which is atomic, and then answers;    *)
(* the dashboard runs nine.  Requests run concurrently, the database's reply  *)
(* may be lost after the commit, and the process may be stopped or may crash   *)
(* between a statement and its answer.                                        *)
(***************************************************************************)
EXTENDS Integers, Sequences, FiniteSets

CONSTANTS
  Agent, Rule, Alert, Case,  \* identities of the rows of each table
  Critical,    \* the alerts of severity critical
  User,        \* rows of the users table
  Stranger,    \* a user id that has no row
  Client,      \* requests that may be in flight at the same time
  Dashboard,   \* the dashboard's request, which is one more
  None,        \* NULL, an omitted field, no answer pending
  MaxWrites,   \* bound on the statements that write
  MaxFaults    \* bound on crashes, failed statements and lost replies

Id == Agent \cup Rule \cup Alert \cup Case

\* "on" is active for an agent, enabled for a rule, open for an alert or a case;
\* "off" is any other status.
Status == {"on", "off"}

\* What is kept of an answer: its code, the row it is about, whether there was one.
Response == [code : {200, 201, 404, 500}, id : Id, had : BOOLEAN]

ASSUME StoreAssumption ==
  /\ IsFiniteSet(Id) /\ IsFiniteSet(Client)
  /\ (Agent \cup Rule) \cap (Alert \cup Case) = {} /\ Alert \cap Case = {}
  /\ Critical \subseteq Alert
  /\ Stranger \notin User /\ Dashboard \notin Client
  /\ None \notin Status \cup Response
  /\ MaxWrites \in Nat /\ MaxFaults \in Nat

VARIABLES
  server,      \* up, draining, down
  live,        \* the rows there are
  spent,       \* identities ever inserted
  status,      \* column status, or enabled
  refs,        \* columns rule_id, agent_id
  links,       \* table case_alerts
  busy,        \* requests accepted and not yet answered
  reply,       \* answers computed and not yet sent
  told,        \* history: identities some client was sent in a 201
  dash,        \* the counts of the dashboard request in flight, as far as they go
  mark,        \* history: the number of writes when the first of them was made
  holes,       \* history: one of its queries failed
  writes, faults

vars == <<server, busy, live, spent, status, refs, links, reply, told,
          dash, mark, holes, writes, faults>>
rows == <<live, spent, status, refs, links>>
stats == <<dash, mark, holes>>

Init ==
  /\ server = "up" /\ busy = {}
  /\ live = {} /\ spent = {} /\ links = {} /\ told = {}
  /\ status = [x \in Id |-> "off"]
  /\ refs = [a \in Alert |-> {}]
  /\ reply = [c \in Client |-> None]
  /\ dash = <<>> /\ mark = 0 /\ holes = FALSE
  /\ writes = 0 /\ faults = 0

-----------------------------------------------------------------------------
(* What the handlers have in common *)

\* The listener hands a request to its handler; from then on a shutdown waits for it.
Accept(c) ==
  /\ server = "up" /\ c \notin busy
  /\ busy' = busy \cup {c}
  /\ UNCHANGED <<server, rows, reply, told, stats, writes, faults>>

\* c's handler has the answer ready.
Ready(c, code, x) ==
  /\ c \in busy /\ reply[c] = None
  /\ reply' = [reply EXCEPT ![c] = [code |-> code, id |-> x, had |-> x \in live]]
  /\ UNCHANGED <<server, busy, told, stats>>

\* A request gets to its statement, which is carried out.  The handler answers with
\* the code, or as it does for an error if the database's reply is lost.
Request(c, code, error, x) ==
  /\ writes < MaxWrites /\ writes' = writes + 1
  /\ \/ Ready(c, code, x) /\ UNCHANGED faults
     \/ Ready(c, error, x) /\ faults < MaxFaults /\ faults' = faults + 1

\* RowsAffected is all they look at; an error leaves it at zero.
Code(affected) == IF affected THEN 200 ELSE 404

\* mutant: the COALESCE is forgotten
CoalesceNot(new, old) == new
Coalesce(new, old) == IF new = None THEN old ELSE new

Insert(x, s) ==
  /\ x \notin spent
  /\ live' = live \cup {x} /\ spent' = spent \cup {x}
  /\ status' = [status EXCEPT ![x] = s]

\* mutant: alerts.agent_id is not a foreign key
ReferencedByRule(x) == x \in Rule /\ \E a \in live \cap Alert : x \in refs[a]
\* alerts.rule_id and alerts.agent_id keep the row they point to.
Referenced(x) == \E a \in live \cap Alert : x \in refs[a]

SetStatus(x, s) ==
  status' = IF x \in live THEN [status EXCEPT ![x] = Coalesce(s, @)] ELSE status

DeleteRow(c, x) ==
  LET gone == x \in live /\ ~Referenced(x)
  IN  /\ Request(c, Code(gone), 404, x)
      /\ live' = IF gone THEN live \ {x} ELSE live
      /\ links' = {l \in links : l[1] # x \/ ~gone}
      /\ UNCHANGED <<spent, status, refs>>

-----------------------------------------------------------------------------
(* Agents *)

AgentCreate(c, x) ==
  /\ Request(c, 201, 500, x)
  /\ Insert(x, "off")
  /\ UNCHANGED <<refs, links>>

AgentUpdate(c, x, s) ==
  /\ Request(c, Code(x \in live), 404, x)
  /\ SetStatus(x, s)
  /\ UNCHANGED <<live, spent, refs, links>>

AgentDelete(c, x) == DeleteRow(c, x)

-----------------------------------------------------------------------------
(* Rules *)

RuleCreate(c, x, enabled) ==
  /\ Request(c, 201, 500, x)
  /\ Insert(x, enabled)
  /\ UNCHANGED <<refs, links>>

RuleUpdate(c, x, enabled) ==
  /\ Request(c, Code(x \in live), 404, x)
  /\ SetStatus(x, enabled)
  /\ UNCHANGED <<live, spent, refs, links>>

RuleDelete(c, x) == DeleteRow(c, x)

-----------------------------------------------------------------------------
(* Alerts *)

\* Whatever fills the table; the rule and the agent must exist, or be NULL.
AlertInsert(x, r) ==
  /\ r \subseteq live /\ Cardinality(r \cap Rule) <= 1 /\ Cardinality(r \cap Agent) <= 1
  /\ writes < MaxWrites /\ writes' = writes + 1
  /\ Insert(x, "on")
  /\ refs' = [refs EXCEPT ![x] = r]
  /\ UNCHANGED <<server, busy, links, reply, told, stats, faults>>

\* A status left out of the body is the empty string, hence "off".
AlertUpdate(c, x, s) ==
  /\ Request(c, Code(x \in live), 404, x)
  /\ SetStatus(x, s)
  /\ UNCHANGED <<live, spent, refs, links>>

\* An assignee without a row violates the foreign key: nothing is affected.
AlertAssign(c, x, u) ==
  /\ Request(c, Code(x \in live /\ u # Stranger), 404, x)
  /\ UNCHANGED rows

AlertResolve(c, x) ==
  /\ Request(c, Code(x \in live), 404, x)
  /\ SetStatus(x, "off")
  /\ UNCHANGED <<live, spent, refs, links>>

-----------------------------------------------------------------------------
(* Cases *)

CaseCreate(c, x) ==
  /\ Request(c, 201, 500, x)
  /\ Insert(x, "on")
  /\ UNCHANGED <<refs, links>>

CaseUpdate(c, x, s, u) ==
  /\ Request(c, Code(x \in live /\ u # Stranger), 404, x)
  /\ IF u # Stranger THEN SetStatus(x, s) ELSE UNCHANGED status
  /\ UNCHANGED <<live, spent, refs, links>>

\* The links of the case go with it (ON DELETE CASCADE).
CaseDelete(c, x) == DeleteRow(c, x)

CaseAddAlert(c, x, a) ==
  LET ok == {x, a} \subseteq live
  IN  /\ Request(c, IF ok THEN 200 ELSE 500, 500, x)
      /\ links' = IF ok THEN links \cup {<<x, a>>} ELSE links
      /\ UNCHANGED <<live, spent, status, refs>>

-----------------------------------------------------------------------------
(* Dashboard *)

On(S) == {x \in S : status[x] = "on"}

\* mutant: AND status = 'open' is missing from the query for critical alerts
CountedAnyCritical ==
  <<Agent, On(Agent), Alert, On(Alert), Critical, Case, On(Case), Rule, On(Rule)>>
Counted ==
  <<Agent, On(Agent), Alert, On(Alert), On(Critical),
    Case, On(Case), Rule, On(Rule)>>

\* The next of the nine queries; what is written from the first one on may show in
\* some of the counts and not in others.
Counts(n) ==
  /\ Dashboard \in busy /\ Len(dash) \in 0..8
  /\ dash' = Append(dash, n)
  /\ mark' = IF dash = <<>> THEN writes ELSE mark
  /\ UNCHANGED <<server, busy, rows, reply, told, writes>>

StatsQuery ==
  /\ Counts(Cardinality(Counted[Len(dash) + 1] \cap live))
  /\ UNCHANGED <<holes, faults>>

\* Its error is not looked at and the count stays at zero.
StatsQueryFails ==
  /\ Counts(0)
  /\ faults < MaxFaults /\ faults' = faults + 1
  /\ holes' = TRUE

\* The counts, of however many queries there were results, are forgotten.
Forget == dash' = <<>> /\ mark' = 0 /\ holes' = FALSE

StatsAnswer ==
  /\ Len(dash) = 9
  /\ busy' = busy \ {Dashboard}
  /\ Forget
  /\ UNCHANGED <<server, rows, reply, told, writes, faults>>

-----------------------------------------------------------------------------
(* The server *)

\* Any statement may fail with nothing done: 500 for an insert, 404 for an update or
\* a delete.
StatementFails(c, x, code) ==
  /\ faults < MaxFaults /\ faults' = faults + 1
  /\ Ready(c, code, x)
  /\ UNCHANGED <<rows, writes>>

Answer(c) ==
  /\ reply[c] # None
  /\ told' = IF reply[c].code = 201 THEN told \cup {reply[c].id} ELSE told
  /\ reply' = [reply EXCEPT ![c] = None]
  /\ busy' = busy \ {c}
  /\ UNCHANGED <<server, rows, stats, writes, faults>>

\* SIGINT or SIGTERM: the listener is closed, requests accepted before go on.
Shutdown ==
  /\ server = "up"
  /\ server' = "draining"
  /\ UNCHANGED <<busy, rows, reply, told, stats, writes, faults>>

\* mutant: srv.Close in place of srv.Shutdown
DrainedAtOnce == TRUE
Drained == busy = {}

\* The process is gone, and so is what it had not sent.
Exit ==
  /\ server' = "down" /\ busy' = {}
  /\ reply' = [c \in Client |-> None]
  /\ Forget
  /\ UNCHANGED <<rows, told, writes>>

ExitDrained ==
  /\ server = "draining" /\ Drained
  /\ Exit
  /\ UNCHANGED faults

\* Five seconds have passed.  It counts as a fault if it cuts an answer off.
ExitForced ==
  /\ server = "draining" /\ ~Drained
  /\ Exit
  /\ faults' = IF \E c \in Client : reply[c] # None THEN faults + 1 ELSE faults

Crash ==
  /\ server # "down" /\ faults < MaxFaults
  /\ Exit
  /\ faults' = faults + 1

Start ==
  /\ server = "down"
  /\ server' = "up"
  /\ UNCHANGED <<busy, rows, reply, told, stats, writes, faults>>

-----------------------------------------------------------------------------
Handler(c) ==
  \/ \E x \in Agent :
       \/ AgentCreate(c, x) \/ AgentDelete(c, x)
       \/ \E s \in Status \cup {None} : AgentUpdate(c, x, s)
  \/ \E x \in Rule :
       \/ RuleDelete(c, x)
       \/ \E s \in Status : RuleCreate(c, x, s)
       \/ \E s \in Status \cup {None} : RuleUpdate(c, x, s)
  \/ \E x \in Alert :
       \/ \E s \in Status : AlertUpdate(c, x, s)
       \/ AlertResolve(c, x)
       \/ \E u \in User \cup {Stranger} : AlertAssign(c, x, u)
  \/ \E x \in Case :
       \/ CaseCreate(c, x) \/ CaseDelete(c, x)
       \/ \E s \in Status \cup {None}, u \in User \cup {Stranger} :
            CaseUpdate(c, x, s, u)
       \/ \E a \in Alert : CaseAddAlert(c, x, a)
  \/ \E x \in Id, code \in {404, 500} : StatementFails(c, x, code)

Next ==
  \/ \E c \in Client \cup {Dashboard} : Accept(c)
  \/ \E c \in Client : Handler(c) \/ Answer(c)
  \/ \E x \in Alert, r \in SUBSET (Agent \cup Rule) : AlertInsert(x, r)
  \/ StatsQuery \/ StatsQueryFails \/ StatsAnswer
  \/ Shutdown \/ ExitDrained \/ ExitForced \/ Crash \/ Start

Spec == Init /\ [][Next]_vars

-----------------------------------------------------------------------------
\* Types; every row has a fresh identity, and a status; only requests that were
\* accepted have counts or an answer, and a server that is down has none.
TypeOK ==
  /\ server \in {"up", "draining", "down"}
  /\ spent \subseteq Id /\ live \subseteq spent
  /\ status \in [Id -> Status]
  /\ refs \in [Alert -> SUBSET (Agent \cup Rule)]
  /\ links \subseteq Case \X Alert
  /\ busy \subseteq Client \cup {Dashboard}
  /\ reply \in [Client -> Response \cup {None}]
  /\ \A c \in Client \ busy : reply[c] = None
  /\ told \subseteq Id
  /\ dash \in Seq(Nat) /\ Len(dash) <= 9 /\ mark \in 0..MaxWrites /\ holes \in BOOLEAN
  /\ writes \in 0..MaxWrites /\ faults \in Nat
  /\ dash # <<>> => Dashboard \in busy
  /\ server = "down" => busy = {}

\* Whatever is deleted while alerts and links to it are being added, nothing is
\* left pointing to a row that is gone (init.sql:75-76, 107-108).
NoDangling ==
  /\ \A a \in live \cap Alert : refs[a] \subseteq live
  /\ \A l \in links : l[1] \in live /\ l[2] \in live

\* The dashboard's nine counts (dashboard.go:34-48) are not one snapshot: a part
\* may exceed its whole, but only by as many rows as were written meanwhile.
StatsAgree ==
  \A p \in {<<2, 1>>, <<4, 3>>, <<5, 4>>, <<7, 6>>, <<9, 8>>} :
    p[1] <= Len(dash) =>
      holes \/ dash[p[1]] <= dash[p[2]] + (writes - mark)

\* A 201 is never sent for a row that was not written.  A row whose creator was not
\* told belongs to a request in flight; or it was inserted and the database's reply
\* was lost, which is answered 500 (agents.go:74, rules.go:78, cases.go:93), one row
\* for each such reply; or its request was cut off by a crash or by the five seconds
\* of a shutdown, one row for each client.  An orderly stop leaves none.
CreatedIsTold ==
  LET pending == {reply[c].id : c \in {d \in Client : reply[d] # None}}
      untold == (spent \ Alert) \ (told \cup pending)
  IN  told \subseteq spent /\ Cardinality(untold) <= Cardinality(Client) * faults

\* docs/api-reference.md:63 "404: Not Found".
NotFoundMeansMissing ==
  \A c \in Client : reply[c] # None =>
    (reply[c].code = 404 => ~reply[c].had)
=============================================================================
