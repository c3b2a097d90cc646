---------------------------- MODULE DetectProcess ----------------------------
(***************************************************************************)
(* The detection engine as a process: it reads the rules directory once, file *)
(* by file, while operators may be editing it; then runs the engine and the   *)
(* metrics server until one of them ends or ctrl-c comes.  Which rule matches *)
(* which event is left open here, and modelled in DetectEngine.               *)
(***************************************************************************)
EXTENDS Naturals, FiniteSets

CONSTANTS
  File,        \* names in the rules directory that end in .yml or .yaml
  WellFormed,  \* contents that parse as a rule, a truncated one among them
  Broken,      \* contents that do not
  Absent,      \* content of a file that is not there
  MaxEdits,    \* bound on edits of the directory
  MaxEvents    \* bound on the messages a process receives

ASSUME ProcessAssumption ==
  /\ IsFiniteSet(File)
  /\ Absent \notin WellFormed \cup Broken
  /\ WellFormed \cap Broken = {}
  /\ MaxEdits \in Nat /\ MaxEvents \in Nat

VARIABLES
  disk,        \* what each file holds; the file may also be half written
  edits,       \* edits so far
  phase,       \* off, loading, running
  listed,      \* names read_dir has returned
  loaded,      \* the rule taken from each file
  tasks,       \* of the engine and the metrics server, those still running
  count,       \* the registered counters
  owed,        \* increments of the message being processed still to come
  scrape,      \* the counters the current GET /metrics has read
  last,        \* what the last GET /metrics of this process answered
  written,     \* history: files written, created or removed since load_rules began
  moved        \* history: of these, files created or removed while it ran

vars == <<disk, edits, phase, listed, loaded, tasks, count, owed, scrape,
          last, written, moved>>
dir  == <<disk, edits, written, moved>>
load == <<listed, loaded>>
prom == <<scrape, last>>

Counter == {"events", "alerts", "parse"}
Task == {"engine", "server"}
Nothing == [c \in {} |-> 0]
Fresh == [c \in Counter |-> 0]

Init ==
  /\ disk \in [File -> WellFormed \cup Broken \cup {Absent}]
  /\ edits = 0
  /\ phase = "off"
  /\ listed = {} /\ loaded = [f \in File |-> Absent]
  /\ tasks = {}
  /\ count = Fresh /\ owed = Fresh
  /\ scrape = Nothing /\ last = Nothing
  /\ written = {} /\ moved = {}

-----------------------------------------------------------------------------
(* Operators and their tools, who know nothing of the process *)

\* A file is created, removed, or overwritten in place: a write in several
\* chunks is several of these steps.
Edit(f, c) ==
  /\ edits < MaxEdits /\ disk[f] # c
  /\ disk' = [disk EXCEPT ![f] = c]
  /\ edits' = edits + 1
  /\ written' = IF phase = "off" THEN {} ELSE written \cup {f}
  /\ moved' = IF phase = "loading" /\ Absent \in {disk[f], c}
                THEN moved \cup {f} ELSE moved
  /\ UNCHANGED <<phase, load, tasks, count, owed, prom>>

-----------------------------------------------------------------------------
(* main and load_rules *)

Start ==
  /\ phase = "off"
  /\ phase' = "loading"
  /\ UNCHANGED <<dir, load, tasks, count, owed, prom>>

\* main returns: rules and counters are gone, and whichever task still runs is
\* cancelled.
Exit ==
  /\ phase' = "off"
  /\ listed' = {} /\ loaded' = [f \in File |-> Absent]
  /\ tasks' = {}
  /\ count' = Fresh /\ owed' = Fresh
  /\ scrape' = Nothing /\ last' = Nothing
  /\ written' = {} /\ moved' = {}
  /\ UNCHANGED <<disk, edits>>

\* mutant: what is read is taken for a rule without parsing it
ParsesAny(c) == c # Absent
Parses(c) == c \in WellFormed

\* read_dir returns a file that is there, or was when it looked; a file that
\* cannot be read or parsed is warned about and skipped.
Entry(f) ==
  /\ phase = "loading" /\ f \notin listed
  /\ disk[f] # Absent \/ f \in moved
  /\ listed' = listed \cup {f}
  /\ loaded' = IF Parses(disk[f]) THEN [loaded EXCEPT ![f] = disk[f]] ELSE loaded
  /\ UNCHANGED <<dir, phase, tasks, count, owed, prom>>

\* mutant: the first file that does not parse ends the loop
RestToFirstBad ==
  IF \E f \in listed : loaded[f] = Absent THEN {} ELSE File \ listed
\* What read_dir may still return.
Rest == File \ listed

\* It has returned every file that was there all the time.  A directory that
\* does not exist is one that holds no rules.
Loaded ==
  /\ phase = "loading"
  /\ \A f \in Rest : disk[f] = Absent \/ f \in moved
  /\ phase' = "running"
  /\ tasks' = Task
  /\ moved' = {}
  /\ UNCHANGED <<disk, edits, written, load, count, owed, prom>>

\* load_rules, or StateStore::new before it, returns an error: main does too.
LoadFails == phase = "loading" /\ Exit

\* engine::run or metrics::serve returns, before its loop: no client for the
\* broker, no address to bind.
TaskEnds(t) ==
  /\ t \in tasks
  /\ IF t = "engine" THEN count = Fresh ELSE scrape = Nothing /\ last = Nothing
  /\ tasks' = tasks \ {t}
  /\ UNCHANGED <<dir, phase, load, count, owed, prom>>

\* mutant: join! in place of select!
OverAll == tasks = {}
Over == tasks # Task

Select == phase = "running" /\ Over /\ Exit
CtrlC == phase = "running" /\ Exit

-----------------------------------------------------------------------------
(* The engine's counters, and the handler of GET /metrics *)

Bump(c) == count' = [count EXCEPT ![c] = @ + 1]

\* mutant: events_processed is incremented when the message is done with
CountLast(todo) == owed' = [todo EXCEPT !["events"] = 1] /\ UNCHANGED count
CountFirst(todo) == owed' = todo /\ Bump("events")

Rules == {f \in File : loaded[f] # Absent}

\* A message that does not parse, or one that some of the rules match.
Recv ==
  /\ "engine" \in tasks /\ owed = Fresh /\ count["events"] < MaxEvents
  /\ \/ CountFirst([Fresh EXCEPT !["parse"] = 1])
     \/ \E n \in 0..Cardinality(Rules) : CountFirst([Fresh EXCEPT !["alerts"] = n])
  /\ UNCHANGED <<dir, phase, load, tasks, prom>>

Tally(c) ==
  /\ "engine" \in tasks /\ owed[c] > 0
  /\ owed' = [owed EXCEPT ![c] = @ - 1]
  /\ Bump(c)
  /\ UNCHANGED <<dir, phase, load, tasks, prom>>

\* gather() visits the counters one after the other, in the order of a hash map.
Gather(c) ==
  /\ "server" \in tasks /\ c \notin DOMAIN scrape
  /\ scrape' = [d \in DOMAIN scrape \cup {c} |->
                  IF d = c THEN count[c] ELSE scrape[d]]
  /\ UNCHANGED <<dir, phase, load, tasks, count, owed, last>>

Answer ==
  /\ "server" \in tasks /\ DOMAIN scrape = Counter
  /\ last' = scrape /\ scrape' = Nothing
  /\ UNCHANGED <<dir, phase, load, tasks, count, owed>>

-----------------------------------------------------------------------------
Next ==
  \/ \E f \in File, c \in WellFormed \cup Broken \cup {Absent} : Edit(f, c)
  \/ Start \/ Loaded \/ LoadFails \/ Select \/ CtrlC
  \/ \E f \in File : Entry(f)
  \/ \E t \in Task : TaskEnds(t)
  \/ Recv
  \/ \E c \in Counter : Tally(c) \/ Gather(c)
  \/ Answer

\* The runtime polls main, and reading the directory gets on.
Fairness ==
  /\ WF_vars(Select)
  /\ WF_vars(Loaded \/ \E f \in File : Entry(f))

Spec == Init /\ [][Next]_vars /\ Fairness

-----------------------------------------------------------------------------
\* Types; only rules that parse are loaded, from files that were listed.
TypeOK ==
  /\ disk \in [File -> WellFormed \cup Broken \cup {Absent}]
  /\ phase \in {"off", "loading", "running"}
  /\ listed \subseteq File /\ Rules \subseteq listed
  /\ loaded \in [File -> WellFormed \cup {Absent}]
  /\ tasks \subseteq Task /\ (phase # "running" => tasks = {})
  /\ count \in [Counter -> Nat] /\ owed \in [Counter -> Nat]
  /\ DOMAIN scrape \subseteq Counter /\ DOMAIN last \in {{}, Counter}
  /\ moved \subseteq written /\ written \subseteq File

\* The rules in memory are those on disk, but for files written since this
\* process began to load them: no file is missed because of what became of the
\* others, before it in the listing or while the listing went on
\* (sigma/mod.rs:52-68), and none is taken up later.
StaleOnlyIfWritten ==
  phase = "running" =>
    \A f \in File \ written :
      loaded[f] = IF disk[f] \in WellFormed THEN disk[f] ELSE Absent

\* A scrape is no snapshot: counters move between its reads (metrics.rs:43).
\* What holds across two scrapes of one process is that the later one has seen
\* every message the earlier one's errors and alerts are about.
LaterScrapeCovers ==
  DOMAIN last = Counter /\ "events" \in DOMAIN scrape =>
    /\ last["parse"] <= scrape["events"]
    /\ last["alerts"] <=
         Cardinality(Rules) * (scrape["events"] - last["parse"])

\* Neither half of the process outlives the other: when the engine or the
\* metrics server ends, so does the process, and the supervisor sees it
\* (main.rs:76-80).
HalvesEndTogether == phase = "running" /\ tasks # Task ~> phase = "off"
=============================================================================
