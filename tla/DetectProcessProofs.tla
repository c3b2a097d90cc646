------------------------- MODULE DetectProcessProofs -------------------------
(***************************************************************************)
(* Proofs about the detection process, for any number of rule files, edits   *)
(* and messages: which rules it holds, and what two scrapes tell.             *)
(***************************************************************************)
EXTENDS DetectProcess, FiniteSetTheorems, TLAPS

\* What load_rules makes of a file that nobody writes to.
Taken(f) == IF disk[f] \in WellFormed THEN disk[f] ELSE Absent

\* While the listing goes on, what it has returned is loaded as it is on disk,
\* unless written since, and what it has not is not loaded at all.
LoadInv ==
  /\ disk \in [File -> WellFormed \cup Broken \cup {Absent}]
  /\ loaded \in [File -> WellFormed \cup {Absent}]
  /\ moved \subseteq written
  /\ phase # "loading" => moved = {}
  /\ phase = "off" => listed = {}
  /\ \A f \in File \ listed : loaded[f] = Absent
  /\ phase = "loading" => \A f \in listed \ written : loaded[f] = Taken(f)
  /\ StaleOnlyIfWritten

LEMMA EditKeeps ==
  ASSUME LoadInv, NEW f \in File, NEW c \in WellFormed \cup Broken \cup {Absent},
         Edit(f, c)
  PROVE  LoadInv'
<1>1. /\ disk' = [disk EXCEPT ![f] = c]
      /\ UNCHANGED <<phase, listed, loaded>>
      /\ written' = IF phase = "off" THEN {} ELSE written \cup {f}
      /\ moved' = IF phase = "loading" /\ Absent \in {disk[f], c}
                    THEN moved \cup {f} ELSE moved
  BY DEF Edit, load
<1>2. disk' \in [File -> WellFormed \cup Broken \cup {Absent}]
  BY <1>1 DEF LoadInv
<1>3. moved' \subseteq written' /\ (phase # "loading" => moved' = {})
  BY <1>1 DEF LoadInv
<1>4. \A g \in File \ {f} : disk'[g] = disk[g]
  BY <1>1 DEF LoadInv
<1>5. phase # "off" => written \cup {f} = written'
  BY <1>1
<1>6. phase = "loading" => \A g \in listed \ written' : loaded[g] = Taken(g)'
  BY <1>1, <1>4, <1>5 DEF LoadInv, Taken
<1>7. StaleOnlyIfWritten'
  BY <1>1, <1>4, <1>5 DEF LoadInv, StaleOnlyIfWritten
<1> QED
  BY <1>1, <1>2, <1>3, <1>6, <1>7 DEF LoadInv

LEMMA EntryKeeps ==
  ASSUME LoadInv, NEW f \in File, Entry(f)
  PROVE  LoadInv'
<1>1. /\ phase = "loading" /\ f \notin listed
      /\ listed' = listed \cup {f}
      /\ loaded' = IF disk[f] \in WellFormed
                     THEN [loaded EXCEPT ![f] = disk[f]] ELSE loaded
      /\ UNCHANGED <<disk, written, moved, phase>>
  BY DEF Entry, Parses, dir
<1>2. loaded' \in [File -> WellFormed \cup {Absent}]
  BY <1>1 DEF LoadInv
<1>3. loaded'[f] = Taken(f) /\ \A g \in File \ {f} : loaded'[g] = loaded[g]
  BY <1>1 DEF LoadInv, Taken
<1>4. \A g \in File \ listed' : loaded'[g] = Absent
  BY <1>1, <1>3 DEF LoadInv
<1>5. \A g \in listed' \ written' : loaded'[g] = Taken(g)'
  BY <1>1, <1>3 DEF LoadInv, Taken
<1> QED
  BY <1>1, <1>2, <1>4, <1>5 DEF LoadInv, StaleOnlyIfWritten

LEMMA LoadedKeeps ==
  ASSUME LoadInv, Loaded
  PROVE  LoadInv'
<1>1. /\ phase = "loading" /\ phase' = "running" /\ moved' = {}
      /\ \A f \in File \ listed : disk[f] = Absent \/ f \in moved
      /\ UNCHANGED <<disk, written, listed, loaded>>
  BY DEF Loaded, load, Rest
<1>2. \A f \in File \ written : loaded[f] = Taken(f)
  <2> SUFFICES ASSUME NEW f \in File \ written
               PROVE  loaded[f] = Taken(f)
    OBVIOUS
  <2>1. CASE f \in listed
    BY <1>1, <2>1 DEF LoadInv
  <2>2. CASE f \notin listed
    <3>1. disk[f] = Absent /\ loaded[f] = Absent
      BY <1>1, <2>2 DEF LoadInv
    <3> QED
      BY <3>1 DEF Taken
  <2> QED
    BY <2>1, <2>2
<1>3. StaleOnlyIfWritten'
  BY <1>1, <1>2 DEF StaleOnlyIfWritten, Taken
<1> QED
  BY <1>1, <1>3 DEF LoadInv

LEMMA ExitKeeps ==
  ASSUME LoadInv, Exit
  PROVE  LoadInv'
  BY DEF Exit, LoadInv, StaleOnlyIfWritten

LEMMA LoadCorrect == Spec => []LoadInv
<1>1. Init => LoadInv
  BY DEF Init, LoadInv, StaleOnlyIfWritten
<1>2. LoadInv /\ [Next]_vars => LoadInv'
  <2> SUFFICES ASSUME LoadInv, [Next]_vars
               PROVE  LoadInv'
    OBVIOUS
  <2>1. CASE \E f \in File, c \in WellFormed \cup Broken \cup {Absent} : Edit(f, c)
    BY <2>1, EditKeeps
  <2>2. CASE Start
    BY <2>2 DEF Start, dir, load, LoadInv, StaleOnlyIfWritten
  <2>3. CASE Loaded
    BY <2>3, LoadedKeeps
  <2>4. CASE LoadFails \/ Select \/ CtrlC
    BY <2>4, ExitKeeps DEF LoadFails, Select, CtrlC
  <2>5. CASE \E f \in File : Entry(f)
    BY <2>5, EntryKeeps
  <2>6. CASE UNCHANGED <<disk, written, moved, phase, listed, loaded>>
    BY <2>6 DEF LoadInv, StaleOnlyIfWritten, Taken
  <2> QED
    BY <2>1, <2>2, <2>3, <2>4, <2>5, <2>6
    DEF Next, TaskEnds, Recv, Tally, Gather, Answer, dir, load, vars
<1> QED
  BY <1>1, <1>2, PTL DEF Spec

\* The process runs with the rules that are on disk, but for files written since
\* it began to load them, whatever the order of the listing (sigma/mod.rs:52-68).
THEOREM StaleCorrect == Spec => []StaleOnlyIfWritten
<1>1. LoadInv => StaleOnlyIfWritten
  BY DEF LoadInv
<1> QED
  BY <1>1, LoadCorrect, PTL

-----------------------------------------------------------------------------
\* Messages counted that were not, and will not be, counted as errors.
Quiet == count["events"] - (count["parse"] + owed["parse"])

\* What is read of the counters never exceeds them.
Behind(reading) ==
  \A c \in DOMAIN reading : reading[c] \in Nat /\ reading[c] <= count[c]

\* Each message is counted before its outcome is, which is one error, or at most
\* one alert for each rule; readings lag behind the counters.
CountInv ==
  /\ count \in [Counter -> Nat] /\ owed \in [Counter -> Nat]
  /\ owed["events"] = 0
  /\ count["parse"] + owed["parse"] <= count["events"]
  /\ count["alerts"] + owed["alerts"] <= Cardinality(Rules) * Quiet
  /\ phase # "running" => tasks = {} /\ scrape = Nothing /\ last = Nothing
                            /\ count = Fresh /\ owed = Fresh
  /\ DOMAIN last \in {{}, Counter} /\ DOMAIN scrape \subseteq Counter
  /\ Behind(last) /\ Behind(scrape)
  /\ LaterScrapeCovers

\* One factor more adds the other once; a larger factor gives a larger product.
LEMMA Products ==
  ASSUME NEW n \in Nat, NEW k \in Nat
  PROVE  n * k \in Nat /\ n * (k + 1) = n * k + n /\ n * 0 = 0
  OBVIOUS

LEMMA LargerProduct ==
  ASSUME NEW n \in Nat, NEW j \in Nat, NEW k \in Nat, j <= k
  PROVE  n * j <= n * k
  OBVIOUS

LEMMA RulesFinite == Cardinality(Rules) \in Nat
<1>1. Rules \subseteq File /\ IsFiniteSet(File)
  BY ProcessAssumption DEF ProcessAssumption, Rules
<1> QED
  BY <1>1, FS_Subset, FS_CardinalityType

LEMMA QuietNat ==
  ASSUME CountInv
  PROVE  Quiet \in Nat
  BY DEF CountInv, Quiet, Counter

\* A process that has not received or read anything.
Idle ==
  /\ count = Fresh /\ owed = Fresh /\ scrape = Nothing /\ last = Nothing
  /\ phase # "running" => tasks = {}

LEMMA IdleCounts == Idle => CountInv
<1> SUFFICES ASSUME Idle
             PROVE  CountInv
  OBVIOUS
<1>1. /\ count["events"] = 0 /\ count["parse"] = 0 /\ count["alerts"] = 0
      /\ owed["events"] = 0 /\ owed["parse"] = 0 /\ owed["alerts"] = 0
      /\ count \in [Counter -> Nat] /\ owed \in [Counter -> Nat]
  BY DEF Idle, Fresh, Counter
<1>2. DOMAIN last = {} /\ DOMAIN scrape = {}
  BY DEF Idle, Nothing
<1>3. Quiet = 0
  BY <1>1 DEF Quiet
<1>4. Cardinality(Rules) * 0 = 0
  BY RulesFinite, Products
<1> QED
  BY <1>1, <1>2, <1>3, <1>4
  DEF Idle, CountInv, Behind, LaterScrapeCovers, Counter

LEMMA RecvCounts ==
  ASSUME CountInv, Recv
  PROVE  CountInv'
<1> DEFINE n == Cardinality(Rules)
<1>1. /\ count' = [count EXCEPT !["events"] = @ + 1]
      /\ owed = Fresh
      /\ UNCHANGED <<phase, tasks, loaded, scrape, last>>
      /\ \/ owed' = [Fresh EXCEPT !["parse"] = 1]
         \/ \E k \in 0..n : owed' = [Fresh EXCEPT !["alerts"] = k]
  BY DEF Recv, CountFirst, Bump, load, prom
<1>2. "engine" \in tasks
  BY DEF Recv
<1>3. phase' = "running"
  BY <1>1, <1>2 DEF CountInv
<1>4. /\ count' \in [Counter -> Nat] /\ count'["events"] = count["events"] + 1
      /\ count'["parse"] = count["parse"] /\ count'["alerts"] = count["alerts"]
      /\ \A c \in Counter : count[c] \in Nat /\ count[c] <= count'[c]
  BY <1>1 DEF CountInv, Counter
<1>5. owed["parse"] = 0 /\ owed["alerts"] = 0
  BY <1>1 DEF Fresh, Counter
<1>6. n \in Nat /\ n' = n /\ Quiet \in Nat
  BY <1>1, RulesFinite, QuietNat DEF Rules
<1>7. n * Quiet \in Nat /\ n * (Quiet + 1) = n * Quiet + n
  BY <1>6, Products
<1>8. /\ owed' \in [Counter -> Nat] /\ owed'["events"] = 0
      /\ count'["parse"] + owed'["parse"] <= count'["events"]
      /\ count'["alerts"] + owed'["alerts"] <= n' * Quiet'
  <2>1. CASE owed' = [Fresh EXCEPT !["parse"] = 1]
    <3>1. /\ owed' \in [Counter -> Nat]
          /\ owed'["events"] = 0 /\ owed'["parse"] = 1 /\ owed'["alerts"] = 0
      BY <2>1 DEF Fresh, Counter
    <3>2. Quiet' = Quiet
      BY <3>1, <1>4, <1>5 DEF Quiet, CountInv, Counter
    <3>3. count["alerts"] <= n * Quiet
      BY <1>4, <1>5 DEF CountInv, Counter
    <3> QED
      BY <3>1, <3>2, <3>3, <1>4, <1>5, <1>6 DEF CountInv, Counter
  <2>2. CASE \E k \in 0..n : owed' = [Fresh EXCEPT !["alerts"] = k]
    <3>1. PICK k \in 0..n : owed' = [Fresh EXCEPT !["alerts"] = k]
      BY <2>2
    <3>2. /\ owed' \in [Counter -> Nat] /\ k \in Nat /\ k <= n
          /\ owed'["events"] = 0 /\ owed'["parse"] = 0 /\ owed'["alerts"] = k
      BY <3>1, <1>6 DEF Fresh, Counter
    <3>3. Quiet' = Quiet + 1
      BY <3>2, <1>4, <1>5 DEF Quiet, CountInv, Counter
    <3>4. count["alerts"] <= n * Quiet
      BY <1>4, <1>5 DEF CountInv, Counter
    <3> DEFINE before == n * Quiet
               after == n * (Quiet + 1)
    <3>5. before \in Nat /\ after = before + n /\ count["alerts"] <= before
      BY <1>7, <3>4
    <3>6. count["alerts"] \in Nat
      BY <1>4 DEF Counter
    <3> HIDE DEF before, after, n
    <3>7. count["alerts"] + k <= after
      BY <3>2, <3>5, <3>6, <1>6
    <3>8. count'["alerts"] + owed'["alerts"] <= n' * Quiet'
      BY <3>2, <3>3, <3>7, <1>4, <1>6 DEF after
    <3>9. count'["parse"] + owed'["parse"] <= count'["events"]
      BY <3>2, <1>4, <1>5 DEF CountInv, Counter
    <3> QED
      BY <3>2, <3>8, <3>9
  <2> QED
    BY <1>1, <2>1, <2>2
<1>9. Behind(last)' /\ Behind(scrape)'
  BY <1>1, <1>4 DEF CountInv, Behind, Counter
<1>10. LaterScrapeCovers'
  BY <1>1, <1>6 DEF CountInv, LaterScrapeCovers
<1> QED
  BY <1>1, <1>3, <1>4, <1>8, <1>9, <1>10 DEF CountInv

LEMMA TallyCounts ==
  ASSUME CountInv, NEW c \in Counter, Tally(c)
  PROVE  CountInv'
<1> DEFINE n == Cardinality(Rules)
<1>1. /\ "engine" \in tasks /\ owed[c] > 0 /\ c \in {"alerts", "parse"}
      /\ owed' = [owed EXCEPT ![c] = @ - 1]
      /\ count' = [count EXCEPT ![c] = @ + 1]
      /\ UNCHANGED <<phase, tasks, loaded, scrape, last>>
  BY DEF Tally, Bump, load, prom, CountInv, Counter
<1>2. phase' = "running"
  BY <1>1 DEF CountInv
<1>3. /\ count' \in [Counter -> Nat] /\ owed' \in [Counter -> Nat]
      /\ owed'["events"] = 0 /\ count'["events"] = count["events"]
      /\ \A d \in {"alerts", "parse"} :
           count'[d] + owed'[d] = count[d] + owed[d]
      /\ \A d \in Counter : count[d] \in Nat /\ count[d] <= count'[d]
  BY <1>1 DEF CountInv, Counter
<1>4. Quiet' = Quiet /\ n' = n
  BY <1>1, <1>3 DEF Quiet, Rules
<1>5. /\ count'["parse"] + owed'["parse"] <= count'["events"]
      /\ count'["alerts"] + owed'["alerts"] <= n' * Quiet'
  <2>1. count["alerts"] + owed["alerts"] <= n * Quiet
    BY DEF CountInv
  <2>2. count'["alerts"] + owed'["alerts"] <= n * Quiet
    BY <2>1, <1>3
  <2> QED
    BY <2>2, <1>3, <1>4 DEF CountInv
<1>6. Behind(last)' /\ Behind(scrape)'
  BY <1>1, <1>3 DEF CountInv, Behind, Counter
<1>7. LaterScrapeCovers'
  BY <1>1, <1>4 DEF CountInv, LaterScrapeCovers
<1> QED
  BY <1>1, <1>2, <1>3, <1>5, <1>6, <1>7 DEF CountInv

\* Whenever events_processed is read, it covers all that was read before.
LEMMA CountersCover ==
  ASSUME CountInv, DOMAIN last = Counter
  PROVE  /\ last["parse"] <= count["events"]
         /\ last["alerts"] <=
              Cardinality(Rules) * (count["events"] - last["parse"])
<1> DEFINE n == Cardinality(Rules)
           rest == count["events"] - last["parse"]
<1>1. \A c \in Counter : last[c] \in Nat /\ last[c] <= count[c] /\ count[c] \in Nat
  BY DEF CountInv, Behind
<1>2. owed["parse"] \in Nat /\ owed["alerts"] \in Nat
  BY DEF CountInv, Counter
<1>3. last["parse"] <= count["events"] /\ Quiet <= rest /\ rest \in Nat
  BY <1>1, <1>2 DEF CountInv, Quiet, Counter
<1>4. Quiet \in Nat /\ n \in Nat
  BY QuietNat, RulesFinite
<1>5. n * Quiet \in Nat /\ n * rest \in Nat
  <2> HIDE DEF rest, n
  <2> QED
    BY <1>3, <1>4, Products
<1>6. n * Quiet <= n * rest
  <2> HIDE DEF rest, n
  <2> QED
    BY <1>3, <1>4, LargerProduct
<1>7. count["alerts"] + owed["alerts"] <= n * Quiet
  BY DEF CountInv
<1>8. last["alerts"] <= n * rest
  <2> DEFINE a == n * Quiet
             b == n * rest
  <2>1. a \in Nat /\ b \in Nat /\ a <= b /\ count["alerts"] + owed["alerts"] <= a
    BY <1>5, <1>6, <1>7
  <2>2. last["alerts"] \in Nat /\ last["alerts"] <= count["alerts"] /\ count["alerts"] \in Nat
    BY <1>1 DEF Counter
  <2> HIDE DEF a, b
  <2>3. last["alerts"] <= b
    BY <1>2, <2>1, <2>2
  <2> QED
    BY <2>3 DEF b
<1> QED
  BY <1>3, <1>8

LEMMA GatherCounts ==
  ASSUME CountInv, NEW c \in Counter, Gather(c)
  PROVE  CountInv'
<1>1. /\ "server" \in tasks /\ c \notin DOMAIN scrape
      /\ scrape' = [d \in DOMAIN scrape \cup {c} |->
                      IF d = c THEN count[c] ELSE scrape[d]]
      /\ UNCHANGED <<phase, tasks, loaded, count, owed, last>>
  BY DEF Gather, load
<1>2. phase' = "running"
  BY <1>1 DEF CountInv
<1>3. Quiet' = Quiet /\ Cardinality(Rules)' = Cardinality(Rules)
  BY <1>1 DEF Quiet, Rules
<1>4. /\ DOMAIN scrape' = DOMAIN scrape \cup {c} /\ scrape'[c] = count[c]
      /\ \A d \in DOMAIN scrape : scrape'[d] = scrape[d]
  BY <1>1
<1>5. Behind(scrape)' /\ DOMAIN scrape' \subseteq Counter
  BY <1>1, <1>4 DEF CountInv, Behind
<1>6. LaterScrapeCovers'
  <2> SUFFICES ASSUME DOMAIN last = Counter, "events" \in DOMAIN scrape'
               PROVE  /\ last["parse"] <= scrape'["events"]
                      /\ last["alerts"] <=
                           Cardinality(Rules) * (scrape'["events"] - last["parse"])
    BY <1>1, <1>3 DEF LaterScrapeCovers
  <2>1. CASE c = "events"
    BY <2>1, <1>4, CountersCover
  <2>2. CASE c # "events"
    BY <2>2, <1>4 DEF CountInv, LaterScrapeCovers
  <2> QED
    BY <2>1, <2>2
<1>7. Behind(last)'
  BY <1>1 DEF CountInv, Behind
<1> QED
  BY <1>1, <1>2, <1>3, <1>5, <1>6, <1>7 DEF CountInv

LEMMA AnswerCounts ==
  ASSUME CountInv, Answer
  PROVE  CountInv'
<1>1. /\ "server" \in tasks /\ DOMAIN scrape = Counter
      /\ last' = scrape /\ scrape' = Nothing
      /\ UNCHANGED <<phase, tasks, loaded, count, owed>>
  BY DEF Answer, load
<1>2. phase' = "running"
  BY <1>1 DEF CountInv
<1>3. Quiet' = Quiet /\ Cardinality(Rules)' = Cardinality(Rules)
  BY <1>1 DEF Quiet, Rules
<1>4. DOMAIN scrape' = {}
  BY <1>1 DEF Nothing
<1>5. Behind(last)' /\ Behind(scrape)'
  BY <1>1, <1>4 DEF CountInv, Behind
<1> QED
  BY <1>1, <1>2, <1>3, <1>4, <1>5 DEF CountInv, LaterScrapeCovers

\* The rules change only while there is nothing to count.
LEMMA LoadCounts ==
  ASSUME CountInv,
         \/ Start \/ Loaded \/ LoadFails \/ Select \/ CtrlC
         \/ \E f \in File : Entry(f)
  PROVE  CountInv'
<1>1. Idle'
  <2>1. CASE LoadFails \/ Select \/ CtrlC
    BY <2>1 DEF LoadFails, Select, CtrlC, Exit, Idle
  <2>2. CASE Start \/ Loaded \/ \E f \in File : Entry(f)
    BY <2>2 DEF Start, Loaded, Entry, prom, CountInv, Idle
  <2> QED
    BY <2>1, <2>2
<1>2. Idle' => CountInv'
  BY IdleCounts, PTL
<1> QED
  BY <1>1, <1>2

LEMMA CountCorrect == Spec => []CountInv
<1>1. Init => CountInv
  <2>1. Init => Idle
    BY DEF Init, Idle
  <2> QED
    BY <2>1, IdleCounts
<1>2. CountInv /\ [Next]_vars => CountInv'
  <2> SUFFICES ASSUME CountInv, [Next]_vars
               PROVE  CountInv'
    OBVIOUS
  <2>1. CASE \/ Start \/ Loaded \/ LoadFails \/ Select \/ CtrlC
             \/ \E f \in File : Entry(f)
    BY <2>1, LoadCounts
  <2>2. CASE Recv
    BY <2>2, RecvCounts
  <2>3. CASE \E c \in Counter : Tally(c) \/ Gather(c)
    BY <2>3, TallyCounts, GatherCounts
  <2>4. CASE Answer
    BY <2>4, AnswerCounts
  <2>5. CASE \E t \in Task : TaskEnds(t)
    <3>1. tasks' \subseteq tasks /\ UNCHANGED <<phase, loaded, count, owed, scrape, last>>
      BY <2>5 DEF TaskEnds, load, prom
    <3> QED
      BY <3>1 DEF CountInv, Behind, LaterScrapeCovers, Quiet, Rules
  <2>6. CASE UNCHANGED <<tasks, phase, loaded, count, owed, scrape, last>>
    BY <2>6 DEF CountInv, Behind, LaterScrapeCovers, Quiet, Rules
  <2> QED
    BY <2>1, <2>2, <2>3, <2>4, <2>5, <2>6
    DEF Next, Edit, load, prom, vars
<1> QED
  BY <1>1, <1>2, PTL DEF Spec

\* A scrape has seen every message that the errors and alerts of an earlier one
\* are about (metrics.rs:43), however many rules, messages and scrapes there are.
THEOREM ScrapesCorrect == Spec => []LaterScrapeCovers
<1>1. CountInv => LaterScrapeCovers
  BY DEF CountInv
<1> QED
  BY <1>1, CountCorrect, PTL

\* The phases and the sets of the process, and with the two invariants above all
\* of TypeOK: only rules that parse are loaded, from files that were listed.
THEOREM TypeCorrect == Spec => []TypeOK
<1> DEFINE Sets == /\ phase \in {"off", "loading", "running"}
                   /\ listed \subseteq File /\ tasks \subseteq Task
                   /\ written \subseteq File
<1>1. Init => Sets
  BY DEF Init
<1>2. Sets /\ [Next]_vars => Sets'
  BY DEF Next, Edit, Start, Entry, Loaded, LoadFails, Select, CtrlC, Exit,
         TaskEnds, Recv, Tally, Gather, Answer, dir, load, vars
<1>3. Sets /\ LoadInv /\ CountInv => TypeOK
  BY DEF LoadInv, CountInv, TypeOK, Rules
<1> HIDE DEF Sets
<1> QED
  BY <1>1, <1>2, <1>3, LoadCorrect, CountCorrect, PTL DEF Spec
=============================================================================
