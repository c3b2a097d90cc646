--------------------------------- MODULE Fim ---------------------------------
(***************************************************************************)
(* The agent's file integrity monitor: it hashes the files of the monitored *)
(* directories, then registers watches, then hashes a file again for each    *)
(* file event and reports the old and the new hash.  Files change all the     *)
(* while, and the watcher does not notice every change.  A hash stands for    *)
(* the content it was computed from.                                          *)
(***************************************************************************)
EXTENDS Naturals, Sequences, Functions

CONSTANTS
  Entry,       \* config.fim.paths
  File,        \* files that may exist under them
  Direct,      \* the files in the directory of each entry
  Below,       \* the files in its subdirectories
  Recursive,   \* entries with recursive: true
  Excluded,    \* files whose path contains a pattern of any entry's exclude
  Content,     \* contents, as their hashes
  Absent,      \* no such file, or not readable; no hash
  NoPath,      \* a message of the watcher that names no file
  MaxChanges   \* bound on the changes made to files

ASSUME FimAssumption ==
  /\ Direct \in [Entry -> SUBSET File] /\ Below \in [Entry -> SUBSET File]
  /\ Recursive \subseteq Entry /\ Excluded \subseteq File
  /\ Absent \notin Content /\ NoPath \notin File
  /\ MaxChanges \in Nat

VARIABLES
  disk,        \* the content of each file
  pc,          \* scan, watch, loop, or failed
  toScan,      \* entries and their files that the initial scan has not come to
  watching,    \* entries whose watch is registered
  pending,     \* files of the watcher's events, and NoPath, oldest first
  cache,       \* hash_cache
  reported,    \* history: the hash_after of the last report on each file
  report,      \* the last report
  missed,      \* history: files changed since they were hashed, with no event raised
  changes      \* changes made so far

vars == <<disk, pc, toScan, watching, pending, cache, reported, report, missed, changes>>

State == Content \cup {Absent}
Baseline == UNION {Direct[e] : e \in Entry}
ToCome == {p[2] : p \in toScan}
InScope(e) == Direct[e] \cup (IF e \in Recursive THEN Below[e] ELSE {})
Watched == UNION {InScope(e) : e \in watching}

Init ==
  /\ disk \in [File -> State]
  /\ pc = "scan"
  /\ toScan = {p \in Entry \X File : p[2] \in Direct[p[1]]}
  /\ watching = {}
  /\ pending = <<>>
  /\ cache = [f \in File |-> Absent]
  /\ reported = cache
  /\ report = <<>>
  /\ missed = {f \in File \ Baseline : disk[f] # Absent}
  /\ changes = 0

-----------------------------------------------------------------------------
(* The file system and the watcher library *)

\* The event of a change of a watched file.  None is raised for some: a directory is
\* renamed or removed above the file, a subdirectory is new and not watched yet, a
\* watch went with the file or the directory it was on.
Seen(f, unseen) == IF f \in Watched \ unseen THEN <<f>> ELSE <<>>

\* Files are written, created and removed.  The last events are lost when the queue
\* overflows.  For lost ones a rescan notice or a watch error, which name no file,
\* may follow.
Happen(new, touched, raised) ==
  /\ changes < MaxChanges
  /\ changes' = changes + 1
  /\ disk' = new
  /\ \E n \in 0..Len(raised), notice \in {<<>>, <<NoPath>>} :
       LET events == SubSeq(raised, 1, n)
       IN  /\ notice # <<>> => (touched \cap Watched) \ Range(events) # {}
           /\ pending' = (pending \o events) \o notice
           /\ missed' = missed \cup (touched \ (Range(events) \cup ToCome))
  /\ UNCHANGED <<pc, toScan, watching, cache, reported, report>>

Change(f, c) ==
  /\ disk[f] # c
  /\ Happen([disk EXCEPT ![f] = c], {f}, Seen(f, {}))

\* A rename is reported as a move from, a move to, and the pair of them.
Rename(f, g) ==
  /\ f # g /\ disk[f] # Absent
  /\ \E unseen \in SUBSET {f, g} :
       Happen([disk EXCEPT ![f] = Absent, ![g] = disk[f]], {f, g},
              Seen(f, unseen) \o Seen(g, unseen) \o Seen(f, unseen))

-----------------------------------------------------------------------------
(* fim::run *)

\* One file of initial_scan, which does not look into subdirectories.  A file that
\* two entries name is hashed for each; what cannot be read keeps the hash it has.
ScanFile(e, f) ==
  /\ pc = "scan" /\ <<e, f>> \in toScan
  /\ toScan' = toScan \ {<<e, f>>}
  /\ cache' = IF disk[f] = Absent THEN cache ELSE [cache EXCEPT ![f] = disk[f]]
  /\ reported' = cache'
  /\ missed' = IF cache'[f] = disk[f] THEN missed ELSE missed \cup {f}
  /\ UNCHANGED <<disk, pc, watching, pending, report, changes>>

ScanDone ==
  /\ pc = "scan" /\ toScan = {}
  /\ pc' = "watch"
  /\ UNCHANGED <<disk, toScan, watching, pending, cache, reported, report, missed, changes>>

Watch(e) ==
  /\ pc = "watch" /\ e \in Entry \ watching
  /\ watching' = watching \cup {e}
  /\ UNCHANGED <<disk, pc, toScan, pending, cache, reported, report, missed, changes>>

WatchDone ==
  /\ pc = "watch" /\ watching = Entry
  /\ pc' = "loop"
  /\ UNCHANGED <<disk, toScan, watching, pending, cache, reported, report, missed, changes>>

\* mutant: the events that are waiting outlive the watcher
DropWatchesOnly == watching' = {} /\ UNCHANGED pending
DropWatcher == watching' = {} /\ pending' = <<>>

\* read_dir, the watcher or one of the watches fails: `?` ends the monitor for
\* every entry.
Fails ==
  /\ pc \in {"scan", "watch"}
  /\ pc' = "failed"
  /\ DropWatcher
  /\ UNCHANGED <<disk, toScan, cache, reported, report, missed, changes>>

\* mutant: the cache entry of a deleted file is not removed
CacheKept(f) == cache' = IF disk[f] = Absent THEN cache
                                             ELSE [cache EXCEPT ![f] = disk[f]]
\* mutant: the hash is compared with the cache but not stored
CacheForgot(f) == UNCHANGED cache
Cache(f) == cache' = [cache EXCEPT ![f] = disk[f]]

\* mutant: an event for a file that is gone again is skipped
IgnoredGone(f) == f \in Excluded \cup {NoPath} \/ disk[f] = Absent
\* A watch error, an event without a path, an excluded path.
Ignored(f) == f \in Excluded \cup {NoPath}

\* rx.recv(), process_fs_event and the send: the file is hashed now, not when
\* the event happened.
Process ==
  /\ pc = "loop" /\ pending # <<>>
  /\ pending' = Tail(pending)
  /\ LET f == Head(pending) IN
       IF Ignored(f)
         THEN UNCHANGED <<cache, reported, report, missed>>
         ELSE /\ report' = <<f, cache[f], disk[f]>>
              /\ Cache(f)
              /\ reported' = [reported EXCEPT ![f] = disk[f]]
              /\ missed' = missed \ {f}
  /\ UNCHANGED <<disk, pc, toScan, watching, changes>>

-----------------------------------------------------------------------------
Monitor ==
  \/ \E e \in Entry, f \in File : ScanFile(e, f)
  \/ ScanDone
  \/ \E e \in Entry : Watch(e)
  \/ WatchDone
  \/ Process

Next ==
  \/ \E f \in File, c \in State : Change(f, c)
  \/ \E f, g \in File : Rename(f, g)
  \/ Monitor
  \/ Fails

\* The monitor has a worker thread to itself, and blocks on nothing else.
Spec == Init /\ [][Next]_vars /\ WF_vars(Monitor)

-----------------------------------------------------------------------------
\* Types; events come from watched files only.
TypeOK ==
  /\ disk \in [File -> State]
  /\ pc \in {"scan", "watch", "loop", "failed"}
  /\ toScan \subseteq Entry \X Baseline /\ watching \subseteq Entry
  /\ pending \in Seq(Watched \cup {NoPath})
  /\ cache \in [File -> State] /\ reported \in [File -> State]
  /\ report = <<>> \/ report \in File \X State \X State
  /\ missed \subseteq File
  /\ changes \in 0..MaxChanges

\* A cached hash is out of date only while an event for the file is waiting, or if
\* none was raised for a change since it was hashed: the file was never scanned, it
\* changed between its scan and its watch (mod.rs:37-55), could not be read when it
\* was scanned again (mod.rs:107), or the watcher did not notice or its queue was
\* full.  Hashing late (mod.rs:137) loses no change for good that was noticed.
StaleOnlyIfMissed ==
  \A f \in Watched \ Excluded :
    f \notin missed \cup Range(pending) => cache[f] = disk[f]

\* The reports on a file form a chain: each starts from the hash the previous
\* one, or the scan, ended with, through deletions, renames and re-creations.
ReportsChain ==
  [][report' # report => report'[2] = reported[report'[1]]]_vars

\* After the last change to a file whose event is waiting, the reports catch up
\* with the file, unless the monitor has failed while it was starting.
ReportsCatchUp ==
  \A f \in File \ Excluded :
    f \in Range(pending) ~> reported[f] = disk[f] \/ pc = "failed"
=============================================================================
