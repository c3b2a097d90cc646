------------------------------ MODULE FimProofs ------------------------------
(***************************************************************************)
(* Proofs about the file integrity monitor, for any directories, files and   *)
(* changes and however many of them the watcher does not notice: when its     *)
(* cache is out of date, and that its reports form a chain.                   *)
(***************************************************************************)
EXTENDS Fim, SequenceTheorems, TLAPS

\* Types; the files are scanned before a watch is registered, and a monitor that
\* failed watches nothing.
FimInv ==
  /\ disk \in [File -> State] /\ cache \in [File -> State]
  /\ pc \in {"scan", "watch", "loop", "failed"}
  /\ watching \subseteq Entry /\ toScan \subseteq Entry \X Baseline
  /\ pc \in {"scan", "failed"} => watching = {}
  /\ pc \in {"watch", "loop"} => toScan = {}
  /\ pending \in Seq(Watched \cup {NoPath})
  /\ missed \subseteq File
  /\ changes \in 0..MaxChanges

\* A file that is not still to be hashed, by the scan or for an event, and has not
\* changed with no event raised, is cached as it is; what was hashed was reported.
CacheInv ==
  /\ pc # "failed" =>
       \A f \in File \ Excluded :
         f \notin ToCome \cup missed \cup Range(pending) => cache[f] = disk[f]
  /\ reported = cache
  /\ report = <<>> \/ report \in File \X State \X State

LEMMA WatchedFiles ==
  ASSUME watching \subseteq Entry
  PROVE  Watched \subseteq File
<1>1. \A e \in Entry : InScope(e) \subseteq File
  BY FimAssumption DEF FimAssumption, InScope
<1> QED
  BY <1>1 DEF Watched

LEMMA ScannedFiles == Baseline \subseteq File
  BY FimAssumption DEF FimAssumption, Baseline

\* What a queue holds is what its parts hold.
LEMMA RangeConcat ==
  ASSUME NEW S, NEW s \in Seq(S), NEW t \in Seq(S)
  PROVE  s \o t \in Seq(S) /\ Range(s \o t) = Range(s) \cup Range(t)
  BY ConcatProperties, RangeConcatenation

\* Taking the oldest event out leaves every other file's events in.
LEMMA RangeTail ==
  ASSUME NEW S, NEW s \in Seq(S), s # <<>>
  PROVE  /\ Head(s) \in S /\ Tail(s) \in Seq(S)
         /\ Range(s) \subseteq {Head(s)} \cup Range(Tail(s))
<1>1. /\ Head(s) \in S /\ Tail(s) \in Seq(S) /\ Len(s) \in Nat \ {0}
      /\ Len(Tail(s)) = Len(s) - 1 /\ Head(s) = s[1]
      /\ \A i \in 1..Len(Tail(s)) : Tail(s)[i] = s[i + 1]
  BY HeadTailProperties, EmptySeq, LenProperties
<1>2. DOMAIN s = 1..Len(s) /\ DOMAIN Tail(s) = 1..Len(Tail(s))
  BY <1>1, LenProperties
<1>3. ASSUME NEW i \in 1..Len(s)
      PROVE  s[i] \in {Head(s)} \cup Range(Tail(s))
  <2>1. CASE i = 1
    BY <1>1, <2>1
  <2>2. CASE i # 1
    <3>1. i - 1 \in 1..Len(Tail(s)) /\ (i - 1) + 1 = i
      BY <1>1, <2>2
    <3> QED
      BY <1>1, <1>2, <3>1 DEF Range
  <2> QED
    BY <2>1, <2>2
<1> QED
  BY <1>1, <1>2, <1>3 DEF Range

LEMMA SeenIs ==
  ASSUME NEW f, NEW unseen
  PROVE  Seen(f, unseen) \in Seq(Watched)
<1>1. CASE f \in Watched \ unseen
  <2>1. Seen(f, unseen) = <<f>> /\ <<f>> \in Seq(Watched)
    BY <1>1 DEF Seen
  <2> QED
    BY <2>1
<1>2. CASE f \notin Watched \ unseen
  <2>1. Seen(f, unseen) = <<>> /\ <<>> \in Seq(Watched)
    BY <1>2 DEF Seen
  <2> QED
    BY <2>1
<1> QED
  BY <1>1, <1>2

\* Events of watched files are messages of the watcher.
LEMMA Wider ==
  ASSUME NEW S, NEW T, S \subseteq T, NEW s \in Seq(S)
  PROVE  s \in Seq(T)
  BY ElementOfSeq, SeqDef

\* Whatever happens to files, and however many of the events are lost, those touched
\* are waiting to be scanned, have an event in the queue, or are recorded as missed.
LEMMA HappenKeeps ==
  ASSUME FimInv, CacheInv, NEW new \in [File -> State],
         NEW touched \in SUBSET File, NEW raised \in Seq(Watched),
         Happen(new, touched, raised),
         \A f \in File \ touched : new[f] = disk[f]
  PROVE  FimInv' /\ CacheInv'
<1>1. PICK n \in 0..Len(raised), notice \in {<<>>, <<NoPath>>} :
        /\ pending' = (pending \o SubSeq(raised, 1, n)) \o notice
        /\ missed' = missed \cup (touched \ (Range(SubSeq(raised, 1, n)) \cup ToCome))
  BY DEF Happen
<1>2. /\ changes < MaxChanges /\ changes' = changes + 1 /\ disk' = new
      /\ UNCHANGED <<pc, toScan, watching, cache, reported, report>>
  BY DEF Happen
<1> DEFINE Message == Watched \cup {NoPath}
           events == SubSeq(raised, 1, n)
<1>3. events \in Seq(Watched)
  BY LenProperties, SubSeqProperties
<1>4. events \in Seq(Message) /\ pending \in Seq(Message) /\ notice \in Seq(Message)
  <2>1. events \in Seq(Message)
    BY <1>3, Wider
  <2>2. <<>> \in Seq(Message) /\ <<NoPath>> \in Seq(Message)
    OBVIOUS
  <2> QED
    BY <2>1, <2>2 DEF FimInv
<1> HIDE DEF Message, events
<1>5. /\ (pending \o events) \o notice \in Seq(Message)
      /\ Range((pending \o events) \o notice)
           = (Range(pending) \cup Range(events)) \cup Range(notice)
  <2> DEFINE most == pending \o events
  <2>1. most \in Seq(Message) /\ Range(most) = Range(pending) \cup Range(events)
    BY <1>4, RangeConcat
  <2> HIDE DEF most
  <2>2. /\ most \o notice \in Seq(Message)
        /\ Range(most \o notice) = Range(most) \cup Range(notice)
    BY <1>4, <2>1, RangeConcat
  <2> QED
    BY <2>1, <2>2 DEF most
<1>6. /\ pending' \in Seq(Message)
      /\ Range(pending) \cup Range(events) \subseteq Range(pending')
  BY <1>1, <1>5 DEF events
<1>7. Watched' = Watched /\ ToCome' = ToCome
  BY <1>2 DEF Watched, ToCome
<1>8. FimInv'
  BY <1>1, <1>2, <1>6, <1>7, FimAssumption DEF FimAssumption, FimInv, Message
<1>9. ASSUME pc # "failed", NEW f \in File \ Excluded,
             f \notin ToCome \cup missed' \cup Range(pending')
      PROVE  cache[f] = new[f]
  <2>1. f \notin touched /\ f \notin ToCome \cup missed \cup Range(pending)
    BY <1>1, <1>6, <1>9 DEF events
  <2> QED
    BY <1>9, <2>1 DEF CacheInv
<1> QED
  BY <1>2, <1>7, <1>8, <1>9 DEF CacheInv

LEMMA ChangeKeeps ==
  ASSUME FimInv, CacheInv, NEW f \in File, NEW c \in State, Change(f, c)
  PROVE  FimInv' /\ CacheInv'
<1> DEFINE new == [disk EXCEPT ![f] = c]
<1>1. new \in [File -> State] /\ \A g \in File \ {f} : new[g] = disk[g]
  BY DEF FimInv
<1>2. Happen(new, {f}, Seen(f, {}))
  BY DEF Change
<1> HIDE DEF new
<1> QED
  BY <1>1, <1>2, SeenIs, HappenKeeps

LEMMA RenameKeeps ==
  ASSUME FimInv, CacheInv, NEW f \in File, NEW g \in File, Rename(f, g)
  PROVE  FimInv' /\ CacheInv'
<1>1. PICK unseen \in SUBSET {f, g} :
        Happen([disk EXCEPT ![f] = Absent, ![g] = disk[f]], {f, g},
               Seen(f, unseen) \o Seen(g, unseen) \o Seen(f, unseen))
  BY DEF Rename
<1> DEFINE new == [disk EXCEPT ![f] = Absent, ![g] = disk[f]]
           both == Seen(f, unseen) \o Seen(g, unseen)
           raised == both \o Seen(f, unseen)
<1>2. new \in [File -> State] /\ \A h \in File \ {f, g} : new[h] = disk[h]
  BY DEF FimInv, State
<1>3. both \in Seq(Watched)
  BY SeenIs, RangeConcat
<1> HIDE DEF both
<1>4. raised \in Seq(Watched)
  BY <1>3, SeenIs, RangeConcat
<1>5. Happen(new, {f, g}, raised)
  BY <1>1 DEF both
<1> HIDE DEF new, raised
<1> QED
  BY <1>2, <1>4, <1>5, HappenKeeps

LEMMA ScanFileKeeps ==
  ASSUME FimInv, CacheInv, NEW e \in Entry, NEW f \in File, ScanFile(e, f)
  PROVE  FimInv' /\ CacheInv'
<1>1. /\ pc = "scan" /\ <<e, f>> \in toScan /\ toScan' = toScan \ {<<e, f>>}
      /\ cache' = IF disk[f] = Absent THEN cache ELSE [cache EXCEPT ![f] = disk[f]]
      /\ reported' = cache'
      /\ missed' = IF cache'[f] = disk[f] THEN missed ELSE missed \cup {f}
      /\ UNCHANGED <<disk, pc, watching, pending, report, changes>>
  BY DEF ScanFile
<1>2. Watched' = Watched
  BY <1>1 DEF Watched
<1>3. FimInv'
  BY <1>1, <1>2 DEF FimInv
<1>4. \A g \in ToCome : g = f \/ g \in ToCome'
  BY <1>1 DEF ToCome
<1>5. ASSUME NEW g \in File \ Excluded,
             g \notin ToCome' \cup missed' \cup Range(pending)
      PROVE  cache'[g] = disk[g]
  <2>1. CASE g = f
    BY <1>1, <1>5, <2>1
  <2>2. CASE g # f
    <3>1. g \notin ToCome \cup missed \cup Range(pending)
      BY <1>1, <1>4, <1>5, <2>2
    <3>2. cache[g] = disk[g]
      BY <1>1, <3>1 DEF CacheInv
    <3>3. cache'[g] = cache[g]
      BY <1>1, <2>2 DEF FimInv
    <3> QED
      BY <3>2, <3>3
  <2> QED
    BY <2>1, <2>2
<1> QED
  BY <1>1, <1>3, <1>5 DEF CacheInv

LEMMA WatchKeeps ==
  ASSUME FimInv, CacheInv, NEW e \in Entry, Watch(e)
  PROVE  FimInv' /\ CacheInv'
<1>1. /\ pc = "watch" /\ watching' = watching \cup {e}
      /\ UNCHANGED <<disk, pc, toScan, pending, cache, reported, report, missed, changes>>
  BY DEF Watch
<1>2. Watched \subseteq Watched'
  BY <1>1 DEF Watched
<1>3. pending \in Seq(Watched' \cup {NoPath})
  <2>1. Watched \cup {NoPath} \subseteq Watched' \cup {NoPath}
    BY <1>2
  <2> QED
    BY <2>1, Wider DEF FimInv
<1>4. ToCome' = ToCome
  BY <1>1 DEF ToCome
<1> QED
  BY <1>1, <1>3, <1>4 DEF FimInv, CacheInv

LEMMA ProcessKeeps ==
  ASSUME FimInv, CacheInv, Process
  PROVE  FimInv' /\ CacheInv'
<1> DEFINE f == Head(pending)
<1>1. /\ pc = "loop" /\ pending # <<>> /\ pending' = Tail(pending)
      /\ UNCHANGED <<disk, pc, toScan, watching, changes>>
      /\ \/ f \in Excluded \cup {NoPath} /\ UNCHANGED <<cache, reported, report, missed>>
         \/ /\ f # NoPath /\ report' = <<f, cache[f], disk[f]>>
            /\ cache' = [cache EXCEPT ![f] = disk[f]]
            /\ reported' = [reported EXCEPT ![f] = disk[f]]
            /\ missed' = missed \ {f}
  BY DEF Process, Ignored, Cache
<1>2. Watched' = Watched /\ ToCome' = ToCome
  BY <1>1 DEF Watched, ToCome
<1>3. /\ f \in Watched \cup {NoPath} /\ pending' \in Seq(Watched \cup {NoPath})
      /\ Range(pending) \subseteq {f} \cup Range(pending')
  BY <1>1, RangeTail DEF FimInv
<1>4. f \in File \/ f = NoPath
  BY <1>3, WatchedFiles DEF FimInv
<1>5. \A g \in File : g # NoPath
  BY FimAssumption DEF FimAssumption
<1> HIDE DEF f
<1>6. FimInv'
  BY <1>1, <1>2, <1>3, <1>4 DEF FimInv
<1>7. \A g \in File \ Excluded :
        g \notin ToCome \cup missed' \cup Range(pending') => cache'[g] = disk[g]
  BY <1>1, <1>3, <1>4, <1>5 DEF FimInv, CacheInv
<1>8. reported' = cache' /\ (report' = <<>> \/ report' \in File \X State \X State)
  BY <1>1, <1>4 DEF FimInv, CacheInv
<1> QED
  BY <1>1, <1>2, <1>6, <1>7, <1>8 DEF CacheInv

LEMMA FimCorrect == Spec => [](FimInv /\ CacheInv)
<1>1. Init => FimInv /\ CacheInv
  <2> SUFFICES ASSUME Init
               PROVE  FimInv /\ CacheInv
    OBVIOUS
  <2>1. pending \in Seq(Watched)
    BY DEF Init
  <2>2. toScan \subseteq Entry \X Baseline
    BY DEF Init, Baseline
  <2>4. FimInv
    BY <2>1, <2>2, ScannedFiles, FimAssumption DEF FimAssumption, Init, FimInv, State
  <2>3. \A f \in File : f \notin ToCome \cup missed => cache[f] = disk[f]
    <3>1. Baseline \subseteq ToCome
      <4> SUFFICES ASSUME NEW e \in Entry, NEW f \in Direct[e]
                   PROVE  f \in ToCome
        BY DEF Baseline
      <4>1. <<e, f>> \in Entry \X File /\ <<e, f>>[1] = e /\ <<e, f>>[2] = f
        BY FimAssumption DEF FimAssumption
      <4>2. <<e, f>> \in toScan
        BY <4>1 DEF Init
      <4> QED
        BY <4>1, <4>2 DEF ToCome
    <3> QED
      BY <3>1 DEF Init
  <2> QED
    BY <2>3, <2>4 DEF Init, CacheInv
<1>2. FimInv /\ CacheInv /\ [Next]_vars => FimInv' /\ CacheInv'
  <2> SUFFICES ASSUME FimInv, CacheInv, [Next]_vars
               PROVE  FimInv' /\ CacheInv'
    OBVIOUS
  <2>1. CASE \E f \in File, c \in State : Change(f, c)
    BY <2>1, ChangeKeeps
  <2>2. CASE \E f, g \in File : Rename(f, g)
    BY <2>2, RenameKeeps
  <2>3. CASE \E e \in Entry, f \in File : ScanFile(e, f)
    BY <2>3, ScanFileKeeps
  <2>4. CASE ScanDone \/ WatchDone
    BY <2>4 DEF ScanDone, WatchDone, FimInv, CacheInv, Watched, ToCome
  <2>5. CASE \E e \in Entry : Watch(e)
    BY <2>5, WatchKeeps
  <2>6. CASE Process
    BY <2>6, ProcessKeeps
  <2>7. CASE Fails
    BY <2>7 DEF Fails, DropWatcher, FimInv, CacheInv, Watched, ToCome
  <2>8. CASE UNCHANGED vars
    BY <2>8 DEF vars, FimInv, CacheInv, Watched, ToCome
  <2> QED
    BY <2>1, <2>2, <2>3, <2>4, <2>5, <2>6, <2>7, <2>8 DEF Next, Monitor
<1> QED
  BY <1>1, <1>2, PTL DEF Spec

\* The sets and sequences of the monitor are what they should be, and every event
\* in its queue is about a watched file.
THEOREM TypeCorrect == Spec => []TypeOK
<1>1. FimInv /\ CacheInv => TypeOK
  BY DEF FimInv, CacheInv, TypeOK
<1> QED
  BY <1>1, FimCorrect, PTL

\* Hashing a file when its event is processed, and not when it happened, loses no
\* change for good that has an event (mod.rs:137).  What stays wrong in the cache was
\* never scanned, or changed with no event raised: between the scan and the watch
\* (mod.rs:37-55), before a second reading that failed (mod.rs:107), or because the
\* watcher did not notice or its queue was full.
THEOREM StaleCorrect == Spec => []StaleOnlyIfMissed
<1>1. FimInv /\ CacheInv => StaleOnlyIfMissed
  <2> SUFFICES ASSUME FimInv, CacheInv, NEW f \in Watched \ Excluded,
                      f \notin missed \cup Range(pending)
               PROVE  cache[f] = disk[f]
    BY DEF StaleOnlyIfMissed
  <2>1. watching # {}
    BY DEF Watched
  <2>2. pc # "failed" /\ toScan = {}
    BY <2>1 DEF FimInv
  <2>4. ToCome = {}
    BY <2>2 DEF ToCome
  <2>3. f \in File
    BY WatchedFiles DEF FimInv
  <2> QED
    BY <2>2, <2>3, <2>4 DEF CacheInv
<1> QED
  BY <1>1, FimCorrect, PTL

\* What was last reported of a watched file, or scanned, is what the file is.
ReportsCurrent ==
  \A f \in Watched \ Excluded :
    f \notin missed \cup Range(pending) => reported[f] = disk[f]

\* Once the events of a file are processed its last report says what it is, unless
\* no event was raised for a change since (mod.rs:137-148): the half of
\* ReportsCatchUp that needs no fairness.
THEOREM CurrentCorrect == Spec => []ReportsCurrent
<1>1. FimInv /\ CacheInv /\ StaleOnlyIfMissed => ReportsCurrent
  BY DEF CacheInv, StaleOnlyIfMissed, ReportsCurrent
<1> QED
  BY <1>1, FimCorrect, StaleCorrect, PTL

\* Each report on a file starts from the hash the last one, or the scan, ended
\* with (mod.rs:136-148), whatever the file went through in between.
THEOREM ChainCorrect == Spec => ReportsChain
<1>1. FimInv /\ CacheInv /\ [Next]_vars =>
        (report' # report => report'[2] = reported[report'[1]])
  <2> SUFFICES ASSUME FimInv, CacheInv, [Next]_vars, report' # report
               PROVE  report'[2] = reported[report'[1]]
    OBVIOUS
  <2>1. Process
    BY DEF Next, Monitor, Change, Rename, Happen, ScanFile, ScanDone, Watch,
           WatchDone, Fails, vars
  <2>2. report' = <<Head(pending), cache[Head(pending)], disk[Head(pending)]>>
    BY <2>1 DEF Process
  <2> QED
    BY <2>2 DEF CacheInv
<1> QED
  BY <1>1, FimCorrect, PTL DEF Spec, ReportsChain
=============================================================================
