---------------------------- MODULE CorsaroProofs ----------------------------
(***************************************************************************)
(* Proofs about Corsaro, for any plugins, lengths, rotations and times: the *)
(* intervals fit the records, no output file is leaked, and until a call   *)
(* fails the plugins are told of abutting intervals, rotate on time and    *)
(* lose one record at most.                                                *)
(***************************************************************************)
EXTENDS Corsaro, TLAPS

\* The first interval ends behind its first record, after interval seconds at
\* the latest, rounded down or not.
LEMMA FirstReportFits ==
  ASSUME interval \in Int, interval > 0, interval_align \in BOOLEAN, NEW ts \in Nat
  PROVE  /\ FirstReport(ts) \in Int
         /\ ts < FirstReport(ts)
         /\ FirstReport(ts) <= ts + interval
<1>1. CASE interval_align
  <2> DEFINE q == (ts + interval) \div interval
             r == (ts + interval) % interval
  <2>1. q \in Int /\ r \in Int /\ ts + interval = q * interval + r /\ 0 <= r /\ r < interval
    BY SMT
  <2>2. q * interval \in Int
    BY <2>1
  <2>3. FirstReport(ts) = q * interval
    BY <1>1 DEF FirstReport
  <2> HIDE DEF q, r
  <2> QED
    BY <2>1, <2>2, <2>3
<1>2. CASE ~ interval_align
  BY <1>2 DEF FirstReport
<1> QED
  BY <1>1, <1>2

-----------------------------------------------------------------------------
(* The record that is processed lies in the current interval               *)

ClockTypes ==
  /\ interval \in Int \ {0}
  /\ interval_align \in BOOLEAN
  /\ last_ts \in Nat
  /\ record_cnt \in Nat

\* The current interval has its length, or less if it is the first.
IntervalFits ==
  /\ next_report \in Int
  /\ interval_start.time < next_report
  /\ next_report <= interval_start.time + interval

\* Where the clock stands while bgpcorsaro_per_record is on its way through an
\* interval that starts or ends.
ClockInv ==
  /\ interval_start.time \in Int
  /\ pc = "new" => record_cnt = 0
  /\ pc = "starting" =>
       \/ record_cnt = 0 /\ interval_start.time = last_ts
       \/ /\ record_cnt > 0 /\ interval > 0
          /\ next_report \in Int
          /\ interval_start.time = next_report /\ next_report <= last_ts
  /\ pc \in {"ending", "ended"} =>
       record_cnt > 0 /\ interval > 0 /\ next_report <= last_ts /\ IntervalFits
  /\ pc \in {"processing", "idle"} /\ record_cnt > 0 =>
       /\ interval > 0 => last_ts < next_report /\ IntervalFits
       /\ ~ backwards => interval_start.time <= last_ts

IInvClock == ClockTypes /\ (~ failed => ClockInv)

LEMMA ClockInit == Init => IInvClock
  BY CorsaroAssumption DEF Init, IInvClock, ClockTypes, ClockInv, IntervalFits

\* A step that leaves the clock alone and does not go back to per_record.
LEMMA ClockStays ==
  ASSUME IInvClock, UNCHANGED <<config, clock, backwards>>,
         failed' \/ (failed' = failed /\
                     (pc' = pc \/ (pc = "processing" /\ pc' = "idle")
                      \/ (pc = "ending" /\ pc' = "ended")
                      \/ (pc = "new" /\ pc' = "idle")
                      \/ pc' \in {"last", "dumped", "freed", "aborted"}))
  PROVE  IInvClock'
  BY DEF IInvClock, ClockTypes, ClockInv, IntervalFits, config, clock

LEMMA ClockNext == IInvClock /\ [Next]_vars => IInvClock'
<1> SUFFICES ASSUME IInvClock, [Next]_vars PROVE IInvClock'
  OBVIOUS
<1>1. CASE EnablePlugin \/ StartOutput \/ StartLogFails \/ UNCHANGED vars
  BY <1>1, ClockStays DEF EnablePlugin, StartOutput, StartLogFails, history, vars
<1>2. CASE PerRecord
  <2>1. PICK ts \in Times :
          /\ last_ts' = ts
          /\ backwards' = (backwards \/ ts < last_ts)
          /\ IF record_cnt = 0
             THEN BeginStart(interval_start.number, ts) /\ UNCHANGED record_cnt
             ELSE /\ Proceed(ts, next_report)
                  /\ UNCHANGED <<interval_start, logfile, files, failed>>
    BY <1>2 DEF PerRecord
  <2>2. ts \in Nat /\ UNCHANGED <<interval, interval_align, next_report>> /\ pc = "idle"
    BY <1>2, CorsaroAssumption DEF PerRecord, config
  <2>3. CASE record_cnt = 0
    <3>1. /\ UNCHANGED record_cnt
          /\ interval_start'.time = ts
          /\ failed' \/ (failed' = failed /\ pc' = "starting")
      BY <2>1, <2>3 DEF BeginStart
    <3> QED
      BY <2>1, <2>2, <2>3, <3>1 DEF IInvClock, ClockTypes, ClockInv
  <2>4. CASE record_cnt # 0
    <3>1. UNCHANGED <<interval_start, failed>> /\ Proceed(ts, next_report)
      BY <2>1, <2>4
    <3>2. ClockTypes'
      BY <2>1, <2>2, <3>1 DEF Proceed, IInvClock, ClockTypes
    <3>3. ASSUME ~ failed PROVE ClockInv'
      <4>1. interval > 0 => last_ts < next_report /\ IntervalFits
        BY <2>2, <2>4, <3>3 DEF IInvClock, ClockTypes, ClockInv
      <4>2. ~ backwards' => interval_start.time <= ts
        <5>1. ~ backwards' => ~ backwards /\ ~ (ts < last_ts)
          BY <2>1, Zenon
        <5>2. ~ backwards => interval_start.time <= last_ts
          BY <2>2, <2>4, <3>3 DEF IInvClock, ClockTypes, ClockInv
        <5>3. interval_start.time \in Int /\ last_ts \in Nat
          BY <3>3 DEF IInvClock, ClockTypes, ClockInv
        <5> QED
          BY <2>2, <5>1, <5>2, <5>3
      <4>3. CASE interval >= 0 /\ ts >= next_report
        BY <2>1, <2>2, <2>4, <3>1, <3>3, <4>1, <4>3
        DEF Proceed, IInvClock, ClockTypes, ClockInv, IntervalFits
      <4>4. CASE ~ (interval >= 0 /\ ts >= next_report)
        BY <2>1, <2>2, <2>4, <3>1, <3>3, <4>1, <4>2, <4>4
        DEF Proceed, IInvClock, ClockTypes, ClockInv, IntervalFits
      <4> QED
        BY <4>3, <4>4
    <3> QED
      BY <3>1, <3>2, <3>3 DEF IInvClock
  <2> QED
    BY <2>3, <2>4
<1>3. CASE StartPlugin
  <2>1. CASE plug < Len(plugins)
    BY <1>3, <2>1, ClockStays DEF StartPlugin, clock
  <2>2. CASE ~ (plug < Len(plugins)) /\ record_cnt = 0
    <3>1. interval > 0 => /\ FirstReport(last_ts) \in Int
                          /\ last_ts < FirstReport(last_ts)
                          /\ FirstReport(last_ts) <= last_ts + interval
      BY FirstReportFits DEF IInvClock, ClockTypes
    <3> QED
      BY <1>3, <2>2, <3>1
      DEF StartPlugin, Proceed, IInvClock, ClockTypes, ClockInv, IntervalFits, config
  <2>3. CASE ~ (plug < Len(plugins)) /\ record_cnt # 0
    BY <1>3, <2>3
    DEF StartPlugin, Proceed, IInvClock, ClockTypes, ClockInv, IntervalFits, config
  <2> QED
    BY <2>1, <2>2, <2>3
<1>4. CASE StartFails \/ EndFails \/ ProcessFails \/ EndLastFails
  BY <1>4, ClockStays DEF StartFails, EndFails, ProcessFails, EndLastFails, Fail, Free
<1>5. CASE EndPlugin \/ EndLastPlugin
  <2>1. UNCHANGED <<config, interval_start, next_report, last_ts, record_cnt, failed, backwards>>
    BY <1>5 DEF EndPlugin, EndLastPlugin
  <2>2. \/ pc' = pc \/ pc' = "aborted" \/ (pc = "ending" /\ pc' = "ended") \/ pc' = "dumped"
    BY <1>5 DEF EndPlugin, EndLastPlugin, Crash
  <2> QED
    BY <2>1, <2>2 DEF IInvClock, ClockTypes, ClockInv, IntervalFits, config
<1>6. CASE NextInterval
  <2>1. /\ UNCHANGED <<interval, interval_align, next_report, last_ts, record_cnt>>
        /\ interval_start'.time = next_report
        /\ failed' \/ (failed' = failed /\ pc' = "starting")
        /\ pc = "ended"
    BY <1>6 DEF NextInterval, BeginStart, config
  <2> QED
    BY <2>1 DEF IInvClock, ClockTypes, ClockInv, IntervalFits
<1>7. CASE ProcessPlugin
  BY <1>7, ClockStays DEF ProcessPlugin, Crash
<1>8. CASE FinalizeOutput \/ FreeOutput
  BY <1>8, ClockStays DEF FinalizeOutput, FreeOutput, Free, history
<1> QED
  BY <1>1, <1>2, <1>3, <1>4, <1>5, <1>6, <1>7, <1>8 DEF Next

\* For all plugins, lengths of intervals and times of records: until a call
\* fails, bgpcorsaro_per_record hands a record to the plugins in the interval
\* its time lies in, after as many end_interval and start_interval calls as the
\* gap before it needs.
THEOREM RecordsInTheirIntervalHolds == Spec => []RecordsInTheirInterval
<1>1. IInvClock => RecordsInTheirInterval
  BY DEF IInvClock, ClockTypes, ClockInv, IntervalFits, RecordsInTheirInterval
<1> QED
  BY <1>1, ClockInit, ClockNext, PTL DEF Spec

-----------------------------------------------------------------------------
(* No output file is leaked                                                *)

NoFiles(p) == /\ ~ outfile[p]
              /\ \A i \in 0..OUTFILE_POINTERS - 1 : ~ outfile_p[p][i]

FileTypes ==
  /\ outfile \in [Names -> BOOLEAN]
  /\ outfile_p \in [Names -> [0..OUTFILE_POINTERS - 1 -> BOOLEAN]]
  /\ outfile_n \in [Names -> 0..OUTFILE_POINTERS - 1]

\* The list that is walked has an entry for the call under way.
ListInv ==
  /\ plugins \in Seq(Names) /\ plugins # <<>>
  /\ plugins_enabled \in Seq(Names)
  /\ pc \in {"starting", "ending", "processing", "last"} => plug \in 1..Len(plugins)

\* What bgpcorsaro_free would not close is not open: plugins off the list have
\* no files, nor has any plugin before the start, when the list may still shrink.
IInvFiles ==
  /\ FileTypes
  /\ ListInv
  /\ \A p \in Names : outfile[p] = outfile_p[p][outfile_n[p]]
  /\ \A p \in Names : pc \in {"new", "freed"} \/ p \notin ToSet(plugins) => NoFiles(p)

LEMMA ListInit == Init => ListInv
<1> SUFFICES ASSUME Init PROVE ListInv
  OBVIOUS
<1>1. Plugins \in Seq(Names)
  <2>1. \A i \in 1..Len(Plugins) : Plugins[i] \in Names
    BY CorsaroAssumption DEF Names, ToSet
  <2> QED
    BY <2>1, CorsaroAssumption
<1> QED
  BY <1>1, CorsaroAssumption DEF Init, ListInv

LEMMA FilesInit == Init => IInvFiles
  BY ListInit DEF Init, IInvFiles, FileTypes, NoFiles, OUTFILE_POINTERS

\* bgpcorsaro_free leaves no file open.
LEMMA FreeCloses ==
  ASSUME IInvFiles, Free, UNCHANGED manager
  PROVE  IInvFiles'
<1>1. FileTypes'
  BY DEF IInvFiles, FileTypes, Free, CloseOutput, OUTFILE_POINTERS
<1>2. \A p \in Names : NoFiles(p)'
  BY DEF IInvFiles, FileTypes, Free, CloseOutput, OUTFILE_POINTERS, NoFiles
<1>3. ListInv'
  BY DEF IInvFiles, ListInv, Free, manager
<1>4. \A p \in Names : outfile'[p] = outfile_p'[p][outfile_n'[p]]
  <2> SUFFICES ASSUME NEW p \in Names PROVE outfile'[p] = outfile_p'[p][outfile_n'[p]]
    OBVIOUS
  <2>1. outfile_n'[p] \in 0..OUTFILE_POINTERS - 1 /\ outfile'[p] \in BOOLEAN
        /\ outfile_p'[p] \in [0..OUTFILE_POINTERS - 1 -> BOOLEAN]
    BY <1>1 DEF FileTypes
  <2>2. outfile'[p] = FALSE /\ outfile_p'[p][outfile_n'[p]] = FALSE
    BY <1>2, <2>1 DEF NoFiles
  <2> QED
    BY <2>2
<1> QED
  BY <1>1, <1>2, <1>3, <1>4, Zenon DEF IInvFiles

\* A step that touches no file and no list.
LEMMA FilesStay ==
  ASSUME IInvFiles, UNCHANGED <<manager, files>>, ListInv',
         pc' \in {"new", "freed"} => pc \in {"new", "freed"}
  PROVE  IInvFiles'
  BY DEF IInvFiles, FileTypes, NoFiles, manager, files

\* A plugin on the list opens its file, in its current pointer.
LEMMA OpenKeeps ==
  ASSUME IInvFiles, ListInv', UNCHANGED <<manager, outfile_n>>,
         pc' \notin {"new", "freed"},
         NEW p \in ToSet(plugins),
         outfile_p' = [outfile_p EXCEPT ![p][outfile_n[p]] = @ \/ Opens(p)],
         outfile' = [outfile EXCEPT ![p] = @ \/ Opens(p)]
  PROVE  IInvFiles'
<1>1. FileTypes'
  BY DEF IInvFiles, FileTypes
<1>2. ASSUME NEW q \in Names PROVE outfile'[q] = outfile_p'[q][outfile_n'[q]]
  BY <1>2 DEF IInvFiles, FileTypes, Opens
<1>3. ASSUME NEW q \in Names, q \notin ToSet(plugins) PROVE NoFiles(q)'
  BY <1>3 DEF IInvFiles, FileTypes, NoFiles
<1> QED
  BY <1>1, <1>2, <1>3 DEF IInvFiles, manager

\* A plugin rotates its file: the pointer it moves on to is closed.
LEMMA RotatedKeeps ==
  ASSUME IInvFiles, ListInv', UNCHANGED manager,
         pc' \notin {"new", "freed"},
         NEW p \in Names, Rotated(p), pc \notin {"new", "freed"}
  PROVE  IInvFiles'
<1>1. CASE ~ IsRotateInterval
  BY <1>1, FilesStay DEF Rotated
<1>2. CASE IsRotateInterval
  <2> DEFINE next == (outfile_n[p] + 1) % OUTFILE_POINTERS
  <2>1. /\ outfile_n' = [outfile_n EXCEPT ![p] = next]
        /\ outfile_p' = [outfile_p EXCEPT ![p][next] = FALSE]
        /\ outfile' = [outfile EXCEPT ![p] = FALSE]
    BY <1>2 DEF Rotated
  <2>2. next \in 0..OUTFILE_POINTERS - 1
    BY DEF IInvFiles, FileTypes, OUTFILE_POINTERS
  <2> HIDE DEF next
  <2>3. FileTypes'
    BY <2>1, <2>2 DEF IInvFiles, FileTypes
  <2>4. ASSUME NEW q \in Names PROVE outfile'[q] = outfile_p'[q][outfile_n'[q]]
    BY <2>1, <2>2, <2>4 DEF IInvFiles, FileTypes
  <2>5. ASSUME NEW q \in Names, NoFiles(q) PROVE NoFiles(q)'
    BY <2>1, <2>2, <2>5 DEF IInvFiles, FileTypes, NoFiles
  <2> QED
    BY <2>3, <2>4, <2>5 DEF IInvFiles, manager
<1> QED
  BY <1>1, <1>2

\* The call under way is of a plugin on the list.
LEMMA ListNext == ListInv /\ [Next]_vars => ListInv'
<1> SUFFICES ASSUME ListInv, [Next]_vars PROVE ListInv'
  OBVIOUS
<1>0. Len(plugins) \in Nat \ {0}
  BY DEF ListInv
<1>1. CASE EnablePlugin
  <2>1. \A p \in ToSet(plugins) : p \in Names
    BY DEF ListInv, ToSet
  <2>2. plugins_enabled' \in Seq(Names) /\ plugins' = plugins /\ pc = "new"
        /\ pc' \in {"new", "aborted"}
    BY <1>1, <2>1 DEF EnablePlugin, ListInv, manager
  <2> QED
    BY <2>2 DEF ListInv
<1>2. CASE StartOutput
  BY <1>2 DEF StartOutput, ListInv
<1>3. CASE PerRecord
  <2>1. UNCHANGED manager /\ (plug' = 1 \/ pc' = "freed")
    BY <1>3 DEF PerRecord, BeginStart, Proceed, Free
  <2> QED
    BY <2>1, <1>0 DEF ListInv, manager
<1>4. CASE StartPlugin
  <2>1. UNCHANGED manager /\ (plug' = 1 \/ (plug < Len(plugins) /\ plug' = plug + 1))
        /\ pc = "starting"
    BY <1>4 DEF StartPlugin, Proceed
  <2> QED
    BY <2>1, <1>0 DEF ListInv, manager
<1>5. CASE EndPlugin \/ EndLastPlugin
  <2>1. /\ UNCHANGED manager
        /\ pc \in {"ending", "last"}
        /\ \/ pc' \in {"aborted", "ended", "dumped"}
           \/ plug < Len(plugins) /\ plug' = plug + 1
    BY <1>5 DEF EndPlugin, EndLastPlugin, Crash
  <2> QED
    BY <2>1, <1>0 DEF ListInv, manager
<1>6. CASE NextInterval
  BY <1>6, <1>0 DEF NextInterval, BeginStart, Free, ListInv, manager
<1>7. CASE ProcessPlugin
  <2>1. /\ UNCHANGED manager
        /\ pc = "processing"
        /\ \/ pc' \in {"aborted", "idle"}
           \/ plug < Len(plugins) /\ plug' = plug + 1
    BY <1>7 DEF ProcessPlugin, Crash
  <2> QED
    BY <2>1, <1>0 DEF ListInv, manager
<1>8. CASE \/ StartLogFails \/ StartFails \/ EndFails \/ ProcessFails \/ EndLastFails
           \/ FreeOutput \/ UNCHANGED vars
  BY <1>8 DEF StartLogFails, StartFails, EndFails, ProcessFails, EndLastFails, FreeOutput,
              Fail, Free, ListInv, manager, vars
<1>9. CASE FinalizeOutput
  BY <1>9, <1>0 DEF FinalizeOutput, Free, ListInv, manager
<1> QED
  BY <1>1, <1>2, <1>3, <1>4, <1>5, <1>6, <1>7, <1>8, <1>9 DEF Next

LEMMA FilesNext == IInvFiles /\ [Next]_vars => IInvFiles'
<1> SUFFICES ASSUME IInvFiles, [Next]_vars PROVE IInvFiles'
  OBVIOUS
<1>0. ListInv'
  BY ListNext DEF IInvFiles
<1>1. CASE EnablePlugin
  <2>1. plugins' = plugins /\ UNCHANGED files /\ pc = "new"
    BY <1>1 DEF EnablePlugin, manager
  <2> QED
    BY <2>1, <1>0 DEF IInvFiles, FileTypes, NoFiles, files
<1>2. CASE StartOutput
  <2>1. UNCHANGED files /\ pc = "new"
    BY <1>2 DEF StartOutput
  <2> QED
    BY <2>1, <1>0 DEF IInvFiles, FileTypes, NoFiles, files
<1>3. CASE PerRecord
  <2>1. UNCHANGED manager /\ (Free \/ (UNCHANGED files /\ pc' \notin {"new", "freed"}))
    BY <1>3 DEF PerRecord, BeginStart, Proceed
  <2> QED
    BY <2>1, <1>0, FreeCloses, FilesStay
<1>4. CASE StartPlugin
  <2>1. PICK p \in Names : /\ Called(p)
                           /\ outfile_p' = [outfile_p EXCEPT ![p][outfile_n[p]] = @ \/ Opens(p)]
                           /\ outfile' = [outfile EXCEPT ![p] = @ \/ Opens(p)]
    BY <1>4 DEF StartPlugin
  <2>2. p \in ToSet(plugins)
    BY <1>4, <2>1 DEF StartPlugin, Called, IInvFiles, ListInv, ToSet
  <2>3. UNCHANGED <<manager, outfile_n>> /\ pc' \notin {"new", "freed"}
    BY <1>4 DEF StartPlugin, Proceed
  <2> QED
    BY <2>1, <2>2, <2>3, <1>0, OpenKeeps
<1>5. CASE EndPlugin \/ EndLastPlugin
  <2>1. UNCHANGED manager /\ pc \notin {"new", "freed"} /\ pc' \notin {"new", "freed"}
    BY <1>5 DEF EndPlugin, EndLastPlugin, Crash
  <2>2. UNCHANGED files \/ \E p \in Names : Rotated(p)
    BY <1>5 DEF EndPlugin, EndLastPlugin
  <2> QED
    BY <2>1, <2>2, <1>0, FilesStay, RotatedKeeps
<1>6. CASE NextInterval
  <2>1. UNCHANGED manager /\ (Free \/ (UNCHANGED files /\ pc' \notin {"new", "freed"}))
    BY <1>6 DEF NextInterval, BeginStart
  <2> QED
    BY <2>1, <1>0, FreeCloses, FilesStay
<1>7. CASE \/ StartLogFails \/ StartFails \/ EndFails \/ ProcessFails \/ ProcessPlugin
           \/ UNCHANGED vars
  <2>1. UNCHANGED <<manager, files>> /\ (pc' = pc \/ pc' \notin {"new", "freed"})
    BY <1>7 DEF StartLogFails, StartFails, EndFails, ProcessFails, ProcessPlugin, Fail, Crash,
                vars
  <2> QED
    BY <2>1, <1>0, FilesStay
<1>8. CASE EndLastFails \/ FreeOutput
  BY <1>8, FreeCloses DEF EndLastFails, FreeOutput
<1>9. CASE FinalizeOutput
  <2>1. UNCHANGED manager /\ (Free \/ (UNCHANGED files /\ pc' = "last"))
    BY <1>9 DEF FinalizeOutput
  <2> QED
    BY <2>1, <1>0, FreeCloses, FilesStay
<1> QED
  BY <1>1, <1>2, <1>3, <1>4, <1>5, <1>6, <1>7, <1>8, <1>9 DEF Next

\* For all plugins and rotations, and whatever fails: a plugin that opens an
\* output file finds its current pointer free, and bgpcorsaro_free closes every
\* file there is, whichever plugins were enabled.
THEOREM FilesAreKeptHolds == Spec => []FilesAreKept
<1>1. IInvFiles => FilesAreKept
  BY DEF IInvFiles, FileTypes, NoFiles, FilesAreKept
<1> QED
  BY <1>1, FilesInit, FilesNext, PTL DEF Spec

-----------------------------------------------------------------------------
(* What the plugins are told                                               *)

\* The next interval of a file is its next one, or the first of the next file.
LEMMA NextInFile ==
  ASSUME NEW n \in Nat, NEW r \in Nat \ {0}
  PROVE  /\ n % r \in 0..r - 1
         /\ (n + 1) % r = 0 => n % r = r - 1
         /\ (n + 1) % r # 0 => (n + 1) % r = (n % r) + 1
<1> DEFINE q == n \div r
           a == n % r
           t == (n + 1) \div r
           b == (n + 1) % r
<1>1. q \in Int /\ a \in 0..r - 1 /\ n = q * r + a
  BY SMT
<1>2. t \in Int /\ b \in 0..r - 1 /\ n + 1 = t * r + b
  BY SMT
<1>3. PICK d \in Int : d = t - q
  <2> HIDE DEF q, a, t, b
  <2> QED BY <1>1, <1>2
<1>4. d * r = a + 1 - b
  <2> HIDE DEF q, a, t, b
  <2>1. t * r \in Int /\ q * r \in Int /\ d * r \in Int
    BY <1>1, <1>2, <1>3
  <2>2. d * r = t * r - q * r
    BY <1>1, <1>2, <1>3
  <2> QED BY <1>1, <1>2, <2>1, <2>2
<1>5. d = 0 \/ d = 1
  <2> HIDE DEF q, a, t, b
  <2>1. d >= 2 => d * r >= 2 * r
    OBVIOUS
  <2>2. d <= -1 => d * r <= - r
    OBVIOUS
  <2> QED BY <1>1, <1>2, <1>4, <2>1, <2>2
<1>6. b = a + 1 \/ (b = 0 /\ a = r - 1)
  <2> HIDE DEF q, a, t, b
  <2> QED BY <1>1, <1>2, <1>4, <1>5
<1> HIDE DEF a, b
<1>7. a \in 0..r - 1 /\ (b = 0 => a = r - 1) /\ (b # 0 => b = a + 1)
  BY <1>1, <1>2, <1>6
<1> QED BY <1>7 DEF a, b

\* No plugin is on the list twice.
Distinct(list) == \A i, j \in 1..Len(list) : list[i] = list[j] => i = j

HistoryTypes ==
  /\ DOMAIN calls = Names
  /\ \A p \in Names : calls[p].kind \in {"none", "start", "end"}
  /\ in_file \in [Names -> Int]
  /\ pending \in 0..2
  /\ argc \in [Names -> Int]
  /\ output_rotate \in Nat

\* The plugin was told nothing yet.
Untold(p) == calls[p].kind = "none"

\* The plugin is in the current interval.
Started(p) ==
  /\ calls[p].kind = "start"
  /\ calls[p].number = interval_start.number
  /\ calls[p].time = interval_start.time

\* The plugin has left the current interval.
Ended(p) ==
  /\ calls[p].kind = "end"
  /\ calls[p].number = interval_start.number
  /\ pc \in {"ending", "ended"} => calls[p].time = next_report - 1

\* The plugin has left the interval before the current one.
LeftBehind(p) ==
  /\ calls[p].kind = "end"
  /\ calls[p].number \in 0..Number - 1
  /\ interval_start.number = (calls[p].number + 1) % Number
  /\ ~ wrapped => interval_start.number = calls[p].number + 1
  /\ calls[p].time \in Int
  /\ interval_start.time = calls[p].time + 1

\* How far the plugins are in what they are told: those before plug are ahead
\* of the others.
Told ==
  /\ pc = "new" \/ (pc = "idle" /\ record_cnt = 0) => \A p \in Names : Untold(p)
  /\ \A p \in Names : p \notin ToSet(plugins) => Untold(p)
  /\ pc \in {"processing", "idle"} /\ record_cnt > 0 =>
       \A i \in 1..Len(plugins) : Started(plugins[i])
  /\ pc = "starting" =>
       \A i \in 1..Len(plugins) :
         /\ i < plug => Started(plugins[i])
         /\ i >= plug /\ record_cnt = 0 => Untold(plugins[i])
         /\ i >= plug /\ record_cnt > 0 => LeftBehind(plugins[i])
  /\ pc \in {"ending", "last"} =>
       \A i \in 1..Len(plugins) :
         /\ i < plug => Ended(plugins[i])
         /\ i >= plug => Started(plugins[i])
  /\ pc = "ended" => \A i \in 1..Len(plugins) : Ended(plugins[i])

\* A plugin has its file open in an interval, and none before its first one.
OpenInside ==
  pc # "freed" =>
    \A p \in Names : /\ calls[p].kind = "start" => outfile[p]
                     /\ Untold(p) => ~ outfile[p]

\* The records that a call of bgpcorsaro_free would lose.  PerRecord sets the
\* flag before it ends an interval, which clears it: the record that is then
\* processed is the one that may be lost.
FlagInv ==
  /\ record_cnt = 0 => interval_start.number = 0
  /\ pc \in {"new", "idle"} /\ record_cnt = 0 => ~ interval_end_needed
  /\ pc = "processing" => record_cnt > 0
  /\ pc = "last" => /\ record_cnt > 0
                    /\ ~ backwards => interval_start.time <= last_ts
  /\ pc = "new" => ~ logfile
  /\ ~ interval_end_needed \/ pc \in {"dumped", "freed"} => pending <= 1
  /\ ~ interval_end_needed /\ (pc \in {"starting", "ended"} \/ (pc = "processing" /\ plug = 1))
       => pending = 0
  /\ pc = "aborted" => \E p \in Names : argc[p] # 1
  /\ interval_start.number \in 0..Number - 1

\* How many intervals are in the file of a plugin.
FileCount(p) ==
  /\ Untold(p) => in_file[p] = 0
  /\ ~ Untold(p) => /\ calls[p].number \in Nat
                    /\ in_file[p] = (calls[p].number % output_rotate) + 1
  /\ calls[p].kind = "end" /\ pc # "freed" =>
       (outfile[p] <=> (calls[p].number + 1) % output_rotate # 0)

Counts == ~ wrapped /\ output_rotate > 0 => \A p \in Names : FileCount(p)

\* The inductive invariant.
IInvCalls ==
  /\ Distinct(plugins) /\ Distinct(plugins_enabled)
  /\ HistoryTypes
  /\ ~ failed => Told /\ OpenInside /\ FlagInv /\ Counts

\* bgpcorsaro starts with nothing told.
LEMMA CallsInit == Init => IInvCalls
<1> SUFFICES ASSUME Init PROVE IInvCalls
  OBVIOUS
<1>1. /\ calls = [p \in Names |-> [kind |-> "none", number |-> 0, time |-> 0]]
      /\ in_file = [p \in Names |-> 0]
      /\ argc = [p \in Names |-> 1]
      /\ outfile = [p \in Names |-> FALSE]
      /\ pending = 0 /\ record_cnt = 0 /\ pc = "new" /\ interval_end_needed = FALSE
      /\ logfile = FALSE /\ interval_start = [number |-> 0, time |-> 0]
      /\ plugins = Plugins /\ plugins_enabled = <<>>
      /\ output_rotate \in Rotations
  BY DEF Init
<1>2. Distinct(plugins) /\ Distinct(plugins_enabled)
  BY <1>1, CorsaroAssumption DEF Distinct, IsInjective
<1>3. HistoryTypes
  BY <1>1, CorsaroAssumption DEF HistoryTypes
<1>4. \A p \in Names : Untold(p) /\ ~ outfile[p] /\ in_file[p] = 0
  BY <1>1 DEF Untold
<1>5. Told
  BY <1>1, <1>4 DEF Told
<1>6. OpenInside
  BY <1>4 DEF OpenInside, Untold
<1>7. FlagInv
  BY <1>1, CorsaroAssumption DEF FlagInv
<1>8. Counts
  BY <1>4 DEF Counts, FileCount, Untold
<1> QED BY <1>2, <1>3, <1>5, <1>6, <1>7, <1>8 DEF IInvCalls

\* No plugin gets onto a list twice.
LEMMA DistinctNext ==
  ASSUME Distinct(plugins), Distinct(plugins_enabled), ListInv, [Next]_vars
  PROVE  Distinct(plugins)' /\ Distinct(plugins_enabled)'
<1>1. CASE EnablePlugin
  <2>1. PICK p \in ToSet(plugins) :
          \/ UNCHANGED manager
          \/ /\ plugins_enabled' = IF p \in ToSet(plugins_enabled)
                                   THEN plugins_enabled
                                   ELSE Append(plugins_enabled, p)
             /\ UNCHANGED plugins
    BY <1>1 DEF EnablePlugin
  <2>2. UNCHANGED plugins
    BY <2>1 DEF manager
  <2>3. CASE UNCHANGED plugins_enabled
    BY <2>2, <2>3 DEF Distinct
  <2>4. CASE plugins_enabled' # plugins_enabled
    <3>1. plugins_enabled' = Append(plugins_enabled, p) /\ p \notin ToSet(plugins_enabled)
      BY <2>1, <2>4 DEF manager
    <3>2. \A i \in 1..Len(plugins_enabled) : plugins_enabled[i] # p
      BY <3>1 DEF ToSet, ListInv
    <3> QED BY <2>2, <3>1, <3>2 DEF Distinct, ListInv
  <2> QED BY <2>3, <2>4
<1>2. CASE StartOutput
  <2>1. UNCHANGED plugins_enabled /\ plugins' \in {plugins, plugins_enabled}
    BY <1>2 DEF StartOutput
  <2> QED BY <2>1 DEF Distinct
<1>3. CASE ~ EnablePlugin /\ ~ StartOutput
  <2>1. UNCHANGED manager
    BY <1>3 DEF Next, vars, StartLogFails, PerRecord, StartPlugin, StartFails, EndPlugin,
                EndFails, NextInterval, ProcessPlugin, ProcessFails, FinalizeOutput,
                EndLastPlugin, EndLastFails, FreeOutput
  <2> QED BY <2>1 DEF manager, Distinct
<1> QED BY <1>1, <1>2, <1>3

\* The histories keep their types.
LEMMA HistoryTypesNext ==
  ASSUME HistoryTypes, ListInv, [Next]_vars
  PROVE  HistoryTypes'
<1>1. UNCHANGED output_rotate
  BY DEF Next, vars, config, EnablePlugin, StartOutput, StartLogFails, PerRecord, StartPlugin,
         StartFails, EndPlugin, EndFails, NextInterval, ProcessPlugin, ProcessFails,
         FinalizeOutput, EndLastPlugin, EndLastFails, FreeOutput
<1>2. DOMAIN calls' = Names /\ \A p \in Names : calls'[p].kind \in {"none", "start", "end"}
  <2>1. CASE StartPlugin
    <3>1. PICK p \in Names :
            calls' = [calls EXCEPT ![p] = [kind |-> "start", number |-> interval_start.number,
                                           time |-> interval_start.time]]
      BY <2>1 DEF StartPlugin
    <3> QED BY <3>1 DEF HistoryTypes
  <2>2. CASE EndPlugin \/ EndLastPlugin
    <3>1. UNCHANGED calls \/ \E p \in Names, t \in {next_report - 1, last_ts} :
            calls' = [calls EXCEPT ![p] = [kind |-> "end", number |-> interval_start.number,
                                           time |-> t]]
      BY <2>2 DEF EndPlugin, EndLastPlugin
    <3> QED BY <3>1 DEF HistoryTypes
  <2>3. CASE ~ (StartPlugin \/ EndPlugin \/ EndLastPlugin)
    <3>1. UNCHANGED calls
      BY <2>3 DEF Next, vars, history, EnablePlugin, StartOutput, StartLogFails, PerRecord,
           StartFails, EndFails, NextInterval, ProcessPlugin, ProcessFails,
           FinalizeOutput, EndLastFails, FreeOutput
    <3> QED BY <3>1 DEF HistoryTypes
  <2> QED BY <2>1, <2>2, <2>3
<1>3. in_file' \in [Names -> Int]
  <2>1. CASE StartPlugin
    <3>1. PICK p \in Names :
            in_file' = [in_file EXCEPT ![p] = IF Opens(p) THEN 1
                                              ELSE IF failed THEN @ ELSE @ + 1]
      BY <2>1 DEF StartPlugin
    <3> QED BY <3>1 DEF HistoryTypes
  <2>2. CASE ~ StartPlugin
    <3>1. UNCHANGED in_file
      BY <2>2 DEF Next, vars, history, EnablePlugin, StartOutput, StartLogFails, PerRecord,
           StartFails, EndPlugin, EndFails, NextInterval, ProcessPlugin, ProcessFails,
           FinalizeOutput, EndLastPlugin, EndLastFails, FreeOutput
    <3> QED BY <3>1 DEF HistoryTypes
  <2> QED BY <2>1, <2>2
<1>4. pending' \in 0..2
  <2>1. \/ UNCHANGED pending \/ pending' = 0
        \/ pending' = IF plug = 1 /\ pending < 2 THEN pending + 1 ELSE pending
    BY DEF Next, vars, history, EnablePlugin, StartOutput, StartLogFails, PerRecord, StartPlugin,
           StartFails, EndPlugin, EndFails, NextInterval, ProcessPlugin, ProcessFails,
           FinalizeOutput, EndLastPlugin, EndLastFails, FreeOutput, IntervalEnded
  <2> QED BY <2>1 DEF HistoryTypes
<1>5. argc' \in [Names -> Int]
  <2>1. CASE EnablePlugin
    <3>1. PICK p \in ToSet(plugins), args \in BOOLEAN :
            UNCHANGED argc \/ argc' = [argc EXCEPT ![p] = IF args THEN 2 ELSE 1]
      BY <2>1 DEF EnablePlugin, manager
    <3> QED BY <3>1 DEF HistoryTypes
  <2>2. CASE ~ EnablePlugin
    <3>1. UNCHANGED argc
      BY <2>2 DEF Next, vars, manager, StartOutput, StartLogFails, PerRecord, StartPlugin,
           StartFails, EndPlugin, EndFails, NextInterval, ProcessPlugin, ProcessFails,
           FinalizeOutput, EndLastPlugin, EndLastFails, FreeOutput
    <3> QED BY <3>1 DEF HistoryTypes
  <2> QED BY <2>1, <2>2
<1> QED BY <1>1, <1>2, <1>3, <1>4, <1>5 DEF HistoryTypes

\* What the plugins were told does not change with what they were not told.
LEMMA CallsStay ==
  ASSUME UNCHANGED <<calls, interval_start, wrapped>>, NEW p
  PROVE  /\ Untold(p)' <=> Untold(p)
         /\ Started(p)' <=> Started(p)
         /\ LeftBehind(p)' <=> LeftBehind(p)
         /\ Ended(p) /\ UNCHANGED next_report /\ (pc \notin {"ending", "ended"} => pc' \notin {"ending", "ended"})
              => Ended(p)'
  BY DEF Untold, Started, LeftBehind, Ended

\* A step that tells the plugins nothing and touches no file.
LEMMA CountsStay ==
  ASSUME UNCHANGED <<calls, in_file, outfile, output_rotate, wrapped>>,
         pc # "freed" \/ pc' = "freed"
  PROVE  (OpenInside => OpenInside') /\ (Counts => Counts')
  BY DEF OpenInside, Counts, FileCount, Untold

\* bgpcorsaro_free tells the plugins nothing.
LEMMA CountsFree ==
  ASSUME UNCHANGED <<calls, in_file, output_rotate, wrapped>>, pc' = "freed"
  PROVE  OpenInside' /\ (Counts => Counts')
  BY DEF OpenInside, Counts, FileCount, Untold

\* The state of a bgpcorsaro that has not failed.
Sound ==
  /\ ~ failed
  /\ ClockTypes /\ ClockInv
  /\ FileTypes /\ ListInv
  /\ Distinct(plugins) /\ HistoryTypes
  /\ Told /\ OpenInside /\ FlagInv /\ Counts

\* What a plugin may be told next.
AbutStep ==
  \A p \in Names : calls'[p] # calls[p] /\ ~ failed =>
    LET c == calls[p]
        d == calls'[p]
    IN  \/ c.kind = "none" /\ d.kind = "start" /\ d.number = 0
        \/ /\ c.kind = "start" /\ d.kind = "end"
           /\ d.number = c.number
           /\ ~ backwards => c.time <= d.time
        \/ /\ c.kind = "end" /\ d.kind = "start"
           /\ d.number = (c.number + 1) % Number
           /\ d.time = c.time + 1

\* Before the start there is nothing to tell.
LEMMA BeforeStart ==
  ASSUME Sound, EnablePlugin \/ StartOutput, ListInv', ~ failed'
  PROVE  Told' /\ OpenInside' /\ FlagInv' /\ Counts' /\ AbutStep
<1>1. /\ pc = "new" /\ pc' \in {"new", "idle", "aborted"}
      /\ UNCHANGED <<config, clock, files, plug, calls, in_file, pending, backwards, wrapped>>
  BY DEF EnablePlugin, StartOutput, history
<1>2. record_cnt = 0 /\ ~ logfile
  BY <1>1 DEF Sound, ClockInv, FlagInv
<1>3. \A p \in Names : Untold(p)
  BY <1>1 DEF Sound, Told
<1>4. \A p \in Names : Untold(p)'
  BY <1>1, <1>3 DEF Untold
<1>5. \A i \in 1..Len(plugins') : plugins'[i] \in Names
  BY DEF ListInv
<1>6. Told'
  BY <1>1, <1>2, <1>4, <1>5 DEF Told, clock
<1>7. OpenInside' /\ Counts'
  BY <1>1, CountsStay DEF Sound, files, config
<1>8. pc' = "aborted" => \E p \in Names : argc'[p] # 1
  <2>1. CASE EnablePlugin
    <3>1. \A p \in ToSet(plugins) : p \in Names
      BY DEF Sound, ListInv, ToSet
    <3>2. pc' = "aborted" => \E p \in ToSet(plugins) : argc[p] # 1 /\ UNCHANGED argc
      BY <1>1, <2>1 DEF EnablePlugin, manager
    <3> QED BY <3>1, <3>2
  <2>2. CASE StartOutput
    BY <1>2, <2>2 DEF StartOutput
  <2> QED BY <2>1, <2>2
<1>9. pc' = "new" => ~ logfile'
  <2>1. CASE EnablePlugin
    BY <1>2, <2>1 DEF EnablePlugin
  <2>2. CASE StartOutput
    BY <1>2, <2>2 DEF StartOutput, Sound
  <2> QED BY <2>1, <2>2
<1>10. ~ interval_end_needed' => pending' <= 1
  BY <1>1 DEF Sound, FlagInv, clock
<1>11. pc = "new" => ~ interval_end_needed
  BY <1>2 DEF Sound, FlagInv
<1>12. FlagInv'
  BY <1>1, <1>2, <1>8, <1>9, <1>10, <1>11 DEF Sound, FlagInv, clock
<1>13. AbutStep
  BY <1>1 DEF AbutStep
<1> QED BY <1>6, <1>7, <1>12, <1>13

\* A record starts the first interval, ends the current one or is handed on.
LEMMA PerRecordKeeps ==
  ASSUME Sound, PerRecord, ~ failed'
  PROVE  Told' /\ OpenInside' /\ FlagInv' /\ Counts' /\ AbutStep
<1>1. /\ pc = "idle" /\ interval_end_needed'
      /\ UNCHANGED <<config, next_report, manager, calls, in_file, pending, wrapped>>
  BY DEF PerRecord
<1>2. AbutStep
  BY <1>1 DEF AbutStep
<1>3. plugins' = plugins /\ \A i \in 1..Len(plugins) : plugins[i] \in Names
  BY <1>1 DEF manager, Sound, ListInv
<1>4. CASE record_cnt = 0
  <2>1. PICK ts \in Times : BeginStart(interval_start.number, ts) /\ UNCHANGED record_cnt
    BY <1>4 DEF PerRecord
  <2>2. /\ interval_start'.number = interval_start.number
        /\ pc' = "starting" /\ plug' = 1 /\ UNCHANGED <<files, record_cnt>>
    BY <2>1 DEF BeginStart
  <2>3. \A p \in Names : Untold(p) /\ Untold(p)'
    BY <1>1, <1>4 DEF Sound, Told, Untold
  <2>4. Told'
    BY <1>1, <1>3, <1>4, <2>2, <2>3 DEF Told, Sound, ListInv
  <2>5. OpenInside' /\ Counts'
    BY <1>1, <2>2, CountsStay DEF Sound, files, config
  <2>6. FlagInv'
    BY <1>1, <1>4, <2>2 DEF Sound, FlagInv
  <2> QED BY <1>2, <2>4, <2>5, <2>6
<1>5. CASE record_cnt # 0
  <2>1. PICK ts \in Times : Proceed(ts, next_report) /\ UNCHANGED <<interval_start, logfile, files>>
    BY <1>5 DEF PerRecord
  <2>2. /\ plug' = 1
        /\ \/ pc' = "ending" /\ UNCHANGED record_cnt
           \/ pc' = "processing" /\ record_cnt' = record_cnt + 1
    BY <2>1 DEF Proceed
  <2>3. record_cnt > 0 /\ record_cnt' > 0
    BY <1>5, <2>2 DEF Sound, ClockTypes
  <2>4. \A i \in 1..Len(plugins) : Started(plugins[i])
    BY <1>1, <2>3 DEF Sound, Told
  <2>5. \A p \in Names : (Started(p)' <=> Started(p)) /\ (Untold(p)' <=> Untold(p))
    BY <1>1, <2>1, CallsStay
  <2>6. Told'
    BY <1>1, <1>3, <2>2, <2>3, <2>4, <2>5 DEF Told, Sound
  <2>7. OpenInside' /\ Counts'
    BY <1>1, <2>1, <2>2, CountsStay DEF Sound, files, config
  <2>8. FlagInv'
    BY <1>1, <2>1, <2>2, <2>3 DEF Sound, FlagInv
  <2> QED BY <1>2, <2>6, <2>7, <2>8
<1> QED BY <1>4, <1>5

\* The plugins are told of an interval one after the other.
LEMMA StartPluginKeeps ==
  ASSUME Sound, StartPlugin
  PROVE  Told' /\ OpenInside' /\ FlagInv' /\ Counts' /\ AbutStep
<1>1. PICK p \in Names :
        /\ Called(p)
        /\ outfile' = [outfile EXCEPT ![p] = @ \/ Opens(p)]
        /\ in_file' = [in_file EXCEPT ![p] = IF Opens(p) THEN 1
                                             ELSE IF failed THEN @ ELSE @ + 1]
        /\ calls' = [calls EXCEPT ![p] = [kind |-> "start", number |-> interval_start.number,
                                          time |-> interval_start.time]]
  BY DEF StartPlugin
<1>2. /\ pc = "starting"
      /\ UNCHANGED <<config, interval_start, last_ts, interval_end_needed, logfile, manager,
                     pending, failed, backwards, wrapped>>
      /\ \/ /\ plug < Len(plugins) /\ plug' = plug + 1
            /\ UNCHANGED <<record_cnt, pc>>
         \/ /\ ~ (plug < Len(plugins)) /\ plug' = 1
            /\ \/ pc' = "ending" /\ UNCHANGED record_cnt
               \/ pc' = "processing" /\ record_cnt' = record_cnt + 1
  BY DEF StartPlugin, Proceed
<1>3. /\ plug \in 1..Len(plugins) /\ plugins[plug] = p /\ Len(plugins) \in Nat
      /\ \A i \in 1..Len(plugins) : plugins[i] \in Names
      /\ \A i \in 1..Len(plugins) : i # plug => plugins[i] # p
  BY <1>1, <1>2 DEF Called, Sound, ListInv, Distinct
<1>4. /\ calls'[p].kind = "start" /\ calls'[p].number = interval_start.number
      /\ calls'[p].time = interval_start.time
      /\ \A q \in Names : q # p => calls'[q] = calls[q]
  BY <1>1 DEF Sound, HistoryTypes
<1>5. Started(p)'
  BY <1>2, <1>4 DEF Started
<1>6. \A q \in Names : q # p => /\ Untold(q)' <=> Untold(q)
                                /\ Started(q)' <=> Started(q)
                                /\ LeftBehind(q)' <=> LeftBehind(q)
  BY <1>2, <1>4 DEF Untold, Started, LeftBehind
<1>7. /\ \A i \in 1..Len(plugins) : i < plug => Started(plugins[i])
      /\ record_cnt = 0 => \A i \in 1..Len(plugins) : i >= plug => Untold(plugins[i])
      /\ record_cnt > 0 => \A i \in 1..Len(plugins) : i >= plug => LeftBehind(plugins[i])
      /\ \A q \in Names : q \notin ToSet(plugins) => Untold(q)
  BY <1>2 DEF Sound, Told
<1>8. plugins' = plugins
  BY <1>2 DEF manager
<1>9. \A q \in Names : q \notin ToSet(plugins) => Untold(q)'
  <2>1. p \in ToSet(plugins)
    BY <1>3 DEF ToSet
  <2> QED BY <1>6, <1>7, <2>1
<1>10. \A i \in 1..Len(plugins) : i <= plug => Started(plugins[i])'
  BY <1>3, <1>5, <1>6, <1>7, <1>8
<1>11. record_cnt \in Nat
  BY DEF Sound, ClockTypes
<1>12. Told'
  <2>1. CASE plug < Len(plugins) /\ plug' = plug + 1 /\ UNCHANGED <<record_cnt, pc>>
    <3>1. \A i \in 1..Len(plugins) : i < plug' => Started(plugins[i])'
      BY <1>3, <1>10, <2>1
    <3>2. \A i \in 1..Len(plugins) : i >= plug' => i >= plug /\ plugins[i] # p /\ plugins[i] \in Names
      BY <1>3, <2>1
    <3>3. record_cnt = 0 => \A i \in 1..Len(plugins) : i >= plug' => Untold(plugins[i])'
      BY <1>6, <1>7, <1>8, <3>2
    <3>4. record_cnt > 0 => \A i \in 1..Len(plugins) : i >= plug' => LeftBehind(plugins[i])'
      BY <1>6, <1>7, <1>8, <3>2
    <3> QED BY <1>2, <1>9, <1>8, <2>1, <3>1, <3>3, <3>4 DEF Told
  <2>2. CASE ~ (plug < Len(plugins)) /\ plug' = 1 /\ pc' \in {"ending", "processing"}
    <3>1. \A i \in 1..Len(plugins) : Started(plugins[i])'
      BY <1>3, <1>10, <2>2
    <3> QED BY <1>9, <1>8, <2>2, <3>1 DEF Told
  <2> QED BY <1>2, <2>1, <2>2
<1>13. pc' # "freed" /\ outfile'[p] /\ \A q \in Names : q # p => outfile'[q] = outfile[q]
  BY <1>1, <1>2 DEF Sound, FileTypes, Opens
<1>14. OpenInside'
  <2>1. ~ Untold(p)'
    BY <1>4 DEF Untold
  <2> QED BY <1>2, <1>4, <1>6, <1>13, <2>1 DEF Sound, OpenInside
<1>15. FlagInv'
  <2>1. pc' = "processing" => record_cnt' > 0
    BY <1>2, <1>11
  <2>2. record_cnt' = 0 => record_cnt = 0
    BY <1>2, <1>11
  <2>3. ~ interval_end_needed => pending = 0
    BY <1>2 DEF Sound, FlagInv
  <2>4. pc' \in {"starting", "ending", "processing"}
    BY <1>2
  <2> QED BY <1>2, <2>1, <2>2, <2>3, <2>4 DEF Sound, FlagInv
<1>16. Untold(p) \/ LeftBehind(p)
  BY <1>3, <1>7, <1>11
<1>17. Counts'
  <2> SUFFICES ASSUME ~ wrapped, output_rotate > 0, NEW q \in Names
               PROVE  FileCount(q)'
    BY <1>2 DEF Counts, config
  <2>1. FileCount(q) /\ FileCount(p)
    BY DEF Sound, Counts
  <2>2. UNCHANGED output_rotate /\ output_rotate \in Nat \ {0}
    BY <1>2 DEF config, Sound, HistoryTypes
  <2>3. CASE q # p
    <3>1. in_file'[q] = in_file[q] /\ outfile'[q] = outfile[q] /\ calls'[q] = calls[q]
      BY <1>1, <1>4, <1>13, <2>3 DEF Sound, HistoryTypes
    <3> QED BY <1>2, <1>13, <2>1, <2>2, <3>1 DEF FileCount, Untold
  <2>4. CASE q = p
    <3>1. in_file'[p] = IF Opens(p) THEN 1 ELSE in_file[p] + 1
      BY <1>1 DEF Sound, HistoryTypes
    <3>2. interval_start.number \in Nat
      BY CorsaroAssumption DEF Sound, FlagInv
    <3>3. in_file'[p] = (interval_start.number % output_rotate) + 1
      <4>1. CASE Untold(p)
        <5>1. record_cnt = 0 \/ ~ (record_cnt > 0)
          BY <1>3, <1>7, <4>1 DEF Untold, LeftBehind
        <5>2. interval_start.number = 0
          BY <1>11, <5>1 DEF Sound, FlagInv
        <5>3. Opens(p)
          BY <1>2, <4>1 DEF Opens, Sound, OpenInside
        <5>4. 0 % output_rotate = 0
          BY <2>2
        <5> QED BY <3>1, <5>2, <5>3, <5>4
      <4>2. CASE LeftBehind(p)
        <5>1. PICK n \in Nat : n = calls[p].number
          BY <4>2, CorsaroAssumption DEF LeftBehind
        <5>2. interval_start.number = n + 1 /\ calls[p].kind = "end"
          BY <4>2, <5>1 DEF LeftBehind
        <5>3. /\ n % output_rotate \in 0..output_rotate - 1
              /\ (n + 1) % output_rotate = 0 => n % output_rotate = output_rotate - 1
              /\ (n + 1) % output_rotate # 0 => (n + 1) % output_rotate = (n % output_rotate) + 1
          BY <2>2, NextInFile
        <5>4. in_file[p] = (n % output_rotate) + 1
          BY <2>1, <5>1, <5>2 DEF FileCount, Untold
        <5>5. Opens(p) <=> (n + 1) % output_rotate = 0
          BY <1>2, <2>1, <5>1, <5>2 DEF FileCount, Opens
        <5>6. CASE Opens(p)
          BY <3>1, <5>2, <5>5, <5>6
        <5>7. CASE ~ Opens(p)
          BY <3>1, <5>2, <5>3, <5>4, <5>5, <5>7
        <5> QED BY <5>6, <5>7
      <4> QED BY <1>16, <4>1, <4>2
    <3> QED BY <1>4, <2>2, <2>4, <3>2, <3>3 DEF FileCount, Untold
  <2> QED BY <2>3, <2>4
<1>18. AbutStep
  <2> SUFFICES ASSUME NEW q \in Names, calls'[q] # calls[q]
               PROVE  \/ calls[q].kind = "none" /\ calls'[q].kind = "start" /\ calls'[q].number = 0
                      \/ /\ calls[q].kind = "end" /\ calls'[q].kind = "start"
                         /\ calls'[q].number = (calls[q].number + 1) % Number
                         /\ calls'[q].time = calls[q].time + 1
    BY DEF AbutStep
  <2>1. q = p
    BY <1>4
  <2>2. CASE Untold(p)
    <3>1. record_cnt = 0 \/ ~ (record_cnt > 0)
      BY <1>3, <1>7, <2>2 DEF Untold, LeftBehind
    <3>2. interval_start.number = 0
      BY <1>11, <3>1 DEF Sound, FlagInv
    <3> QED BY <1>4, <2>1, <2>2, <3>2 DEF Untold
  <2>3. CASE LeftBehind(p)
    BY <1>4, <2>1, <2>3 DEF LeftBehind
  <2> QED BY <1>16, <2>2, <2>3
<1> QED BY <1>12, <1>14, <1>15, <1>17, <1>18

\* The plugins leave an interval one after the other, each with its file open.
LEMMA EndPluginKeeps ==
  ASSUME Sound, EndPlugin \/ EndLastPlugin
  PROVE  Told' /\ OpenInside' /\ FlagInv' /\ Counts' /\ AbutStep
<1> DEFINE t == IF pc = "ending" THEN next_report - 1 ELSE last_ts
<1>1. PICK p \in Names :
        /\ Called(p)
        /\ outfile[p] =>
             /\ Rotated(p)
             /\ calls' = [calls EXCEPT ![p] = [kind |-> "end", number |-> interval_start.number,
                                               time |-> t]]
             /\ \/ /\ plug < Len(plugins) /\ plug' = plug + 1
                   /\ UNCHANGED <<pc, interval_end_needed, pending, logfile>>
                \/ /\ ~ (plug < Len(plugins))
                   /\ interval_end_needed' = FALSE /\ pending' = 0
                   /\ (pc = "ending" /\ pc' = "ended") \/ (pc = "last" /\ pc' = "dumped")
  <2>1. CASE EndPlugin
    <3>1. pc = "ending"
      BY <2>1 DEF EndPlugin
    <3>2. t = next_report - 1
      BY <3>1
    <3> HIDE DEF t
    <3> QED BY <2>1, <3>1, <3>2 DEF EndPlugin, IntervalEnded
  <2>2. CASE EndLastPlugin
    <3>1. pc = "last"
      BY <2>2 DEF EndLastPlugin
    <3>2. t = last_ts
      BY <3>1
    <3> HIDE DEF t
    <3> QED BY <2>2, <3>1, <3>2 DEF EndLastPlugin, IntervalEnded
  <2> QED BY <2>1, <2>2
<1>2. /\ pc \in {"ending", "last"}
      /\ UNCHANGED <<config, interval_start, next_report, last_ts, record_cnt, manager, in_file,
                     failed, backwards, wrapped>>
  BY DEF EndPlugin, EndLastPlugin
<1>3. /\ plug \in 1..Len(plugins) /\ plugins[plug] = p /\ Len(plugins) \in Nat
      /\ \A i \in 1..Len(plugins) : plugins[i] \in Names
      /\ \A i \in 1..Len(plugins) : i # plug => plugins[i] # p
  BY <1>1, <1>2 DEF Called, Sound, ListInv, Distinct
<1>4. /\ \A i \in 1..Len(plugins) : i < plug => Ended(plugins[i])
      /\ \A i \in 1..Len(plugins) : i >= plug => Started(plugins[i])
      /\ \A q \in Names : q \notin ToSet(plugins) => Untold(q)
  BY <1>2 DEF Sound, Told
<1>5. Started(p) /\ outfile[p]
  <2>1. Started(p)
    BY <1>3, <1>4
  <2> QED BY <1>2, <2>1 DEF Sound, OpenInside, Started
<1>6. /\ Rotated(p)
      /\ \/ /\ plug < Len(plugins) /\ plug' = plug + 1
            /\ UNCHANGED <<pc, interval_end_needed, pending, logfile>>
         \/ /\ ~ (plug < Len(plugins))
            /\ interval_end_needed' = FALSE /\ pending' = 0
            /\ (pc = "ending" /\ pc' = "ended") \/ (pc = "last" /\ pc' = "dumped")
  BY <1>1, <1>5
<1>7. /\ calls'[p].kind = "end" /\ calls'[p].number = interval_start.number
      /\ calls'[p].time = t
      /\ \A q \in Names : q # p => calls'[q] = calls[q]
  BY <1>1, <1>5 DEF Sound, HistoryTypes
<1>8. plugins' = plugins
  BY <1>2 DEF manager
<1>9. Ended(p)'
  BY <1>2, <1>6, <1>7 DEF Ended
<1>10. \A q \in Names : q # p => /\ Untold(q)' <=> Untold(q)
                                 /\ Started(q)' <=> Started(q)
                                 /\ Ended(q) => Ended(q)'
  BY <1>2, <1>6, <1>7 DEF Untold, Started, Ended
<1>11. \A i \in 1..Len(plugins) : i <= plug => Ended(plugins[i])'
  BY <1>3, <1>4, <1>8, <1>9, <1>10
<1>12. \A q \in Names : q \notin ToSet(plugins) => Untold(q)'
  <2>1. p \in ToSet(plugins)
    BY <1>3 DEF ToSet
  <2> QED BY <1>4, <1>10, <2>1
<1>13. Told'
  <2>1. CASE plug < Len(plugins) /\ plug' = plug + 1 /\ UNCHANGED pc
    <3>1. \A i \in 1..Len(plugins) : i < plug' => Ended(plugins[i])'
      BY <1>3, <1>11, <2>1
    <3>2. \A i \in 1..Len(plugins) :
            i >= plug' => i >= plug /\ plugins[i] # p /\ plugins[i] \in Names
      BY <1>3, <2>1
    <3>3. \A i \in 1..Len(plugins) : i >= plug' => Started(plugins[i])'
      BY <1>4, <1>8, <1>10, <3>2
    <3> QED BY <1>2, <1>8, <1>12, <2>1, <3>1, <3>3 DEF Told
  <2>2. CASE ~ (plug < Len(plugins)) /\ pc' \in {"ended", "dumped"}
    <3>1. \A i \in 1..Len(plugins) : Ended(plugins[i])'
      BY <1>3, <1>11, <2>2
    <3> QED BY <1>8, <1>12, <2>2, <3>1 DEF Told
  <2> QED BY <1>6, <2>1, <2>2
<1>14. /\ outfile'[p] <=> ~ IsRotateInterval
       /\ \A q \in Names : q # p => outfile'[q] = outfile[q]
       /\ pc' # "freed"
  BY <1>2, <1>5, <1>6 DEF Rotated, files, Sound, FileTypes
<1>15. OpenInside'
  <2>1. ~ Untold(p)' /\ calls'[p].kind # "start"
    BY <1>7 DEF Untold
  <2> QED BY <1>2, <1>7, <1>10, <1>14, <2>1 DEF Sound, OpenInside
<1>16. FlagInv'
  <2>1. CASE plug' = plug + 1 /\ UNCHANGED <<pc, interval_end_needed, pending, logfile>>
    BY <1>2, <2>1 DEF Sound, FlagInv
  <2>2. CASE interval_end_needed' = FALSE /\ pending' = 0 /\ pc' \in {"ended", "dumped"}
    BY <1>2, <2>2 DEF Sound, FlagInv
  <2> QED BY <1>6, <2>1, <2>2
<1>17. Counts'
  <2> SUFFICES ASSUME ~ wrapped, output_rotate > 0, NEW q \in Names
               PROVE  FileCount(q)'
    BY <1>2 DEF Counts, config
  <2>1. FileCount(q)
    BY DEF Sound, Counts
  <2>2. UNCHANGED <<output_rotate, in_file>>
    BY <1>2 DEF config
  <2>3. CASE q # p
    BY <1>2, <1>7, <1>14, <2>1, <2>2, <2>3 DEF FileCount, Untold
  <2>4. CASE q = p
    <3>1. calls[p].kind = "start" /\ calls'[p].number = calls[p].number
      BY <1>5, <1>7 DEF Started
    <3>2. calls[p].number \in Nat /\ in_file[p] = (calls[p].number % output_rotate) + 1
      BY <2>1, <2>4, <3>1 DEF FileCount, Untold
    <3>3. outfile'[p] <=> (calls[p].number + 1) % output_rotate # 0
      BY <1>7, <1>14, <3>1 DEF IsRotateInterval, Sound, HistoryTypes
    <3> QED BY <1>7, <2>2, <2>4, <3>1, <3>2, <3>3 DEF FileCount, Untold
  <2> QED BY <2>3, <2>4
<1>18. ~ backwards => interval_start.time <= t
  BY <1>2 DEF Sound, ClockTypes, ClockInv, IntervalFits, FlagInv
<1> HIDE DEF t
<1>19. AbutStep
  <2> SUFFICES ASSUME NEW q \in Names, calls'[q] # calls[q]
               PROVE  /\ calls[q].kind = "start" /\ calls'[q].kind = "end"
                      /\ calls'[q].number = calls[q].number
                      /\ ~ backwards => calls[q].time <= calls'[q].time
    BY DEF AbutStep
  <2>1. q = p
    BY <1>7
  <2> QED BY <1>5, <1>7, <1>18, <2>1 DEF Started
<1> QED BY <1>13, <1>15, <1>16, <1>17, <1>19

\* The next interval begins where the plugins have left the last one.
LEMMA NextIntervalKeeps ==
  ASSUME Sound, NextInterval, ~ failed'
  PROVE  Told' /\ OpenInside' /\ FlagInv' /\ Counts' /\ AbutStep
<1>1. /\ pc = "ended" /\ pc' = "starting" /\ plug' = 1
      /\ UNCHANGED <<config, next_report, record_cnt, manager, files, calls, in_file, pending,
                     interval_end_needed>>
      /\ interval_start' = [number |-> (interval_start.number + 1) % Number,
                            time |-> next_report]
      /\ wrapped' = (wrapped \/ interval_start.number + 1 = Number)
  BY DEF NextInterval, BeginStart
<1>2. plugins' = plugins /\ \A i \in 1..Len(plugins) : plugins[i] \in Names
  BY <1>1 DEF manager, Sound, ListInv
<1>3. /\ record_cnt > 0 /\ next_report \in Int
      /\ interval_start.number \in 0..Number - 1 /\ Number \in Nat \ {0}
  BY <1>1, CorsaroAssumption DEF Sound, ClockInv, IntervalFits, FlagInv
<1>4. ~ wrapped' => ~ wrapped /\ interval_start.number + 1 # Number
  BY <1>1, Zenon
<1>5. PICK n \in 0..Number - 1 : n = interval_start.number
  BY <1>3
<1>6. /\ (n + 1) % Number \in 0..Number - 1
      /\ n + 1 # Number => (n + 1) % Number = n + 1
  BY <1>3
<1>7. interval_start'.number = (n + 1) % Number /\ interval_start'.time = next_report
  BY <1>1, <1>5
<1>8. \A p \in Names : Ended(p) => LeftBehind(p)'
  <2> SUFFICES ASSUME NEW p \in Names, Ended(p) PROVE LeftBehind(p)'
    OBVIOUS
  <2>1. /\ calls'[p] = calls[p] /\ calls[p].kind = "end" /\ calls[p].number = n
        /\ calls[p].time = next_report - 1
    BY <1>1, <1>5 DEF Ended
  <2>2. ~ wrapped' => interval_start'.number = n + 1
    BY <1>4, <1>5, <1>6, <1>7
  <2> QED BY <1>3, <1>7, <2>1, <2>2 DEF LeftBehind
<1>9. \A p \in Names : Untold(p)' <=> Untold(p)
  BY <1>1 DEF Untold
<1>10. Told'
  <2>1. \A i \in 1..Len(plugins) : LeftBehind(plugins[i])'
    BY <1>1, <1>2, <1>8 DEF Sound, Told
  <2>2. \A i \in 1..Len(plugins) : ~ (i < plug')
    BY <1>1
  <2>3. record_cnt' > 0 /\ record_cnt' # 0
    BY <1>1, <1>3 DEF Sound, ClockTypes
  <2>4. \A p \in Names : p \notin ToSet(plugins)' => Untold(p)'
    BY <1>2, <1>9 DEF Sound, Told
  <2> QED BY <1>1, <1>2, <2>1, <2>2, <2>3, <2>4 DEF Told
<1>11. OpenInside'
  BY <1>1 DEF Sound, OpenInside, Untold, files
<1>12. Counts'
  BY <1>1, <1>4 DEF Sound, Counts, FileCount, Untold, files, config
<1>13. FlagInv'
  <2>1. record_cnt' # 0
    BY <1>1, <1>3 DEF Sound, ClockTypes
  <2>2. interval_start'.number \in 0..Number - 1
    BY <1>6, <1>7
  <2> QED BY <1>1, <2>1, <2>2 DEF Sound, FlagInv
<1>14. AbutStep
  BY <1>1 DEF AbutStep
<1> QED BY <1>10, <1>11, <1>12, <1>13, <1>14

\* A record is handed to the plugins one after the other.
LEMMA ProcessPluginKeeps ==
  ASSUME Sound, ProcessPlugin
  PROVE  Told' /\ OpenInside' /\ FlagInv' /\ Counts' /\ AbutStep
<1>1. /\ pc = "processing"
      /\ UNCHANGED <<config, clock, logfile, manager, files, calls, in_file, failed, backwards,
                     wrapped>>
      /\ pending' = IF plug = 1 /\ pending < 2 THEN pending + 1 ELSE pending
  BY DEF ProcessPlugin
<1>2. record_cnt > 0
  BY <1>1 DEF Sound, FlagInv
<1>3. plug \in 1..Len(plugins) /\ \A i \in 1..Len(plugins) : plugins[i] \in Names
  BY <1>1 DEF Sound, ListInv
<1>4. \A i \in 1..Len(plugins) : Started(plugins[i])
  BY <1>1, <1>2 DEF Sound, Told
<1>5. outfile[plugins[plug]]
  BY <1>1, <1>3, <1>4 DEF Sound, OpenInside, Started
<1>6. (plug < Len(plugins) /\ plug' = plug + 1 /\ pc' = "processing") \/ pc' = "idle"
  BY <1>1, <1>5 DEF ProcessPlugin
<1>7. UNCHANGED <<calls, interval_start, wrapped, plugins, record_cnt>>
  BY <1>1 DEF clock, manager
<1>8. \A p \in Names : (Started(p)' <=> Started(p)) /\ (Untold(p)' <=> Untold(p))
  BY <1>7, CallsStay
<1>9. Told'
  BY <1>1, <1>2, <1>3, <1>4, <1>6, <1>7, <1>8 DEF Told, Sound, ClockTypes
<1>10. OpenInside' /\ Counts'
  BY <1>1, <1>6, CountsStay DEF Sound, files, config
<1>11. FlagInv'
  <2>1. pending \in 0..2 /\ plug \in Nat \ {0} /\ record_cnt # 0
    BY <1>2, <1>3 DEF Sound, HistoryTypes, ClockTypes
  <2>2. ~ interval_end_needed => pending' <= 1
    BY <1>1, <2>1 DEF Sound, FlagInv
  <2>3. pc' = "processing" => plug' # 1
    BY <1>6, <2>1
  <2> QED BY <1>1, <1>2, <1>6, <2>1, <2>2, <2>3 DEF Sound, FlagInv, clock
<1>12. AbutStep
  BY <1>1 DEF AbutStep
<1> QED BY <1>9, <1>10, <1>11, <1>12

\* The last interval is ended, or there is nothing in it, or one record.
LEMMA FinalizeKeeps ==
  ASSUME Sound, FinalizeOutput \/ FreeOutput
  PROVE  Told' /\ OpenInside' /\ FlagInv' /\ Counts' /\ AbutStep
<1>1. UNCHANGED <<config, clock, manager, history>>
  BY DEF FinalizeOutput, FreeOutput
<1>2. UNCHANGED <<calls, in_file, pending, failed, backwards, wrapped, interval_start,
                  record_cnt, plugins, argc, output_rotate>>
  BY <1>1 DEF config, clock, manager, history
<1>3. \A p \in Names : (Started(p)' <=> Started(p)) /\ (Untold(p)' <=> Untold(p))
  BY <1>2, CallsStay
<1>4. AbutStep
  BY <1>2 DEF AbutStep
<1>5. CASE pc' = "freed"
  <2>1. Told'
    BY <1>2, <1>3, <1>5 DEF Sound, Told
  <2>2. OpenInside' /\ Counts'
    BY <1>2, <1>5, CountsFree DEF Sound
  <2>3. pending <= 1
    <3>1. CASE FinalizeOutput
      <4>1. ~ interval_end_needed
        BY <1>5, <3>1 DEF FinalizeOutput, Sound, ClockInv, FlagInv
      <4> QED BY <4>1 DEF Sound, FlagInv
    <3>2. CASE FreeOutput
      BY <3>2 DEF FreeOutput, Sound, FlagInv
    <3> QED BY <3>1, <3>2
  <2>4. FlagInv'
    BY <1>1, <1>2, <1>5, <2>3 DEF Sound, FlagInv, clock
  <2> QED BY <1>4, <2>1, <2>2, <2>4
<1>6. CASE pc' # "freed"
  <2>1. /\ pc = "idle" /\ interval_end_needed /\ pc' = "last" /\ plug' = 1
        /\ UNCHANGED <<files, logfile>>
    BY <1>6 DEF FinalizeOutput, FreeOutput, Free
  <2>2. record_cnt > 0 /\ record_cnt # 0
    BY <2>1 DEF Sound, FlagInv, ClockTypes
  <2>3. \A i \in 1..Len(plugins) : plugins[i] \in Names /\ Started(plugins[i]) /\ ~ (i < 1)
    BY <2>1, <2>2 DEF Sound, Told, ListInv
  <2>4. Told'
    BY <1>2, <1>3, <2>1, <2>2, <2>3 DEF Sound, Told
  <2>5. OpenInside' /\ Counts'
    BY <1>2, <2>1, CountsStay DEF Sound, files
  <2>6. FlagInv'
    BY <1>1, <1>2, <2>1, <2>2 DEF Sound, FlagInv, ClockInv, clock
  <2> QED BY <1>4, <2>4, <2>5, <2>6
<1> QED BY <1>5, <1>6

\* Every step keeps the invariant, and tells the plugins what it may.
LEMMA CallsNext ==
  ASSUME IInvClock, IInvFiles, IInvCalls, [Next]_vars
  PROVE  IInvCalls' /\ [AbutStep]_vars
<1>1. Distinct(plugins)' /\ Distinct(plugins_enabled)' /\ HistoryTypes'
  BY DistinctNext, HistoryTypesNext DEF IInvFiles, IInvCalls
<1>2. ListInv'
  BY ListNext DEF IInvFiles
<1>3. CASE failed
  <2>1. failed'
    BY <1>3 DEF Next, vars, history, EnablePlugin, StartOutput, StartLogFails, PerRecord,
         BeginStart, StartPlugin, StartFails, EndPlugin, EndFails, NextInterval,
         ProcessPlugin, ProcessFails, Fail, FinalizeOutput, EndLastPlugin, EndLastFails,
         FreeOutput
  <2> QED BY <1>1, <1>3, <2>1 DEF IInvCalls, AbutStep
<1>4. CASE ~ failed
  <2>1. Sound
    BY <1>4 DEF Sound, IInvClock, IInvFiles, IInvCalls
  <2> DEFINE Kept == Told' /\ OpenInside' /\ FlagInv' /\ Counts'
  <2>2. CASE EnablePlugin \/ StartOutput
    <3>1. AbutStep
      BY <2>2 DEF AbutStep, EnablePlugin, StartOutput, history
    <3>2. ~ failed' => Kept
      BY <1>2, <2>1, <2>2, BeforeStart
    <3> QED BY <1>1, <3>1, <3>2 DEF IInvCalls
  <2>3. CASE PerRecord
    <3>1. AbutStep
      BY <2>3 DEF AbutStep, PerRecord
    <3>2. ~ failed' => Kept
      BY <2>1, <2>3, PerRecordKeeps
    <3> QED BY <1>1, <3>1, <3>2 DEF IInvCalls
  <2>4. CASE NextInterval
    <3>1. AbutStep
      BY <2>4 DEF AbutStep, NextInterval
    <3>2. ~ failed' => Kept
      BY <2>1, <2>4, NextIntervalKeeps
    <3> QED BY <1>1, <3>1, <3>2 DEF IInvCalls
  <2>5. CASE StartPlugin
    BY <1>1, <2>1, <2>5, StartPluginKeeps DEF IInvCalls
  <2>6. CASE EndPlugin \/ EndLastPlugin
    BY <1>1, <2>1, <2>6, EndPluginKeeps DEF IInvCalls
  <2>7. CASE ProcessPlugin
    BY <1>1, <2>1, <2>7, ProcessPluginKeeps DEF IInvCalls
  <2>8. CASE FinalizeOutput \/ FreeOutput
    BY <1>1, <2>1, <2>8, FinalizeKeeps DEF IInvCalls
  <2>9. CASE StartLogFails \/ StartFails \/ EndFails \/ ProcessFails \/ EndLastFails
    <3>1. failed' /\ UNCHANGED calls
      BY <2>9 DEF StartLogFails, StartFails, EndFails, ProcessFails, EndLastFails, Fail
    <3> QED BY <1>1, <3>1 DEF IInvCalls, AbutStep
  <2>10. CASE UNCHANGED vars
    <3>1. \A p \in Names : /\ Untold(p)' <=> Untold(p)
                           /\ Started(p)' <=> Started(p)
                           /\ LeftBehind(p)' <=> LeftBehind(p)
                           /\ Ended(p)' <=> Ended(p)
      BY <2>10 DEF vars, history, clock, Untold, Started, LeftBehind, Ended
    <3>2. \A i \in 1..Len(plugins) : plugins[i] \in Names
      BY <2>1 DEF Sound, ListInv
    <3>3. UNCHANGED <<plugins, pc, plug, record_cnt>>
      BY <2>10 DEF vars, manager, clock
    <3>4. Told'
      BY <2>1, <3>1, <3>2, <3>3 DEF Sound, Told
    <3>5. OpenInside' /\ Counts'
      BY <2>1, <2>10, CountsStay DEF Sound, vars, history, files, config
    <3>6. FlagInv'
      BY <2>1, <2>10 DEF Sound, FlagInv, vars, history, clock, manager
    <3> QED BY <1>1, <2>10, <3>4, <3>5, <3>6 DEF IInvCalls
  <2> QED BY <2>2, <2>3, <2>4, <2>5, <2>6, <2>7, <2>8, <2>9, <2>10 DEF Next
<1> QED BY <1>3, <1>4

\* For all plugins, lengths and rotations: until a call fails, no plugin is
\* called without its output file and no assertion fails, but for arguments set
\* twice; and bgpcorsaro_finalize_output loses one record at most.
THEOREM NoFailureNoLossHolds == Spec => []NoFailureNoLoss
<1>1. IInvCalls => NoFailureNoLoss
  BY DEF IInvCalls, FlagInv, NoFailureNoLoss, CrashesOnlyAfterFailure, LosesAtMostLastRecord
<1>2. IInvClock /\ IInvFiles /\ IInvCalls /\ [Next]_vars => IInvCalls'
  BY CallsNext
<1> QED
  BY <1>1, <1>2, CallsInit, ClockInit, ClockNext, FilesInit, FilesNext, PTL DEF Spec

\* For all plugins and rotations: until a call fails or the number of the
\* interval wraps, a plugin closes its output file after output_rotate intervals.
THEOREM RotatesOnTimeHolds == Spec => []RotatesOnTime
<1>1. IInvFiles /\ IInvCalls => RotatesOnTime
  <2> SUFFICES ASSUME IInvFiles, IInvCalls, ~ failed, ~ wrapped, output_rotate > 0,
                      NEW p \in Names
               PROVE  /\ in_file[p] <= output_rotate
                      /\ pc # "freed" /\ ~ outfile[p] => in_file[p] \in {0, output_rotate}
    BY DEF RotatesOnTime
  <2>1. FileCount(p) /\ output_rotate \in Nat \ {0}
    BY DEF IInvCalls, HistoryTypes, Counts
  <2>2. CASE Untold(p)
    BY <2>1, <2>2 DEF FileCount
  <2>3. CASE ~ Untold(p)
    <3>1. PICK n \in Nat : n = calls[p].number
      BY <2>1, <2>3 DEF FileCount
    <3>2. in_file[p] = (n % output_rotate) + 1
      BY <2>1, <2>3, <3>1 DEF FileCount
    <3>3. /\ n % output_rotate \in 0..output_rotate - 1
          /\ (n + 1) % output_rotate = 0 => n % output_rotate = output_rotate - 1
      BY <2>1, NextInFile
    <3>4. pc # "freed" /\ ~ outfile[p] => (n + 1) % output_rotate = 0
      <4> SUFFICES ASSUME pc # "freed", ~ outfile[p]
                   PROVE  calls[p].kind = "end"
        BY <2>1, <3>1 DEF FileCount
      <4>1. calls[p].kind # "start"
        BY DEF IInvCalls, OpenInside
      <4>2. calls[p].kind \in {"none", "start", "end"}
        BY DEF IInvCalls, HistoryTypes
      <4> QED BY <2>3, <4>1, <4>2 DEF Untold
    <3> QED BY <2>1, <3>2, <3>3, <3>4
  <2> QED BY <2>2, <2>3
<1>2. IInvClock /\ IInvFiles /\ IInvCalls /\ [Next]_vars => IInvCalls'
  BY CallsNext
<1> QED
  BY <1>1, <1>2, CallsInit, ClockInit, ClockNext, FilesInit, FilesNext, PTL DEF Spec

\* For all plugins, lengths and times: until a call fails, a plugin is told to
\* start and to end intervals in turn, each one second after the last one ended
\* and with the next number, over all gaps in the records.
THEOREM IntervalsAbutHolds == Spec => IntervalsAbut
<1>1. IInvClock /\ IInvFiles /\ IInvCalls /\ [Next]_vars => IInvCalls' /\ [AbutStep]_vars
  BY CallsNext
<1> QED
  BY <1>1, CallsInit, ClockInit, ClockNext, FilesInit, FilesNext, PTL
  DEF Spec, IntervalsAbut, AbutStep

=============================================================================
