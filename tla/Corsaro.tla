------------------------------- MODULE Corsaro -------------------------------
(***************************************************************************)
(* bgpcorsaro, bgpcorsaro/lib/bgpcorsaro.c and bgpcorsaro_plugin.c: it cuts *)
(* the stream of records into intervals and tells its plugins, one after   *)
(* the other, where an interval starts and ends and which records it has.  *)
(* The plugins (lib/plugins) write to output files that they rotate; all   *)
(* of them do it the same way.  Each call of a plugin is a step and may    *)
(* fail, which ends the call of bgpcorsaro on the spot; the user may carry *)
(* on afterwards.                                                          *)
(***************************************************************************)
EXTENDS Integers, Sequences, SequencesExt

CONSTANTS
  Plugins,          \* the plugins compiled in, in their order
  Lengths,          \* the lengths of an interval a user may set, < 0 for none
  Rotations,        \* the values of output_rotate, in intervals, 0 for never
  MetaRotations,    \* the same for the log file, < 0 to follow output_rotate
  Number,           \* 2^16, the size of an interval number
  Times,            \* the times of records
  MaxRecords        \* bound of the model

ASSUME CorsaroAssumption ==
  /\ Plugins \in Seq(STRING) /\ Plugins # <<>> /\ IsInjective(Plugins)
  /\ Lengths \subseteq Int \ {0}
  /\ Rotations \subseteq Nat
  /\ MetaRotations \subseteq Int
  /\ Number \in Nat \ {0}
  /\ Times \subseteq Nat \ {0}
  /\ MaxRecords \in Nat

Names == ToSet(Plugins)
OUTFILE_POINTERS == 2

VARIABLES
  \* bgpcorsaro_t: what the user has set
  interval, interval_align, output_rotate, meta_output_rotate, logfile_disabled,
  timestamped,      \* bgpcorsaro_io_template_has_timestamp
  \* bgpcorsaro_t: its state
  interval_start,   \* number and time
  next_report, last_ts, interval_end_needed, record_cnt,
  logfile,          \* it is open
  \* bgpcorsaro_plugin_manager_t
  plugins_enabled,  \* in the order in which they were enabled
  plugins,          \* the list that is walked
  argc,             \* of each plugin
  \* the state of the plugins
  outfile,          \* it is not NULL
  outfile_p,        \* the same for each of the pointers
  outfile_n,
  \* control
  pc, plug,         \* plug: the place in the list of plugins
  \* history
  calls,            \* the last start or end of an interval each plugin was told
  in_file,          \* the intervals in the output file of each plugin
  pending,          \* records processed since an interval ended, 2 for more
  failed,           \* some call failed
  backwards,        \* a record was older than the one before
  wrapped           \* the number of the interval has wrapped

config == <<interval, interval_align, output_rotate, meta_output_rotate,
            logfile_disabled, timestamped>>
clock == <<interval_start, next_report, last_ts, interval_end_needed, record_cnt>>
manager == <<plugins_enabled, plugins, argc>>
files == <<outfile, outfile_p, outfile_n>>
history == <<calls, in_file, pending, failed, backwards, wrapped>>
vars == <<config, clock, logfile, manager, files, pc, plug, history>>

\* bgpcorsaro_alloc_output and the setters, which come before start_output.
Init ==
  /\ interval \in Lengths
  /\ interval_align \in BOOLEAN
  /\ output_rotate \in Rotations
  /\ meta_output_rotate \in MetaRotations
  /\ logfile_disabled \in BOOLEAN
  /\ timestamped \in BOOLEAN
  /\ interval_start = [number |-> 0, time |-> 0]
  /\ next_report = 0 /\ last_ts = 0
  /\ interval_end_needed = FALSE
  /\ record_cnt = 0
  /\ logfile = FALSE
  /\ plugins_enabled = <<>>
  /\ plugins = Plugins
  /\ argc = [p \in Names |-> 1]
  /\ outfile = [p \in Names |-> FALSE]
  /\ outfile_p = [p \in Names |-> [i \in 0..OUTFILE_POINTERS - 1 |-> FALSE]]
  /\ outfile_n = [p \in Names |-> 0]
  /\ pc = "new" /\ plug = 0
  /\ calls = [p \in Names |-> [kind |-> "none", number |-> 0, time |-> 0]]
  /\ in_file = [p \in Names |-> 0]
  /\ pending = 0
  /\ failed = FALSE /\ backwards = FALSE /\ wrapped = FALSE

-----------------------------------------------------------------------------
(* Before the start                                                        *)

\* bgpcorsaro_plugin_enable_plugin asserts that a plugin has no arguments yet,
\* and enables it once.
EnablePlugin ==
  /\ pc = "new"
  /\ \E p \in ToSet(plugins), args \in BOOLEAN :
       IF argc[p] # 1
       THEN pc' = "aborted" /\ UNCHANGED manager
       ELSE /\ argc' = [argc EXCEPT ![p] = IF args THEN 2 ELSE 1]
            /\ plugins_enabled' = IF p \in ToSet(plugins_enabled)
                                  THEN plugins_enabled
                                  ELSE Append(plugins_enabled, p)
            /\ UNCHANGED <<pc, plugins>>
  /\ UNCHANGED <<config, clock, logfile, files, plug, history>>

\* The log file waits for the first interval if its name has a time in it.
LogsAtStart == ~ logfile_disabled /\ ~ timestamped

\* bgpcorsaro_start_output with bgpcorsaro_plugin_manager_start, which asserts
\* that there is no log file yet.  A plugin that fails leaves the rest as it is.
StartOutput ==
  /\ pc = "new"
  /\ IF logfile
     THEN pc' = "aborted" /\ UNCHANGED <<logfile, plugins, failed>>
     ELSE /\ logfile' = LogsAtStart
          /\ plugins' = IF plugins_enabled # <<>> THEN plugins_enabled ELSE plugins
          /\ \/ pc' = "idle" /\ UNCHANGED failed
             \/ pc' = "new" /\ failed' = TRUE
  /\ UNCHANGED <<config, clock, plugins_enabled, argc, files, plug, calls, in_file, pending,
                 backwards, wrapped>>

\* The log file cannot be opened.
StartLogFails ==
  /\ pc = "new"
  /\ ~ logfile /\ LogsAtStart
  /\ failed' = TRUE
  /\ UNCHANGED <<config, clock, logfile, manager, files, pc, plug, calls, in_file, pending,
                 backwards, wrapped>>

-----------------------------------------------------------------------------
(* The ends of a call                                                      *)

\* close_output of each plugin on the list closes all its files.
CloseOutput ==
  /\ outfile' = [p \in Names |-> outfile[p] /\ p \notin ToSet(plugins)]
  /\ outfile_p' = [p \in Names |-> [i \in DOMAIN outfile_p[p] |->
                     outfile_p[p][i] /\ p \notin ToSet(plugins)]]
  /\ UNCHANGED outfile_n

\* bgpcorsaro_free
Free ==
  /\ CloseOutput
  /\ logfile' = FALSE
  /\ pc' = "freed"

\* A call returns -1; bgpcorsaro is not freed, so that the user may carry on.
Fail ==
  /\ failed' = TRUE
  /\ pc' = "idle"

\* A plugin writes through an outfile that is NULL.
Crash == pc' = "aborted"

-----------------------------------------------------------------------------
(* start_interval and end_interval                                         *)

Called(p) == plugins[plug] = p

\* Mutant of IsRotateInterval: the interval that ends does not count.
IsRotateIntervalLate ==
  output_rotate # 0 /\ interval_start.number % output_rotate = 0

IsRotateInterval ==
  output_rotate # 0 /\ (interval_start.number + 1) % output_rotate = 0

IsMetaRotateInterval ==
  IF meta_output_rotate < 0
  THEN IsRotateInterval
  ELSE /\ meta_output_rotate > 0
       /\ (interval_start.number + 1) % meta_output_rotate = 0

\* The beginning of start_interval: a log file that was rotated is opened
\* again, and if it cannot be, bgpcorsaro is freed.
BeginStart(number, time) ==
  /\ interval_start' = [number |-> number, time |-> time]
  /\ \/ /\ logfile' = ~ logfile_disabled
        /\ pc' = "starting" /\ plug' = 1
        /\ UNCHANGED <<files, failed>>
     \/ /\ ~ logfile_disabled /\ ~ logfile
        /\ Free
        /\ failed' = TRUE
        /\ UNCHANGED plug

\* Mutant of Proceed: an interval has one second more.
ProceedLate(ts, report) ==
  /\ plug' = 1
  /\ IF interval >= 0 /\ ts > report
     THEN pc' = "ending" /\ UNCHANGED record_cnt
     ELSE pc' = "processing" /\ record_cnt' = record_cnt + 1

\* The loop of bgpcorsaro_per_record once more, or on to the plugins.
Proceed(ts, report) ==
  /\ plug' = 1
  /\ IF interval >= 0 /\ ts >= report
     THEN pc' = "ending" /\ UNCHANGED record_cnt
     ELSE pc' = "processing" /\ record_cnt' = record_cnt + 1

\* When the first interval ends.
FirstReport(ts) ==
  IF interval_align THEN ((ts + interval) \div interval) * interval ELSE ts + interval

\* Mutant of Opens: files are opened for the first interval only.
OpensFirst(p) == ~ outfile[p] /\ record_cnt = 0

\* The plugin has no file, and opens one.
Opens(p) == ~ outfile[p]

\* The next plugin starts the interval.
StartPlugin ==
  /\ pc = "starting"
  /\ \E p \in Names :
       /\ Called(p)
       /\ outfile_p' = [outfile_p EXCEPT ![p][outfile_n[p]] = @ \/ Opens(p)]
       /\ outfile' = [outfile EXCEPT ![p] = @ \/ Opens(p)]
       /\ in_file' = [in_file EXCEPT ![p] = IF Opens(p) THEN 1
                                            ELSE IF failed THEN @ ELSE @ + 1]
       /\ calls' = [calls EXCEPT ![p] = [kind |-> "start", number |-> interval_start.number,
                                         time |-> interval_start.time]]
  /\ IF plug < Len(plugins)
     THEN plug' = plug + 1 /\ UNCHANGED <<next_report, record_cnt, pc>>
     ELSE /\ next_report' = IF record_cnt = 0 THEN FirstReport(last_ts)
                            ELSE next_report + interval
          /\ Proceed(last_ts, next_report')
  /\ UNCHANGED <<config, interval_start, last_ts, interval_end_needed, logfile, manager,
                 outfile_n, pending, failed, backwards, wrapped>>

\* The output file cannot be opened.
StartFails ==
  /\ pc = "starting"
  /\ Opens(plugins[plug])
  /\ Fail
  /\ UNCHANGED <<config, clock, logfile, manager, files, plug, calls, in_file, pending,
                 backwards, wrapped>>

\* Mutant of Rotated: the pointer that comes next is not closed.
RotatedKeepsNext(p) ==
  IF IsRotateInterval
  THEN /\ outfile_n' = [outfile_n EXCEPT ![p] = (@ + 1) % OUTFILE_POINTERS]
       /\ outfile' = [outfile EXCEPT ![p] = FALSE]
       /\ UNCHANGED outfile_p
  ELSE UNCHANGED files

\* What a plugin does with its files when it ends an interval.
Rotated(p) ==
  IF IsRotateInterval
  THEN LET next == (outfile_n[p] + 1) % OUTFILE_POINTERS
       IN  /\ outfile_n' = [outfile_n EXCEPT ![p] = next]
           /\ outfile_p' = [outfile_p EXCEPT ![p][next] = FALSE]
           /\ outfile' = [outfile EXCEPT ![p] = FALSE]
  ELSE UNCHANGED files

\* end_interval has called all plugins.
IntervalEnded ==
  /\ logfile' = (logfile /\ ~ IsMetaRotateInterval)
  /\ interval_end_needed' = FALSE
  /\ pending' = 0

\* The next plugin ends the interval at next_report - 1.
EndPlugin ==
  /\ pc = "ending"
  /\ \E p \in Names :
       /\ Called(p)
       /\ IF ~ outfile[p]
          THEN Crash /\ UNCHANGED <<files, calls, plug, interval_end_needed, pending, logfile>>
          ELSE /\ Rotated(p)
               /\ calls' = [calls EXCEPT ![p] = [kind |-> "end", number |-> interval_start.number,
                                                 time |-> next_report - 1]]
               /\ IF plug < Len(plugins)
                  THEN /\ plug' = plug + 1
                       /\ UNCHANGED <<pc, interval_end_needed, pending, logfile>>
                  ELSE IntervalEnded /\ pc' = "ended" /\ UNCHANGED plug
  /\ UNCHANGED <<config, interval_start, next_report, last_ts, record_cnt, manager, in_file,
                 failed, backwards, wrapped>>

\* A plugin fails to end the interval.  The interface allows it, though no
\* plugin of the repository does.
EndFails ==
  /\ pc = "ending"
  /\ Fail
  /\ UNCHANGED <<config, clock, logfile, manager, files, plug, calls, in_file, pending,
                 backwards, wrapped>>

-----------------------------------------------------------------------------
(* bgpcorsaro_per_record                                                   *)

PerRecord ==
  /\ pc = "idle"
  /\ record_cnt < MaxRecords
  /\ \E ts \in Times :
       /\ last_ts' = ts
       /\ backwards' = (backwards \/ ts < last_ts)
       /\ IF record_cnt = 0
          THEN BeginStart(interval_start.number, ts) /\ UNCHANGED record_cnt
          ELSE /\ Proceed(ts, next_report)
               /\ UNCHANGED <<interval_start, logfile, files, failed>>
  /\ interval_end_needed' = TRUE
  /\ UNCHANGED <<config, next_report, manager, calls, in_file, pending, wrapped>>

\* Mutant of NextInterval: the interval keeps its number.
NextIntervalSameNumber ==
  /\ pc = "ended"
  /\ BeginStart(interval_start.number, next_report)
  /\ UNCHANGED <<config, next_report, last_ts, interval_end_needed, record_cnt, manager,
                 calls, in_file, pending, backwards, wrapped>>

\* Mutant of NextInterval: a number has no limit.
NextIntervalNoWrap ==
  /\ pc = "ended"
  /\ BeginStart(interval_start.number + 1, next_report)
  /\ wrapped' = (wrapped \/ interval_start.number + 1 = Number)
  /\ UNCHANGED <<config, next_report, last_ts, interval_end_needed, record_cnt, manager,
                 calls, in_file, pending, backwards>>

\* The next interval starts where the last one ended.
NextInterval ==
  /\ pc = "ended"
  /\ BeginStart((interval_start.number + 1) % Number, next_report)
  /\ wrapped' = (wrapped \/ interval_start.number + 1 = Number)
  /\ UNCHANGED <<config, next_report, last_ts, interval_end_needed, record_cnt, manager,
                 calls, in_file, pending, backwards>>

\* The next plugin processes the record.  It may write to its output file.
ProcessPlugin ==
  /\ pc = "processing"
  /\ pending' = IF plug = 1 /\ pending < 2 THEN pending + 1 ELSE pending
  /\ \/ IF plug < Len(plugins) THEN plug' = plug + 1 /\ UNCHANGED pc
                               ELSE pc' = "idle" /\ UNCHANGED plug
     \/ ~ outfile[plugins[plug]] /\ Crash /\ UNCHANGED plug
  /\ UNCHANGED <<config, clock, logfile, manager, files, calls, in_file, failed, backwards,
                 wrapped>>

ProcessFails ==
  /\ pc = "processing"
  /\ Fail
  /\ UNCHANGED <<config, clock, logfile, manager, files, plug, calls, in_file, pending,
                 backwards, wrapped>>

-----------------------------------------------------------------------------
(* bgpcorsaro_finalize_output                                              *)

\* Mutant of FinalizeOutput: what was not dumped is let go.
FinalizeOutputNow ==
  /\ pc \in {"new", "idle"}
  /\ Free
  /\ UNCHANGED <<config, clock, manager, history, plug>>

FinalizeOutput ==
  /\ pc \in {"new", "idle"}
  /\ IF pc = "idle" /\ interval_end_needed
     THEN pc' = "last" /\ plug' = 1 /\ UNCHANGED <<files, logfile>>
     ELSE Free /\ UNCHANGED plug
  /\ UNCHANGED <<config, clock, manager, history>>

\* The next plugin ends the last interval, at the time of the last record.
EndLastPlugin ==
  /\ pc = "last"
  /\ \E p \in Names :
       /\ Called(p)
       /\ IF ~ outfile[p]
          THEN Crash /\ UNCHANGED <<files, calls, plug, interval_end_needed, pending, logfile>>
          ELSE /\ Rotated(p)
               /\ calls' = [calls EXCEPT ![p] = [kind |-> "end", number |-> interval_start.number,
                                                 time |-> last_ts]]
               /\ IF plug < Len(plugins)
                  THEN /\ plug' = plug + 1
                       /\ UNCHANGED <<pc, interval_end_needed, pending, logfile>>
                  ELSE IntervalEnded /\ pc' = "dumped" /\ UNCHANGED plug
  /\ UNCHANGED <<config, interval_start, next_report, last_ts, record_cnt, manager, in_file,
                 failed, backwards, wrapped>>

\* bgpcorsaro is freed whether the last interval was ended or not.
EndLastFails ==
  /\ pc = "last"
  /\ Free
  /\ failed' = TRUE
  /\ UNCHANGED <<config, clock, manager, plug, calls, in_file, pending, backwards, wrapped>>

FreeOutput ==
  /\ pc = "dumped"
  /\ Free
  /\ UNCHANGED <<config, clock, manager, plug, history>>

Next ==
  \/ EnablePlugin
  \/ StartOutput
  \/ StartLogFails
  \/ PerRecord
  \/ StartPlugin
  \/ StartFails
  \/ EndPlugin
  \/ EndFails
  \/ NextInterval
  \/ ProcessPlugin
  \/ ProcessFails
  \/ FinalizeOutput
  \/ EndLastPlugin
  \/ EndLastFails
  \/ FreeOutput

Spec == Init /\ [][Next]_vars

-----------------------------------------------------------------------------

TypeOK ==
  /\ interval_start \in [number : 0..Number - 1, time : Nat]
  /\ next_report \in Int /\ last_ts \in Nat
  /\ record_cnt \in 0..MaxRecords
  /\ {logfile, interval_end_needed} \subseteq BOOLEAN
  /\ {plugins, plugins_enabled} \subseteq Seq(Names)
  /\ argc \in [Names -> {1, 2}]
  /\ outfile \in [Names -> BOOLEAN]
  /\ outfile_p \in [Names -> [0..OUTFILE_POINTERS - 1 -> BOOLEAN]]
  /\ outfile_n \in [Names -> 0..OUTFILE_POINTERS - 1]
  /\ pc \in {"new", "idle", "starting", "ending", "ended", "processing", "last", "dumped",
             "freed", "aborted"}
  /\ plug \in 0..Len(plugins)

\* The record that is processed lies in the current interval: it is older than
\* the next report, however large the gap before it, and, if records never go
\* back in time, not older than the start.
RecordsInTheirInterval ==
  ~ failed /\ record_cnt > 0 /\ pc \in {"processing", "idle"} =>
    /\ interval > 0 => /\ last_ts < next_report
                       /\ interval_start.time < next_report
                       /\ next_report <= interval_start.time + interval
    /\ ~ backwards => interval_start.time <= last_ts

\* Until something fails, each plugin is told of intervals one by one: each is
\* ended before the next starts, that one second later and with the next number.
IntervalsAbut ==
  [][\A p \in Names : calls'[p] # calls[p] /\ ~ failed =>
       LET c == calls[p]
           d == calls'[p]
       IN  \/ c.kind = "none" /\ d.kind = "start" /\ d.number = 0
           \/ /\ c.kind = "start" /\ d.kind = "end"
              /\ d.number = c.number
              /\ ~ backwards => c.time <= d.time
           \/ /\ c.kind = "end" /\ d.kind = "start"
              /\ d.number = (c.number + 1) % Number
              /\ d.time = c.time + 1]_vars

\* No output file is leaked, whatever fails: the file written to is the one in
\* the current pointer, that pointer is free when a file is to be opened, and
\* all files are closed in the end.
FilesAreKept ==
  \A p \in Names : /\ outfile[p] = outfile_p[p][outfile_n[p]]
                   /\ pc = "freed" => \A i \in DOMAIN outfile_p[p] : ~ outfile_p[p][i]

\* Until something fails, plugins are called with their output file open and
\* assertions hold, but for the one about arguments that are set twice.
CrashesOnlyAfterFailure == pc = "aborted" => failed \/ \E p \in Names : argc[p] # 1

\* What is not dumped by bgpcorsaro_finalize_output is one record at most.
LosesAtMostLastRecord == pc = "freed" /\ ~ failed => pending <= 1

\* Without a failure nothing is written to a closed file, no assertion about the
\* calls fails, and all records but the last are dumped in the end.
NoFailureNoLoss == CrashesOnlyAfterFailure /\ LosesAtMostLastRecord

\* Until the number of the interval wraps, an output file holds output_rotate
\* intervals.
RotatesOnTime ==
  ~ failed /\ ~ wrapped /\ output_rotate > 0 =>
    \A p \in Names :
      /\ in_file[p] <= output_rotate
      /\ pc # "freed" /\ ~ outfile[p] => in_file[p] \in {0, output_rotate}

=============================================================================
