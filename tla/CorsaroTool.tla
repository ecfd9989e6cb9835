----------------------------- MODULE CorsaroTool -----------------------------
(***************************************************************************)
(* The program bgpcorsaro, bgpcorsaro/tools/bgpcorsaro.c: main reads its   *)
(* options, sets up a stream and an output, and hands one to the other,    *)
(* record by record, until the stream ends, something fails, or the user   *)
(* interrupts it, which may be at any moment.  Both are modelled elsewhere *)
(* (Bgpstream, Corsaro); here any of their calls may fail.                 *)
(***************************************************************************)
EXTENDS Integers, Sequences, SequencesExt, FiniteSetsExt

CONSTANTS
  CmdWindows,       \* the windows that may be given with -w: [start, end]
  CMD_CNT,          \* how many of them
  GapLimits,        \* the values of gap_limit, 0 for none
  RecordTimes,      \* the times of records
  MaxGot            \* bound: records returned by the stream

HARD_SHUTDOWN == 3
NONE == -9

VARIABLES
  main,             \* the place in main and its local variables
  shutdown,         \* bgpcorsaro_shutdown
  objects,          \* the state of bgpcorsaro, record and stream
  code,             \* the exit code, NONE while the program runs
  got,              \* history: the times of the records of the stream
  handed,           \* history: those of the records given to bgpcorsaro
  late,             \* history: how many of them after an interrupt
  finalized         \* history: how often the output was finalized

tool_vars == <<main, shutdown, objects, code, got, handed, late, finalized>>

Init ==
  /\ main = [pc |-> "options", windows |-> <<>>, tmpl |-> FALSE, gap_limit |-> 0,
             minimum_time |-> 0, last_time |-> 0, rc |-> 0, time |-> 0]
  /\ shutdown = 0
  /\ objects = [bgpcorsaro |-> "NULL", record |-> "NULL", stream |-> "created"]
  /\ code = NONE
  /\ got = <<>> /\ handed = <<>> /\ late = 0 /\ finalized = 0

At(pc) == code = NONE /\ main.pc = pc
Goto(pc) == main' = [main EXCEPT !.pc = pc]
Exit(c) == code' = c

\* catch_sigint
Sigint ==
  /\ code = NONE
  /\ shutdown' = shutdown + 1
  /\ code' = IF shutdown' = HARD_SHUTDOWN THEN -1 ELSE NONE
  /\ UNCHANGED <<main, objects, got, handed, late, finalized>>

-----------------------------------------------------------------------------
(* Options *)

\* One more option.  Too many, or one that is not known, ends the program, as
\* does a request for help.
Option ==
  /\ At("options")
  /\ \/ \E w \in CmdWindows :
          IF Len(main.windows) = CMD_CNT THEN Exit(-1) /\ UNCHANGED main
          ELSE main' = [main EXCEPT !.windows = Append(@, w)] /\ UNCHANGED code
     \/ main' = [main EXCEPT !.tmpl = TRUE] /\ UNCHANGED code
     \/ \E g \in GapLimits : main' = [main EXCEPT !.gap_limit = g] /\ UNCHANGED code
     \/ \E c \in {0, -1} : Exit(c) /\ UNCHANGED main
  /\ UNCHANGED <<shutdown, objects, got, handed, late, finalized>>

\* clean: what becomes of the objects, and how often it finalizes the output.
Clean(o) ==
  [o EXCEPT !.record = "NULL", !.bgpcorsaro = IF @ # "NULL" THEN "freed" ELSE @]
CleanFinalizes(o) == IF o.bgpcorsaro # "NULL" THEN 1 ELSE 0

\* The label err.  The stream is left.
Bail ==
  /\ Exit(-1)
  /\ objects' = Clean(objects)
  /\ finalized' = finalized + CleanFinalizes(objects)
  /\ UNCHANGED main

\* There are no more options: a window and a template are needed.  The output is
\* allocated.
AllocOutput ==
  /\ At("options")
  /\ \/ /\ main.windows # <<>> /\ main.tmpl
        /\ objects' = [objects EXCEPT !.bgpcorsaro = "allocated"]
        /\ Goto("setup")
        /\ UNCHANGED <<code, finalized>>
     \/ Bail
  /\ UNCHANGED <<shutdown, got, handed, late>>

\* The output is configured and started, and the record created.
StartOutput ==
  /\ At("setup")
  /\ \/ /\ objects' = [objects EXCEPT !.bgpcorsaro = "started", !.record = "created"]
        /\ Goto("filters")
        /\ UNCHANGED <<code, finalized>>
     \/ Bail
  /\ UNCHANGED <<shutdown, got, handed, late>>

\* The earliest start of a window, as the loop over them finds it.
Earlier(minimum, w) == IF minimum = 0 \/ w.start < minimum THEN w.start ELSE minimum
MinimumTime(windows) == FoldLeft(Earlier, 0, windows)

\* The stream gets its filters and is started; if it cannot be, the program ends
\* and cleans nothing up.
StartStream ==
  /\ At("filters")
  /\ \/ /\ main' = [main EXCEPT !.minimum_time = MinimumTime(main.windows), !.pc = "loop"]
        /\ objects' = [objects EXCEPT !.stream = "on"]
        /\ UNCHANGED code
     \/ Exit(-1) /\ UNCHANGED <<main, objects>>
  /\ UNCHANGED <<shutdown, got, handed, late, finalized>>

-----------------------------------------------------------------------------
(* The loop *)

\* The condition: after an interrupt no record is asked for.
Loop ==
  /\ At("loop")
  /\ Goto(IF shutdown = 0 THEN "getting" ELSE "ended")
  /\ UNCHANGED <<shutdown, objects, code, got, handed, late, finalized>>

\* The stream returns: a record, its end or an error.
Get ==
  /\ At("getting")
  /\ \/ /\ Len(got) < MaxGot
        /\ \E t \in RecordTimes :
             /\ main' = [main EXCEPT !.rc = 1, !.time = t, !.pc = "record"]
             /\ got' = Append(got, t)
     \/ /\ \E rc \in {0, -1} : main' = [main EXCEPT !.rc = rc, !.pc = "ended"]
        /\ UNCHANGED got
  /\ UNCHANGED <<shutdown, objects, code, handed, late, finalized>>

\* A record before the first window, which is left out.
TooEarly == main.time < main.minimum_time

\* The gap since the last record is too long.
GapExceeded ==
  /\ main.gap_limit > 0 /\ main.last_time > 0
  /\ main.time - main.last_time > main.gap_limit

\* The record is handed over, or dropped, or ends the program, as a failure of
\* bgpcorsaro_per_record does: it may also have freed the object, to which the
\* program then logs.
Record ==
  /\ At("record")
  /\ IF TooEarly THEN Goto("loop") /\ UNCHANGED <<objects, code, handed, late>>
     ELSE IF GapExceeded THEN Exit(-1) /\ UNCHANGED <<main, objects, handed, late>>
     ELSE /\ handed' = Append(handed, main.time)
          /\ late' = IF shutdown > 0 THEN late + 1 ELSE late
          /\ main' = [main EXCEPT !.last_time = main.time, !.pc = "loop"]
          /\ \/ UNCHANGED <<objects, code>>
             \/ /\ Exit(-1)
                /\ \E s \in {"started", "freed"} :
                     objects' = [objects EXCEPT !.bgpcorsaro = s]
  /\ UNCHANGED <<shutdown, got, finalized>>

\* Finalizing the output ourselves, destroying the stream, and clean.
Ended(o) ==
  /\ Exit(0)
  /\ objects' = Clean([o EXCEPT !.stream = "NULL"])
  /\ finalized' = finalized + 1 + CleanFinalizes(o)

\* Mutant of Finish: the pointer to the output is kept.
FinishKeepsPointer ==
  /\ At("ended")
  /\ IF main.rc < 0 THEN Exit(1) /\ UNCHANGED <<objects, finalized>>
     ELSE Ended([objects EXCEPT !.bgpcorsaro = "freed"])
  /\ UNCHANGED <<main, shutdown, got, handed, late>>

\* After the loop.  An error of the stream leaves the output as it is; otherwise
\* it is finalized and all is freed.
Finish ==
  /\ At("ended")
  /\ IF main.rc < 0 THEN Exit(1) /\ UNCHANGED <<objects, finalized>>
     ELSE Ended([objects EXCEPT !.bgpcorsaro = "NULL"])
  /\ UNCHANGED <<main, shutdown, got, handed, late>>

Next ==
  \/ Sigint \/ Option \/ AllocOutput \/ StartOutput \/ StartStream
  \/ Loop \/ Get \/ Record \/ Finish

-----------------------------------------------------------------------------

\* The earliest time asked for, and the case in which the loop over the windows
\* misses it: one that starts at 0 is followed by another.
Earliest(windows) == Min({windows[i].start : i \in DOMAIN windows})
ZeroIsLost == Earliest(main.windows) = 0 /\ main.minimum_time # 0

\* The times from the earliest on.
From(times, earliest) ==
  FoldLeft(LAMBDA f, t : IF t >= earliest THEN Append(f, t) ELSE f, <<>>, times)

\* The output is finalized once on every way out that reports success, and on
\* those before the stream was started; never twice.  It has then been handed
\* all records of the stream from the earliest window on, in their order, and
\* no two of them are further apart than the limit (but for a first one at time
\* 0).  After an interrupt at most one more record is processed, the one the
\* stream was asked for before, and an error never turns into success.
OutputIsComplete ==
  /\ finalized <= 1
  /\ code = 0 /\ main.pc # "options" =>
       /\ finalized = 1 /\ main.rc >= 0 /\ objects.record = "NULL"
       /\ ZeroIsLost \/ handed = From(got, Earliest(main.windows))
  /\ \A i \in 1..Len(handed) - 1 :
       \/ main.gap_limit = 0 \/ handed[i] = 0
       \/ handed[i + 1] - handed[i] <= main.gap_limit
  /\ late <= 1
  /\ objects.bgpcorsaro = "freed" => code = -1

=============================================================================
