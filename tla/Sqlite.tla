-------------------------------- MODULE Sqlite --------------------------------
(***************************************************************************)
(* The SQLite data source, lib/datasources/bgpstream_datasource_sqlite.c.  *)
(* One SELECT is prepared when the source is created; each query binds the *)
(* window of timestamps that follows the window before, and steps through  *)
(* the rows in it.  Some other process (external) adds rows, stamped with  *)
(* the time it does so.                                                    *)
(***************************************************************************)
EXTENDS Integers, Sequences, FiniteSetsExt, SequencesExt

CONSTANTS
  FileTimes,        \* file times a row may have
  TimeSpan,         \* time span of the files
  time_intervals,   \* the interval filters, in the order of the list
  FOREVER,
  Margin,           \* 120 seconds
  MaxNow, MaxRows   \* bounds of the model: time and rows

SqliteAssumption ==
  /\ TimeSpan \in Nat /\ Margin \in Nat
  /\ FileTimes \subseteq Nat

VARIABLES
  rows, now,            \* the database and the time
  ds_status,            \* "OFF", "ON", "ERROR" where the source is NULL
  last_ts, current_ts,
  bound,                \* the two placeholders of the statement
  stale,                \* the statement failed and was not reset
  pc,                   \* "idle" or "step"
  todo,                 \* rows the statement still has to give
  pushes,               \* history: how often each row was pushed, 2 for more
  failed                \* history: a query failed

vars == <<rows, now, ds_status, last_ts, current_ts, bound, stale, pc, todo,
          pushes, failed>>

\* A row: match says whether project, collector and type pass their filters.
Row == [match : BOOLEAN, file_time : FileTimes, ts : 1..MaxNow]

Init ==
  /\ rows = <<>>
  /\ now = 1
  /\ ds_status = "OFF"
  /\ last_ts = 0 /\ current_ts = 0
  /\ bound = [min |-> 0, max |-> 0]
  /\ stale = FALSE
  /\ pc = "idle"
  /\ todo = <<>>
  /\ pushes = <<>>
  /\ failed = FALSE

-----------------------------------------------------------------------------
(* bgpstream_sqlite_datasource_create                                      *)

\* The condition written for an interval, as tokens.
Clause(tif) ==
  <<"(", "operand", "AND">>
    \o (IF tif.end_time # FOREVER THEN <<"operand", ")">> ELSE <<>>)

\* The condition for all intervals.
Condition ==
  LET n == Len(time_intervals)
      clauses == [i \in 1..n |->
                    Clause(time_intervals[i]) \o (IF i < n THEN <<"OR">> ELSE <<>>)]
  IN  <<"(">> \o FlattenSeq(clauses) \o <<")">>

Count(s, token) == Cardinality({i \in DOMAIN s : s[i] = token})

\* What SQLite (external) accepts: parentheses that match, and an operand on
\* each side of an operator.
WellFormed(s) ==
  /\ Count(s, "(") = Count(s, ")")
  /\ \A i \in DOMAIN s : s[i] \in {"AND", "OR"} =>
       /\ i > 1 /\ s[i - 1] \in {"operand", ")"}
       /\ i < Len(s) /\ s[i + 1] \in {"operand", "("}

\* The statement is built and prepared.
Create ==
  /\ ds_status = "OFF"
  /\ ds_status' = IF time_intervals = <<>> \/ WellFormed(Condition)
                  THEN "ON" ELSE "ERROR"
  /\ UNCHANGED <<rows, now, last_ts, current_ts, bound, stale, pc, todo, pushes,
                 failed>>

\* The WHERE clause, but for the timestamp.
Selected(row) ==
  /\ row.match
  /\ \/ time_intervals = <<>>
     \/ \E i \in DOMAIN time_intervals :
          LET tif == time_intervals[i]
          IN  /\ row.file_time >= tif.begin_time - TimeSpan - Margin
              /\ tif.end_time = FOREVER \/ row.file_time <= tif.end_time

-----------------------------------------------------------------------------
(* bgpstream_sqlite_datasource_update_input_queue                          *)

\* What the statement gives: the rows of the window, in some order.
Result(window) ==
  SetToSeqs({i \in DOMAIN rows : /\ Selected(rows[i])
                                 /\ rows[i].ts > window.min
                                 /\ rows[i].ts <= window.max})

\* Mutant of BeginQuery: the current second is asked for.
BeginQueryNow ==
  /\ pc = "idle" /\ ds_status = "ON"
  /\ last_ts' = current_ts
  /\ current_ts' = now
  /\ bound' = [min |-> last_ts', max |-> current_ts']
  /\ todo' \in Result(bound')
  /\ pc' = "step"
  /\ UNCHANGED <<rows, now, ds_status, stale, pushes, failed>>

\* The next window is bound and the statement runs on the rows of that moment.
\* A statement that failed takes no new values before it is reset, or does.
BeginQuery ==
  /\ pc = "idle" /\ ds_status = "ON"
  /\ last_ts' = current_ts
  /\ current_ts' = now - 1
  /\ \/ bound' = [min |-> last_ts', max |-> current_ts']
     \/ stale /\ UNCHANGED bound
  /\ todo' \in Result(bound')
  /\ pc' = "step"
  /\ stale' = FALSE
  /\ UNCHANGED <<rows, now, ds_status, pushes, failed>>

StepRow ==
  /\ pc = "step"
  /\ todo # <<>>
  /\ pushes' = [pushes EXCEPT ![Head(todo)] = IF @ = 0 THEN 1 ELSE 2]
  /\ todo' = Tail(todo)
  /\ UNCHANGED <<rows, now, ds_status, last_ts, current_ts, bound, stale, pc, failed>>

StepDone ==
  /\ pc = "step"
  /\ todo = <<>>
  /\ pc' = "idle"
  /\ UNCHANGED <<rows, now, ds_status, last_ts, current_ts, bound, stale, todo,
                 pushes, failed>>

\* sqlite3_step gives an error.
StepFails ==
  /\ pc = "step"
  /\ pc' = "idle"
  /\ stale' = TRUE
  /\ todo' = <<>>
  /\ failed' = TRUE
  /\ UNCHANGED <<rows, now, ds_status, last_ts, current_ts, bound, pushes>>

-----------------------------------------------------------------------------
(* Outside (external)                                                      *)

Tick ==
  /\ now < MaxNow
  /\ now' = now + 1
  /\ UNCHANGED <<rows, ds_status, last_ts, current_ts, bound, stale, pc, todo,
                 pushes, failed>>

AddRow ==
  /\ Len(rows) < MaxRows
  /\ \E row \in Row : row.ts = now /\ rows' = Append(rows, row)
  /\ pushes' = Append(pushes, 0)
  /\ UNCHANGED <<now, ds_status, last_ts, current_ts, bound, stale, pc, todo, failed>>

Next ==
  \/ Create
  \/ BeginQuery
  \/ StepRow
  \/ StepDone
  \/ StepFails
  \/ Tick
  \/ AddRow

Spec == Init /\ [][Next]_vars

-----------------------------------------------------------------------------

TypeOK ==
  /\ rows \in Seq(Row)
  /\ now \in 1..MaxNow
  /\ ds_status \in {"OFF", "ON", "ERROR"}
  /\ {last_ts, current_ts} \subseteq 0..(MaxNow - 1)
  /\ bound \in [min : 0..(MaxNow - 1), max : 0..(MaxNow - 1)]
  /\ stale \in BOOLEAN
  /\ pc \in {"idle", "step"}
  /\ todo \in Seq(DOMAIN rows)
  /\ pushes \in [DOMAIN rows -> 0..2]

\* The file is one the filters ask for.
Wanted(row) ==
  /\ row.match
  /\ \/ time_intervals = <<>>
     \/ \E i \in DOMAIN time_intervals :
          LET tif == time_intervals[i]
          IN  /\ row.file_time >= tif.begin_time
              /\ tif.end_time = FOREVER \/ row.file_time <= tif.end_time

\* Until a query fails, the windows tile the time: no row is pushed twice, and
\* between queries a wanted row up to the end of the last window was pushed,
\* although rows are added while a query runs.
WindowsTile ==
  ~ failed => \A i \in DOMAIN rows :
    /\ pushes[i] <= 1
    /\ pc = "idle" /\ Wanted(rows[i]) /\ rows[i].ts <= current_ts => pushes[i] = 1

===========================================================================
