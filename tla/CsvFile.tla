------------------------------- MODULE CsvFile -------------------------------
(***************************************************************************)
(* The CSV data source, lib/datasources/bgpstream_datasource_csvfile.c.    *)
(* Each query reads the whole CSV file again and keeps the rows that were  *)
(* added since the last one, by the timestamp in their last column.  Some  *)
(* other process (external) appends rows, stamped with the time it does    *)
(* so, while the queries run.  Every row names a dump file of its own.     *)
(***************************************************************************)
EXTENDS Integers, Sequences

CONSTANTS
  FileTimes,       \* file times a row may have
  time_intervals, FOREVER,
  Margin,          \* 15 * 60 + 120 seconds
  Word,            \* 2^32, the size of a uint32_t
  MaxNow, MaxRows  \* bounds of the model: time and rows

FIELDCNT == 7

VARIABLES
  \* outside
  rows,               \* the CSV file
  now,                \* gettimeofday, in seconds
  \* bgpstream_csvfile_datasource_t
  current_field,      \* fields read of the current row
  max_ts_infile, last_processed_ts, max_accepted_ts, num_results,
  \* the query
  pc,                 \* "idle" or "reading"
  pos,                \* rows read
  \* history
  pushes,             \* whether each row was pushed: 0, 1, or 2 for more often
  seen,               \* max_accepted_ts of the last query that read the whole file
  lost,               \* rows that a read error hid, see ReadError
  failed              \* what went wrong with queries: "query", "read"

source == <<current_field, max_ts_infile, last_processed_ts, max_accepted_ts,
            num_results>>
vars == <<rows, now, source, pc, pos, pushes, seen, lost, failed>>

\* A row, as far as the source looks at it: match says whether project,
\* collector and type pass their filters.
Row == [fields : {FIELDCNT - 1, FIELDCNT}, match : BOOLEAN, filetime : FileTimes,
        timestamp : 1..MaxNow]

Init ==
  /\ rows = <<>>
  /\ now = 1
  /\ current_field = 0
  /\ max_ts_infile = 0
  /\ last_processed_ts = 0
  /\ max_accepted_ts = 0
  /\ num_results = 0
  /\ pc = "idle"
  /\ pos = 0
  /\ pushes = <<>>
  /\ seen = 0
  /\ lost = {}
  /\ failed = {}

\* bgpstream_csvfile_datasource_filter_ok, in the arithmetic of uint32_t.
FilterOk(row) ==
  /\ row.match
  /\ \/ time_intervals = {}
     \/ \E tif \in time_intervals :
          /\ row.filetime >= (tif.begin_time - Margin) % Word
          /\ tif.end_time = FOREVER \/ row.filetime <= tif.end_time

-----------------------------------------------------------------------------
(* bgpstream_csvfile_datasource_update_input_queue                         *)

\* Mutant of BeginQuery: the current second is accepted.
BeginQueryNow ==
  /\ pc = "idle"
  /\ max_accepted_ts' = now
  /\ num_results' = 0
  /\ max_ts_infile' = 0
  /\ pos' = 0
  /\ pc' = "reading"
  /\ UNCHANGED <<rows, now, current_field, last_processed_ts, pushes, seen, lost,
                 failed>>

\* The file is opened; rows stamped with the current second have to wait.
BeginQuery ==
  /\ pc = "idle"
  /\ max_accepted_ts' = now - 1
  /\ num_results' = 0
  /\ max_ts_infile' = 0
  /\ pos' = 0
  /\ pc' = "reading"
  /\ UNCHANGED <<rows, now, current_field, last_processed_ts, pushes, seen, lost,
                 failed>>

\* The row counts as complete: a row that an error cut off leaves its fields
\* behind.
Compliant(row) == current_field + row.fields = FIELDCNT

Accepted(row) ==
  /\ Compliant(row)
  /\ row.timestamp > last_processed_ts
  /\ row.timestamp <= max_accepted_ts

\* parse_csvfile_field for each field, then parse_csvfile_rowend.
TakeRow(row) ==
  LET push == Accepted(row) /\ FilterOk(row)
  IN  /\ max_ts_infile' = IF Accepted(row) /\ row.timestamp > max_ts_infile
                          THEN row.timestamp ELSE max_ts_infile
      /\ num_results' = IF push THEN num_results + 1 ELSE num_results
      /\ pushes' = IF push THEN [pushes EXCEPT ![pos + 1] = IF @ = 0 THEN 1 ELSE 2] ELSE pushes
      /\ current_field' = 0

ReadRow ==
  /\ pc = "reading"
  /\ pos < Len(rows)
  /\ TakeRow(rows[pos + 1])
  /\ pos' = pos + 1
  /\ UNCHANGED <<rows, now, last_processed_ts, max_accepted_ts, pc, seen, lost, failed>>

\* The end of the file.
EndQuery ==
  /\ pc = "reading"
  /\ pos = Len(rows)
  /\ last_processed_ts' = max_ts_infile
  /\ seen' = max_accepted_ts
  /\ pc' = "idle"
  /\ pos' = 0
  /\ UNCHANGED <<rows, now, current_field, max_ts_infile, max_accepted_ts,
                 num_results, pushes, lost, failed>>

\* What a read error leaves of a row: its first fields, or all of them with
\* the digits of the last one cut short.
CutRow(row) ==
  {[row EXCEPT !.fields = n] : n \in 1..(row.fields - 1)}
    \union {[row EXCEPT !.timestamp = ts] : ts \in 0..row.timestamp}

\* wandio_read gives -1, which the loop takes for the end of the file: csv_fini
\* ends the row that was begun, if one was, and the query succeeds.  The rows
\* behind that are not newer than those in front will never be accepted.
ReadError ==
  /\ pc = "reading"
  /\ pos < Len(rows)
  /\ \/ UNCHANGED <<current_field, max_ts_infile, num_results, pushes>>
     \/ \E row \in CutRow(rows[pos + 1]) : TakeRow(row)
  /\ last_processed_ts' = max_ts_infile'
  /\ lost' = lost \union {i \in (pos + 1)..Len(rows) : rows[i].timestamp <= max_ts_infile'}
  /\ failed' = failed \union {"read"}
  /\ pc' = "idle"
  /\ pos' = 0
  /\ UNCHANGED <<rows, now, max_accepted_ts, seen>>

\* A parse error within the next row, after some of its fields, or a file that
\* cannot be opened: what was pushed stays pushed.
QueryFails ==
  /\ pc = "reading"
  /\ \/ pos = 0 /\ UNCHANGED current_field
     \/ pos < Len(rows) /\ current_field' \in 0..(FIELDCNT - 1)
  /\ failed' = failed \union {"query"}
  /\ pc' = "idle"
  /\ pos' = 0
  /\ UNCHANGED <<rows, now, max_ts_infile, last_processed_ts, max_accepted_ts,
                 num_results, pushes, seen, lost>>

-----------------------------------------------------------------------------
(* Outside (external)                                                      *)

Tick ==
  /\ now < MaxNow
  /\ now' = now + 1
  /\ UNCHANGED <<rows, source, pc, pos, pushes, seen, lost, failed>>

WriteRow ==
  /\ Len(rows) < MaxRows
  /\ \E row \in Row :
       /\ row.timestamp = now
       /\ rows' = Append(rows, row)
  /\ pushes' = Append(pushes, 0)
  /\ UNCHANGED <<now, source, pc, pos, seen, lost, failed>>

Next ==
  \/ BeginQuery
  \/ ReadRow
  \/ EndQuery
  \/ ReadError
  \/ QueryFails
  \/ Tick
  \/ WriteRow

Spec == Init /\ [][Next]_vars

-----------------------------------------------------------------------------

TypeOK ==
  /\ rows \in Seq(Row)
  /\ now \in 1..MaxNow
  /\ current_field \in 0..(FIELDCNT - 1)
  /\ {max_ts_infile, last_processed_ts, max_accepted_ts, seen} \subseteq 0..(MaxNow - 1)
  /\ num_results \in 0..MaxRows
  /\ pc \in {"idle", "reading"}
  /\ pos \in 0..Len(rows)
  /\ lost \subseteq 1..Len(rows)
  /\ failed \subseteq {"query", "read"}
  /\ pushes \in Seq(0..2) /\ Len(pushes) = Len(rows)

\* The row is complete, and its file is one the filters ask for.
Wanted(row) ==
  /\ row.fields = FIELDCNT
  /\ row.match
  /\ \/ time_intervals = {}
     \/ \E tif \in time_intervals :
          /\ row.filetime >= tif.begin_time
          /\ tif.end_time = FOREVER \/ row.filetime <= tif.end_time

Due(i) == Wanted(rows[i]) /\ rows[i].timestamp <= seen

\* No row is missed, although rows are added while the file is read: once a
\* query that accepts its timestamp has read the whole file, a wanted row was
\* pushed.  Only the first row may fall victim to a query that failed before,
\* and rows behind a read error to rows in front of it that are not older.
NothingMissed ==
  \A i \in 1..Len(rows) : Due(i) =>
    pushes[i] > 0 \/ (i = 1 /\ "query" \in failed) \/ i \in lost

\* As long as no query fails or meets a read error, a row is pushed once only:
\* last_processed_ts remembers the rows of all earlier queries.
PushedOnce ==
  failed = {} => \A i \in 1..Len(rows) : pushes[i] <= 1

=============================================================================
