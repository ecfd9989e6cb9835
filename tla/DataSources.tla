----------------------------- MODULE DataSources -----------------------------
(***************************************************************************)
(* The four data sources behind the data source manager,                   *)
(* lib/bgpstream_datasource.c.  The user sets one data interface before    *)
(* the stream starts; init creates that source, and each query is passed   *)
(* on to it.  The others are never created and keep still.                 *)
(***************************************************************************)
EXTENDS Integers, Sequences

CONSTANTS
  Interfaces,       \* the data interfaces a user may set
  \* CsvFile and Sqlite
  FileTimes, FOREVER, Margin, Word, MaxNow, MaxRows,
  time_intervals,   \* the interval filters, in the order of the list
  TimeSpan,
  \* Broker
  max_readers, Files, UrlRoom, CommonUrl, MaxTime, MaxTrouble,
  \* SingleFile
  Frequency, HeaderLen, Bytes, MaxPoll

VARIABLES
  datasource,
  now,
  \* CsvFile
  csv, csv_rows, current_field, max_ts_infile, last_processed_ts, max_accepted_ts,
  csv_results, pos, csv_pushes, csv_seen, csv_lost, csv_failed,
  \* Sqlite
  sqlite, db_rows, ds_status, last_ts, current_ts, bound, stale, todo, db_pushes,
  db_failed,
  \* Broker
  broker, url, room, last_response_time, current_window_end, queue, answer, good,
  time_set, num_results, result, time, trouble, asked_from, broken, fatal,
  \* SingleFile
  clock, content, header, last_filetime, step, taken_at, replaced, looked, short

csv_vars == <<csv, csv_rows, current_field, max_ts_infile, last_processed_ts,
              max_accepted_ts, csv_results, pos, csv_pushes, csv_seen, csv_lost,
              csv_failed>>
sqlite_vars == <<sqlite, db_rows, ds_status, last_ts, current_ts, bound, stale, todo,
                 db_pushes, db_failed>>
broker_vars == <<broker, url, room, last_response_time, current_window_end, queue,
                 answer, good, time_set, num_results, result, time, trouble,
                 asked_from, broken, fatal>>
singlefile_vars == <<clock, content, header, last_filetime, step, taken_at, replaced,
                     looked, short>>
vars == <<datasource, now, csv_vars, sqlite_vars, broker_vars, singlefile_vars>>

C == INSTANCE CsvFile WITH
       time_intervals <- {time_intervals[i] : i \in DOMAIN time_intervals},
       pc <- csv, rows <- csv_rows, num_results <- csv_results,
       pushes <- csv_pushes, seen <- csv_seen, lost <- csv_lost, failed <- csv_failed
S == INSTANCE Sqlite WITH
       pc <- sqlite, rows <- db_rows, pushes <- db_pushes, failed <- db_failed
B == INSTANCE Broker WITH pc <- broker
F == INSTANCE SingleFile

\* The times of an interval are uint32_t; 0 stands for BGPSTREAM_FOREVER.
ASSUME SourcesAssumption ==
  /\ S!SqliteAssumption /\ B!BrokerAssumption /\ F!SingleFileAssumption
  /\ MaxNow \in Nat \ {0}
  /\ Word \in Nat \ {0}
  /\ time_intervals \in Seq([begin_time : 0..(Word - 1), end_time : 0..(Word - 1)])

\* No interval begins within Margin seconds of 1970: for such a one the CSV
\* source computes begin_time - Margin modulo Word, which is not before it.
IntervalsDoNotWrap ==
  \A i \in DOMAIN time_intervals : time_intervals[i].begin_time >= Margin

\* What the files of a source that is not created hold does not matter.
NoSingleFile ==
  \A f \in DOMAIN header :
    content[f] = <<>> /\ \A i \in 1..HeaderLen : header[f][i] = 0

Init ==
  /\ datasource \in Interfaces
  /\ C!Init
  /\ S!Init
  /\ B!Init
  /\ F!Init
  /\ datasource # "singlefile" => NoSingleFile

Csv ==
  /\ datasource = "csvfile"
  /\ C!Next
  /\ UNCHANGED <<datasource, sqlite_vars, broker_vars, singlefile_vars>>

SqliteDb ==
  /\ datasource = "sqlite"
  /\ S!Next
  /\ UNCHANGED <<datasource, csv_vars, broker_vars, singlefile_vars>>

BrokerQuery ==
  /\ datasource = "broker"
  /\ B!BeginQuery \/ B!TakeBatch \/ B!Tick
  /\ UNCHANGED <<datasource, now, csv_vars, sqlite_vars, singlefile_vars>>

BrokerStep ==
  /\ datasource = "broker"
  /\ B!Step
  /\ UNCHANGED <<datasource, now, csv_vars, sqlite_vars, singlefile_vars>>

SingleFiles ==
  /\ datasource = "singlefile"
  /\ F!Next
  /\ UNCHANGED <<datasource, now, csv_vars, sqlite_vars, broker_vars>>

Next ==
  \/ Csv
  \/ SqliteDb
  \/ BrokerQuery
  \/ BrokerStep
  \/ SingleFiles

\* A query of the broker runs on: see Broker.
Spec == Init /\ [][Next]_vars /\ WF_vars(BrokerStep)

-----------------------------------------------------------------------------

TypeOK == C!TypeOK /\ S!TypeOK /\ B!TypeOK /\ F!TypeOK

\* CsvFile: no row is missed, but for the first one after a query that failed and
\* for those that a read error hid behind rows that are not older.
CsvNothingMissed == C!NothingMissed

\* CsvFile: as long as no query fails, a row is pushed once only.
CsvPushedOnce == C!PushedOnce

\* Sqlite: until a query fails, the windows of the queries tile the time: no
\* wanted row falls between two of them, and none is in two.
SqliteWindowsTile == S!WindowsTile

\* Broker: until a query is given up, a request asks for what the source had
\* not seen when the query began, however often it is repeated.
BrokerAsksFromWhereItStopped == B!AsksFromWhereItStopped

\* Broker: a query that returns 0 has queued nothing, unless an answer broke off.
BrokerEndMeansEmpty == B!EndMeansEmpty

\* Broker: a query returns, unless an answer broke off behind a file.
BrokerQueryReturns == B!QueryReturns

\* Broker: a query returns once the broker answers well.
BrokerQueryAlwaysReturns == B!QueryAlwaysReturns

\* SingleFile: every version of a file that is looked at is pushed, and once.
SingleFilePushedOnce == F!PushedOnce

=============================================================================
