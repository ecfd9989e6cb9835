------------------------------ MODULE Bgpstream ------------------------------
(***************************************************************************)
(* A BGPStream instance, lib/bgpstream.c, with the data source manager of  *)
(* lib/bgpstream_datasource.c: the life of the stream, and                 *)
(* bgpstream_get_next_record, which keeps the input manager and the reader *)
(* manager supplied.  The data source itself is external here: files are   *)
(* published in it at any time, and a query hands over some that no        *)
(* earlier one handed over, in any order, or fails half way.               *)
(***************************************************************************)
EXTENDS ReaderMgr, FiniteSets

CONSTANTS
  MinWait, MaxWait   \* DATASOURCE_BLOCKING_MIN_WAIT and _MAX_WAIT

ASSUME BgpstreamAssumption ==
  /\ IsFiniteSet(Files)
  /\ Files \subseteq Inputs({in.source : in \in Files}, Nat, Nat)
  /\ MinWait \in Nat \ {0} /\ MaxWait \in Nat /\ MinWait <= MaxWait

VARIABLES
  \* bgpstream_t
  bs_status,      \* "ALLOCATED", "ON", "OFF", or "destroyed"
  ds_status,      \* of the data source manager: "OFF", "ON", "ERROR"
  blocking,
  backoff_time,
  pc,             \* "idle" with the caller, or the point in get_next_record
  ret,            \* the last call that returned, and its value
  \* input manager
  queue, status, to_process,
  \* outside, and history
  published,      \* the files in the data source
  round,          \* the query that delivered each file, 0 for none; and
  rounds,         \*   the queries that delivered something, counted
  capped,         \* a batch was cut short by the cap on readers
  stream          \* the records returned, in order

IM == INSTANCE InputMgr WITH
  Sources <- {in.source : in \in Files},
  Times <- {in.epoch_filetime : in \in Files},
  Spans <- {in.time_span : in \in Files},
  MaxQueue <- Cardinality(Files)

input_vars == <<queue, status, to_process>>
history == <<round, rounds, capped, stream>>
own_vars == <<bs_status, ds_status, blocking, backoff_time, pc, ret>>
vars == <<own_vars, input_vars, reader_vars, published, history>>

\* bgpstream_create
Init ==
  /\ bs_status = "ALLOCATED"
  /\ ds_status = "OFF"
  /\ blocking = FALSE
  /\ backoff_time = MinWait
  /\ pc = "idle"
  /\ ret = [call |-> "none", value |-> 0]
  /\ IM!Init
  /\ ReaderMgrInit
  /\ published = {}
  /\ round = [in \in Files |-> 0]
  /\ rounds = 0
  /\ capped = FALSE
  /\ stream = <<>>

-----------------------------------------------------------------------------
(* The life of the stream                                                  *)

Return(call, value) == pc' = "idle" /\ ret' = [call |-> call, value |-> value]

\* bgpstream_set_live_mode, which adding an interval without an end calls too.
SetLiveMode ==
  /\ pc = "idle"
  /\ bs_status = "ALLOCATED"
  /\ blocking' = TRUE
  /\ Return("set_live_mode", 0)
  /\ UNCHANGED <<bs_status, ds_status, backoff_time, input_vars, reader_vars,
                 published, history>>

\* bgpstream_start: the filters do not validate, or the data source cannot be
\* created, or it is created.  On a stream that is not just allocated it does
\* nothing.
Start ==
  /\ pc = "idle"
  /\ bs_status # "destroyed"
  /\ IF bs_status # "ALLOCATED"
     THEN /\ Return("start", 0)
          /\ UNCHANGED <<bs_status, ds_status>>
     ELSE \/ /\ Return("start", -1)
             /\ UNCHANGED <<bs_status, ds_status>>
          \/ /\ Return("start", -1)
             /\ ds_status' = "ERROR"
             /\ UNCHANGED bs_status
          \/ /\ Return("start", 0)
             /\ ds_status' = "ON"
             /\ bs_status' = "ON"
  /\ UNCHANGED <<blocking, backoff_time, input_vars, reader_vars, published,
                 history>>

\* bgpstream_stop closes the data source, and leaves the queues alone.
Stop ==
  /\ pc = "idle"
  /\ bs_status = "ON"
  /\ ds_status' = "OFF"
  /\ bs_status' = "OFF"
  /\ Return("stop", 0)
  /\ UNCHANGED <<blocking, backoff_time, input_vars, reader_vars, published,
                 history>>

\* bgpstream_destroy, in any status.
Destroy ==
  /\ pc = "idle"
  /\ bs_status # "destroyed"
  /\ IM!Destroy
  /\ ReaderMgrDestroy
  /\ bs_status' = "destroyed"
  /\ ds_status' = "OFF"
  /\ Return("destroy", 0)
  /\ UNCHANGED <<blocking, backoff_time, published, history>>

-----------------------------------------------------------------------------
(* bgpstream_get_next_record                                               *)

\* The call: wrong status, or the record is cleared and the loop begins.
GetNextRecord ==
  /\ pc = "idle"
  /\ bs_status # "destroyed"
  /\ IF bs_status # "ON"
     THEN Return("get", -1) /\ UNCHANGED reader_vars
     ELSE pc' = "loop" /\ UNCHANGED ret /\ RecordClear
  /\ UNCHANGED <<bs_status, ds_status, blocking, backoff_time, input_vars,
                 published, history>>

\* Readers are there: the next record of the merge.
Export ==
  /\ pc = "loop"
  /\ ExportValid \/ ExportLast
  /\ Return("get", 1)
  /\ stream' = Append(stream, [input |-> record'.input,
                               record_time |-> record'.record_time])
  /\ UNCHANGED <<bs_status, ds_status, blocking, backoff_time, input_vars,
                 published, round, rounds, capped>>

\* Mutant of TakeBatch: the reader manager gets the whole queue.
TakeBatchWhole ==
  /\ pc = "loop"
  /\ mgr_status = "empty"
  /\ IM!GetQueueToProcess
  /\ Add(queue)
  /\ pc' = "add"
  /\ UNCHANGED <<bs_status, ds_status, blocking, backoff_time, ret, published,
                 history>>

\* No reader, but files in the queue: the next batch goes to the reader
\* manager.
TakeBatch ==
  /\ pc = "loop"
  /\ mgr_status = "empty"
  /\ IM!GetQueueToProcess
  /\ Add(ToProcess(queue))
  /\ pc' = "add"
  /\ capped' = (capped \/ /\ Len(to_process') = max_readers
                            /\ queue' # <<>>
                            /\ ~ StartsNewBatch(queue, max_readers + 1))
  /\ UNCHANGED <<bs_status, ds_status, blocking, backoff_time, ret, published,
                 round, rounds, stream>>

AddReader ==
  /\ pc = "add"
  /\ CreateNext \/ InsertNext
  /\ UNCHANGED <<own_vars, input_vars, published, history>>

\* Mutant of EndAdd: the batch was not cut off from the rest of the list.
EndAddDestroysAll ==
  /\ pc = "add"
  /\ adding = <<>> /\ tmp_readers = <<>>
  /\ to_process' = <<>> /\ queue' = <<>>
  /\ pc' = "loop"
  /\ UNCHANGED <<bs_status, ds_status, blocking, backoff_time, ret, status,
                 reader_vars, published, history>>

\* The readers exist: bgpstream_input_mgr_destroy_queue, which may be given
\* NULL, and back to the loop.
EndAdd ==
  /\ pc = "add"
  /\ adding = <<>> /\ tmp_readers = <<>>
  /\ to_process' = <<>>
  /\ pc' = "loop"
  /\ UNCHANGED <<bs_status, ds_status, blocking, backoff_time, ret, queue,
                 status, reader_vars, published, history>>

\* Neither readers nor files: bgpstream_datasource_mgr_update_input_queue.
Query ==
  /\ pc = "loop"
  /\ mgr_status = "empty"
  /\ status = "empty"
  /\ pc' = "query"
  /\ UNCHANGED <<bs_status, ds_status, blocking, backoff_time, ret, input_vars,
                 reader_vars, published, history>>

\* Some query has delivered the file.
Delivered(in) == round[in] # 0

\* The data source (external) pushes a file that no earlier query delivered.
PushFile(in) ==
  /\ pc = "query"
  /\ in \in published
  /\ round[in] \in {0, rounds + 1}
  /\ IM!Push(in)
  /\ round' = [round EXCEPT ![in] = rounds + 1]
  /\ UNCHANGED <<own_vars, reader_vars, published, rounds, capped, stream>>

\* The query is over.  Nothing delivered means nothing is left: then live mode
\* sleeps, and otherwise the stream ends.
QueryEnds ==
  /\ pc = "query"
  /\ \/ /\ status = "non_empty"
        /\ pc' = "loop"
        /\ rounds' = rounds + 1
        /\ UNCHANGED ret
     \/ /\ status = "empty"
        /\ \A in \in published : Delivered(in)
        /\ ~ blocking
        /\ Return("get", 0)
        /\ UNCHANGED rounds
  /\ backoff_time' = MinWait
  /\ UNCHANGED <<bs_status, ds_status, blocking, input_vars, reader_vars,
                 published, round, capped, stream>>

QuerySleeps ==
  /\ pc = "query"
  /\ status = "empty"
  /\ \A in \in published : Delivered(in)
  /\ blocking
  /\ pc' = "sleep"
  /\ UNCHANGED <<bs_status, ds_status, blocking, backoff_time, ret, input_vars,
                 reader_vars, published, history>>

\* sleep(backoff_time) is over, and the data source is asked again.
SleepEnds ==
  /\ pc = "sleep"
  /\ backoff_time' = IF backoff_time * 2 > MaxWait
                     THEN MaxWait ELSE backoff_time * 2
  /\ pc' = "query"
  /\ UNCHANGED <<bs_status, ds_status, blocking, ret, input_vars, reader_vars,
                 published, history>>

\* The query fails, with what it pushed so far in the queue.
QueryFails ==
  /\ pc = "query"
  /\ Return("get", -1)
  /\ backoff_time' = MinWait
  /\ rounds' = IF status = "non_empty" THEN rounds + 1 ELSE rounds
  /\ UNCHANGED <<bs_status, ds_status, blocking, input_vars, reader_vars,
                 published, round, capped, stream>>

-----------------------------------------------------------------------------

\* A dump file appears in the data source (external).
Publish(in) ==
  /\ in \notin published
  /\ published' = published \cup {in}
  /\ UNCHANGED <<own_vars, input_vars, reader_vars, history>>

\* A step of the library within bgpstream_get_next_record.
Step ==
  \/ Export
  \/ TakeBatch
  \/ AddReader
  \/ EndAdd
  \/ Query
  \/ \E in \in Files : PushFile(in)
  \/ QueryEnds
  \/ QuerySleeps
  \/ SleepEnds
  \/ QueryFails

Call ==
  \/ SetLiveMode
  \/ Start
  \/ Stop
  \/ Destroy
  \/ GetNextRecord

Next == Step \/ Call \/ \E in \in Files : Publish(in)

\* The library runs on once it is called; callers and publishers need not act.
Spec == Init /\ [][Next]_vars /\ WF_vars(Step)

-----------------------------------------------------------------------------

\* The stream uses its input manager as InputMgr assumes: batches are
\* destroyed before the queue is touched again, and it is destroyed once.
UsesInputMgr == IM!Spec

\* The stream uses its reader manager as ReaderMgr assumes: batches are sorted,
\* have no file twice, come when no reader is left, and no file comes back.
UsesReaderMgr == ReaderMgrSpec

\* The stream keeps both managers to the order of calls they assume: a batch is
\* taken, handed over when no reader is left and destroyed before the queue is
\* touched again.
UsesManagers == UsesInputMgr /\ UsesReaderMgr

\* A dump whose entries lie within the time of its file, in order.
WellTimed(in) ==
  LET items == dumps[in].items
      entries == {i \in DOMAIN items : items[i].kind = "entry"}
  IN  /\ \A i \in entries :
           items[i].time \in in.epoch_filetime..(IntervalEnd(in) - 1)
      /\ \A i, j \in entries : i < j => items[i].time <= items[j].time

\* The records come out in the order of time, across dumps, collectors and
\* batches, as long as no batch hit the cap on readers: a record older than
\* one that was returned before stems from a file that only a later query
\* delivered.
StreamIsOrdered ==
  ~ capped =>
    \A i, j \in 1..Len(stream) :
      LET a == stream[i]  b == stream[j]
      IN  i < j /\ WellTimed(a.input) /\ WellTimed(b.input) =>
            \/ a.record_time <= b.record_time
            \/ round[a.input] < round[b.input]

\* What ending the stream means.
CompleteEnd ==
  pc = "query" /\ pc' = "idle" /\ ret'.value = 0 =>
    \A in \in published :
      /\ ~ PeriodApplies(in) =>
           \E f \in Files : SameFile(f, in) /\ exported[f] # <<>>
      /\ exported[in] # <<>> => DeliveredFrom(in) = Deliverable(in)

\* Only when everything was delivered does get_next_record return 0: every
\* matching entry of every file in the data source went out, also after
\* queries that failed half way, except for the RIBs the period drops and the
\* duplicates the queue drops, for which the file it kept stands.
EndsWhenComplete == [][CompleteEnd]_vars

\* What the caller sees of the stream: which entries it wants of each file and
\* which of them it got, and the files that gave a record without an entry.
Due == [in \in Files |-> Deliverable(in)]
Given == [in \in Files |-> DeliveredFrom(in)]
Closed == {in \in Files : \E k \in DOMAIN exported[in] : exported[in][k].bd_entry = 0}

Seen ==
  INSTANCE RecordStream WITH
    Alike <- SameFile,
    Optional <- PeriodApplies,
    life <- bs_status,
    live <- blocking,
    calling <- pc # "idle",
    answer <- ret.value,
    archive <- published,
    due <- Due,
    given <- Given,
    closed <- Closed

\* The stream implements what bgpstream.h promises of it: one record a call,
\* each out of a file in the data source, each matching entry once and in the
\* order of its file, a record without an entry only behind them and once, the
\* end only when no file is left, and nothing once it is stopped.
KeepsItsPromise == Seen!Spec

\* bgpstream_get_next_record returns, in live mode as soon as a file is in the
\* data source that gives a record.
CallReturns ==
  (pc # "idle" /\ (~ blocking \/ \E in \in published :
                                    /\ ~ Delivered(in)
                                    /\ rib_period = 0 \/ in.filetype = "updates"))
    ~> (pc = "idle")

=============================================================================
