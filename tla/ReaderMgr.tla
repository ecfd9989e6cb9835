------------------------------ MODULE ReaderMgr ------------------------------
(***************************************************************************)
(* The reader manager of lib/bgpstream_reader.c: it merges the dumps of a  *)
(* batch into one stream of records.  The user's thread adds a batch when  *)
(* no reader is left, then asks for records one at a time.                 *)
(***************************************************************************)
EXTENDS Reader, InputQueue

CONSTANTS
  Files,       \* the inputs there are
  Dumps,       \* what the files may contain, records with opens and items
  rib_period   \* minimum distance of the RIBs taken from a source, 0 for all

ASSUME ReaderMgrAssumption ==
  /\ \A in \in Files : in.epoch_filetime \in Nat
  /\ Dumps \subseteq [Files -> [opens : BOOLEAN, items : Seq(Items(Nat))]]
  /\ rib_period \in Nat

VARIABLES
  dumps,         \* what is in each file: opens, items (external)
  adding,        \* bgpstream_reader_mgr_add: inputs still to be checked
  tmp_readers,   \*   readers created, their first entry not yet read
  reader_queue,
  mgr_status,    \* "empty", "non_empty", or "destroyed"
  last_ts,       \* filter_mgr->last_processed_ts, -1 where there is no key
  record,        \* the record the user holds
  heap,          \* the bgpdump entries allocated, as <<input, item>>
  exported,      \* history: the records exported from each file, in order
  offered        \* history: the files handed over in batches

reader_vars == <<dumps, adding, tmp_readers, reader_queue, mgr_status, last_ts,
          record, heap, exported, offered>>

SourcesOf == {in.source : in \in Files}

NoRecord == [status |-> "NONE", bd_entry |-> 0]

\* The entry a reader or a record holds, as a set.
Held(x) == IF x.bd_entry = 0 THEN {} ELSE {<<x.input, x.bd_entry>>}

ReaderMgrInit ==
  /\ dumps \in Dumps
  /\ adding = <<>>
  /\ tmp_readers = <<>>
  /\ reader_queue = <<>>
  /\ mgr_status = "empty"
  /\ last_ts = [s \in SourcesOf |-> -1]
  /\ record = NoRecord
  /\ heap = {}
  /\ exported = [in \in Files |-> <<>>]
  /\ offered = {}

-----------------------------------------------------------------------------
(* bgpstream_reader_mgr_add                                                *)

BetweenCalls == adding = <<>> /\ tmp_readers = <<>> /\ mgr_status # "destroyed"

\* The call, with a batch of the input manager.  bgpstream_get_next_record
\* has cleared the record before it gets here, and only adds to an empty
\* manager.
Add(batch) ==
  /\ BetweenCalls
  /\ record = NoRecord
  /\ mgr_status = "empty"
  /\ adding' = batch
  /\ offered' = offered \cup Range(batch)
  /\ UNCHANGED <<dumps, tmp_readers, reader_queue, mgr_status, last_ts, record,
                 heap, exported>>

\* bgpstream_reader_period_check
PeriodApplies(in) == rib_period # 0 /\ in.filetype = "ribs"

\* Mutant of PeriodCheck: any newer RIB will do.
PeriodCheckNewer(in) ==
  ~ PeriodApplies(in) \/ in.epoch_filetime >= last_ts[in.source]

\* Mutant of PeriodCheck: a RIB exactly one period later is dropped.
PeriodCheckStrict(in) ==
  \/ ~ PeriodApplies(in)
  \/ last_ts[in.source] \in {-1, in.epoch_filetime}
  \/ in.epoch_filetime > last_ts[in.source] + rib_period

PeriodCheck(in) ==
  \/ ~ PeriodApplies(in)
  \/ last_ts[in.source] \in {-1, in.epoch_filetime}
  \/ in.epoch_filetime >= last_ts[in.source] + rib_period

LastTsAfter(in) ==
  IF PeriodCheck(in) /\ PeriodApplies(in)
  THEN [last_ts EXCEPT ![in.source] = in.epoch_filetime] ELSE last_ts

\* One round of the first loop: the reader is created, and with it the thread
\* that opens the dump, unless the input fails the check.
CreateNext ==
  /\ adding # <<>>
  /\ LET in == Head(adding) IN
       /\ adding' = Tail(adding)
       /\ tmp_readers' = IF PeriodCheck(in)
                         THEN Append(tmp_readers, ReaderCreate(in))
                         ELSE tmp_readers
       /\ last_ts' = LastTsAfter(in)
  /\ UNCHANGED <<dumps, reader_queue, mgr_status, record, heap, exported, offered>>

\* One round of the second loop: the first entry is read, and the reader
\* goes into the queue whatever the read gave.
InsertNext ==
  /\ adding = <<>>
  /\ tmp_readers # <<>>
  /\ LET new == Head(tmp_readers)
         r == ReadNewData(new, dumps[new.input])
     IN  /\ heap' = heap \cup Held(r)
         /\ reader_queue' = IF mgr_status = "empty" THEN <<r>>
                            ELSE SortedInsert(reader_queue, r)
  /\ mgr_status' = "non_empty"
  /\ tmp_readers' = Tail(tmp_readers)
  /\ UNCHANGED <<dumps, adding, last_ts, record, exported, offered>>

-----------------------------------------------------------------------------
(* bgpstream_reader_mgr_get_next_record, and before it the                 *)
(* bgpstream_record_clear of its caller                                    *)

\* Mutant of RecordClear: the entry is not freed.
RecordClearLeaks ==
  /\ BetweenCalls
  /\ record' = NoRecord
  /\ UNCHANGED <<dumps, adding, tmp_readers, reader_queue, mgr_status, last_ts,
                 heap, exported, offered>>

RecordClear ==
  /\ BetweenCalls
  /\ record' = NoRecord
  /\ heap' = heap \ Held(record)
  /\ UNCHANGED <<dumps, adding, tmp_readers, reader_queue, mgr_status, last_ts,
                 exported, offered>>

\* The record goes out, and a corrupted one reopens the rib period.
Deliver(rec) ==
  /\ record' = rec
  /\ exported' = [exported EXCEPT ![rec.input] = Append(@, rec)]
  /\ last_ts' = IF rib_period # 0 /\ ResetsPeriod(rec)
                THEN [last_ts EXCEPT ![rec.input.source] = 0] ELSE last_ts
  /\ UNCHANGED <<dumps, adding, tmp_readers, offered>>

\* Mutant of PopHead: the status is not reset with the last reader.
PopHeadKeepsStatus ==
  /\ reader_queue' = Tail(reader_queue)
  /\ UNCHANGED mgr_status

PopHead ==
  /\ reader_queue' = Tail(reader_queue)
  /\ mgr_status' = IF Tail(reader_queue) = <<>> THEN "empty" ELSE mgr_status

\* The head read a valid entry before: it reads the next one after the export
\* and moves to its new place, or is destroyed at the end of its dump.
ExportValid ==
  /\ BetweenCalls
  /\ record = NoRecord
  /\ mgr_status = "non_empty"
  /\ Head(reader_queue).status = "VALID_ENTRY"
  /\ LET head == Head(reader_queue)
         rec == ExportRecord(head)
         next == ReadNewData(head, dumps[head.input])
         discarded(r) == r.successful_read - r.valid_read
     IN  /\ heap' = heap \cup Held(next)
         /\ IF next.status = "END_OF_DUMP"
            THEN /\ Deliver(IF discarded(next) = discarded(head)
                            THEN [rec EXCEPT !.dump_pos = "END"] ELSE rec)
                 /\ PopHead
            ELSE /\ Deliver(rec)
                 /\ UNCHANGED mgr_status
                 /\ reader_queue' =
                      IF next.record_time # rec.record_time
                      THEN SortedInsert(Tail(reader_queue), next)
                      ELSE <<next>> \o Tail(reader_queue)

\* The head has nothing more to give than its status.
ExportLast ==
  /\ BetweenCalls
  /\ record = NoRecord
  /\ mgr_status = "non_empty"
  /\ Head(reader_queue).status # "VALID_ENTRY"
  /\ Deliver([ExportRecord(Head(reader_queue)) EXCEPT !.dump_pos = "END"])
  /\ PopHead
  /\ UNCHANGED heap

\* bgpstream_reader_mgr_destroy: bgpstream_reader_destroy drops the entry a
\* reader still holds.
ReaderMgrDestroy ==
  /\ BetweenCalls
  /\ reader_queue' = <<>>
  /\ mgr_status' = "destroyed"
  /\ UNCHANGED <<dumps, adding, tmp_readers, last_ts, record, heap, exported,
                 offered>>

-----------------------------------------------------------------------------

\* Batches as the input manager hands them out, each file once.  The empty
\* one is the NULL it returns when the first file has no time to affect.
Batches ==
  {b \in UNION {[1..n -> Files] : n \in 0..max_readers} :
     /\ SortedQueue(b) /\ NoTwins(b)
     /\ Range(b) \cap offered = {}}

ReaderMgrNext ==
  \/ mgr_status = "empty" /\ \E batch \in Batches : Add(batch)
  \/ CreateNext
  \/ InsertNext
  \/ RecordClear
  \/ ExportValid
  \/ ExportLast
  \/ ReaderMgrDestroy

ReaderMgrSpec == ReaderMgrInit /\ [][ReaderMgrNext]_reader_vars

-----------------------------------------------------------------------------

Readers ==
  [input : Files, record_time : Nat,
   status : {"VALID_ENTRY", "FILTERED_DUMP", "EMPTY_DUMP", "CANT_OPEN_DUMP",
             "CORRUPTED_DUMP", "END_OF_DUMP"},
   valid_read : Nat, successful_read : Nat, pos : Nat, bd_entry : Nat]

TypeOK ==
  /\ adding \in Seq(Files)
  /\ tmp_readers \in Seq(Readers)
  /\ reader_queue \in Seq(Readers)
  /\ mgr_status \in {"empty", "non_empty", "destroyed"}
  /\ last_ts \in [SourcesOf -> Nat \cup {-1}]

\* The reader at the head always has the oldest entry, RIBs first: moving only
\* the head, and only when its time changed, keeps the whole queue in order,
\* even when the times within a dump go backwards.
ReadersAreSorted == SortedReaders(reader_queue)

\* A reader that has reached the end of its dump is not in the queue, as
\* bgpstream_reader_export_record takes for granted.
NoFinishedReader ==
  \A i \in 1..Len(reader_queue) : reader_queue[i].status # "END_OF_DUMP"

\* The flag the operations branch on agrees with the list.
StatusMatchesReaders == mgr_status = "non_empty" <=> reader_queue # <<>>

\* Every bgpdump entry read and not yet freed has exactly one owner: a reader
\* of the queue, or the record the user holds.
EntriesHaveOneOwner ==
  mgr_status # "destroyed" =>
    LET readers == 1..Len(reader_queue) IN
    /\ heap = (UNION {Held(reader_queue[i]) : i \in readers}) \cup Held(record)
    /\ \A i \in readers :
         /\ Held(reader_queue[i]) \cap Held(record) = {}
         /\ \A j \in readers : i # j =>
              Held(reader_queue[i]) \cap Held(reader_queue[j]) = {}

\* The entries of a dump that are to be delivered: those that match, up to
\* the first corrupted item.
Deliverable(in) ==
  LET items == dumps[in].items
  IN  {i \in DOMAIN items :
         /\ dumps[in].opens
         /\ IsEntry(items, i) /\ FilterBdEntry(items[i].time)
         /\ \A j \in 1..i : items[j].kind # "corrupted"}

\* The entries of a dump that went out.
DeliveredFrom(in) == {exported[in][k].bd_entry : k \in DOMAIN exported[in]} \ {0}

\* Every matching entry is delivered exactly once and in the order of its
\* dump: what came out of a dump so far is the beginning of what is to come
\* out of it, and all of it once its reader is gone.
DeliveredExactlyOnce ==
  \A in \in Files :
    LET done == DeliveredFrom(in)
        due == Deliverable(in)
        entry(k) == exported[in][k].bd_entry
        open == \E i \in 1..Len(reader_queue) : reader_queue[i].input = in
    IN  /\ done \subseteq due
        /\ \A d \in done, e \in due : e < d => e \in done
        /\ \A j, k \in DOMAIN exported[in] :
             j < k => entry(j) # 0 /\ (entry(k) = 0 \/ entry(j) < entry(k))
        /\ exported[in] # <<>> /\ ~ open /\ mgr_status # "destroyed" => done = due

\* Every entry read from a dump has one owner until it is freed, and every one
\* that matches reaches the user exactly once, in the order of its dump.
EntriesAreDelivered == EntriesHaveOneOwner /\ DeliveredExactlyOnce

\* The position in its dump a record claims is right.  An entry is marked as
\* the end exactly when nothing but unparsed items follows in its dump, and as
\* the start exactly when it is the first and not the end; a record without an
\* entry is the end.  What the time filter dropped counts as part of the dump.
PositionsAreRight ==
  \A in \in Files : \A k \in 1..Len(exported[in]) :
    LET rec == exported[in][k]
        items == dumps[in].items
        last == \A j \in DOMAIN items :
                  j > rec.bd_entry => items[j].kind = "unparsed"
        first == \A j \in 1..(rec.bd_entry - 1) : ~ IsEntry(items, j)
    IN  IF rec.bd_entry = 0 THEN rec.dump_pos = "END"
        ELSE /\ rec.dump_pos = "END" <=> last
             /\ rec.dump_pos = "START" <=> first /\ ~ last

\* The files of past and present batches that got a reader.
Taken ==
  {in \in offered :
     \/ exported[in] # <<>>
     \/ \E i \in 1..Len(reader_queue) : reader_queue[i].input = in
     \/ \E i \in 1..Len(tmp_readers) : tmp_readers[i].input = in}

RibsOf(s) == {in \in Files : in.filetype = "ribs" /\ in.source = s}

\* The rib period holds across batches: two RIBs of one source are taken at
\* least rib_period apart (or have the same time), unless a corrupted dump of
\* that source came up meanwhile.
RibsKeepTheirDistance ==
  rib_period # 0 =>
    \A s \in SourcesOf :
      \/ \E in \in Files : in.source = s
           /\ \E k \in DOMAIN exported[in] : ResetsPeriod(exported[in][k])
      \/ \A a, b \in RibsOf(s) \cap Taken :
           \/ a.epoch_filetime >= b.epoch_filetime
           \/ b.epoch_filetime >= a.epoch_filetime + rib_period

\* And it drops nothing without a reason: a RIB that was passed over has a
\* neighbour within the period that was taken instead, although the period
\* is reset behind the back of the check.
RibsDroppedForAReason ==
  rib_period # 0 /\ mgr_status # "destroyed" =>
    \A s \in SourcesOf : \A b \in RibsOf(s) \cap offered :
      \/ b \in Taken \cup Range(adding)
      \/ b.epoch_filetime < rib_period
      \/ \E a \in RibsOf(s) \cap Taken : b.epoch_filetime < a.epoch_filetime + rib_period

\* The rib period is kept across batches: the RIBs taken from a source are a
\* period apart, and none is passed over without a neighbour taken instead.
RibPeriodIsKept == RibsKeepTheirDistance /\ RibsDroppedForAReason

=============================================================================
