-------------------------------- MODULE Reader --------------------------------
(***************************************************************************)
(* One bgpstream_reader_t of lib/bgpstream_reader.c as pure operators: how *)
(* it reads a dump, what record it exports, and where it goes in the queue *)
(* of readers.  How its dump gets opened is ReaderOpen; here the dump is   *)
(* already known to open or not.                                           *)
(***************************************************************************)
EXTENDS Integers, Sequences, FiniteSetsExt, SequencesExt

CONSTANTS
  time_intervals,  \* the interval filters, records with begin_time, end_time
  FOREVER          \* BGPSTREAM_FOREVER

-----------------------------------------------------------------------------
(* What bgpdump_read_next finds in a dump: a parsed entry, something it    *)
(* does not parse and skips, or a corrupted record, behind which it reads  *)
(* nothing.                                                                *)

Items(Times) ==
  [kind : {"entry"}, time : Times]
    \cup [kind : {"unparsed", "corrupted"}, time : {0}]

\* bgpstream_reader_filter_bd_entry
FilterBdEntry(t) ==
  \/ time_intervals = {}
  \/ \E tif \in time_intervals :
       /\ t >= tif.begin_time
       /\ tif.end_time = FOREVER \/ t <= tif.end_time

IsEntry(items, i) == i \in DOMAIN items /\ items[i].kind = "entry"

\* What ends the loop of read_new_data before the end of the file.
Significant(items, i) ==
  \/ items[i].kind = "corrupted"
  \/ items[i].kind = "entry" /\ FilterBdEntry(items[i].time)

\* Mutant of NextSignificant: an item is read and forgotten.
NextSignificantButOne(items, pos) ==
  Min({i \in DOMAIN items : i > pos + 1 /\ Significant(items, i)}
        \cup {Len(items) + 1})

NextSignificant(items, pos) ==
  Min({i \in DOMAIN items : i > pos /\ Significant(items, i)}
        \cup {Len(items) + 1})

-----------------------------------------------------------------------------

\* Mutant of ReaderCreate: the reader starts at the start of its interval.
ReaderCreateEarly(in) ==
  [input |-> in,
   record_time |-> in.epoch_filetime - in.time_span,
   status |-> "VALID_ENTRY",
   valid_read |-> 0, successful_read |-> 0, pos |-> 0, bd_entry |-> 0]

\* bgpstream_reader_create
ReaderCreate(in) ==
  [input |-> in,
   record_time |-> in.epoch_filetime,
   status |-> "VALID_ENTRY",
   valid_read |-> 0,
   successful_read |-> 0,
   pos |-> 0,          \* where bgpdump stands in the file
   bd_entry |-> 0]     \* the item held as bd_entry, 0 for NULL

\* bgpstream_reader_read_new_data on a dump that does not open.
CantOpen(r) == [r EXCEPT !.status = "CANT_OPEN_DUMP", !.bd_entry = 0]

\* Mutant of EndStatus: a dump that gave nothing ends like the others.
EndStatusPlain(valid_read, successful_read) == "END_OF_DUMP"

\* The status at the end of a dump.
EndStatus(valid_read, successful_read) ==
  IF successful_read = 0 THEN "EMPTY_DUMP"
  ELSE IF valid_read = 0 THEN "FILTERED_DUMP"
  ELSE "END_OF_DUMP"

\* ... and on one that does: it reads up to the next significant item.
ReadOn(r, items) ==
  LET n == NextSignificant(items, r.pos)
      valid == IsEntry(items, n)
      successful_read == r.successful_read
        + Cardinality({i \in (r.pos + 1)..n : IsEntry(items, i)})
      valid_read == r.valid_read + (IF valid THEN 1 ELSE 0)
  IN  [input |-> r.input,
       record_time |-> IF valid THEN items[n].time ELSE r.record_time,
       status |-> IF valid THEN "VALID_ENTRY"
                  ELSE IF n \in DOMAIN items THEN "CORRUPTED_DUMP"
                  ELSE EndStatus(valid_read, successful_read),
       valid_read |-> valid_read,
       successful_read |-> successful_read,
       pos |-> n,
       bd_entry |-> IF valid THEN n ELSE 0]

ReadNewData(r, dump) ==
  IF r.status # "VALID_ENTRY" THEN r
  ELSE IF dump.opens THEN ReadOn(r, dump.items) ELSE CantOpen(r)

-----------------------------------------------------------------------------

RecordStatus ==
  [VALID_ENTRY    |-> "VALID_RECORD",
   FILTERED_DUMP  |-> "FILTERED_SOURCE",
   EMPTY_DUMP     |-> "EMPTY_SOURCE",
   CANT_OPEN_DUMP |-> "CORRUPTED_SOURCE",
   CORRUPTED_DUMP |-> "CORRUPTED_RECORD"]

\* Mutant of DumpPos: entries dropped before the first valid one are forgotten.
DumpPosFirstValid(r) == IF r.valid_read = 1 THEN "START" ELSE "MIDDLE"

DumpPos(r) ==
  IF r.valid_read = 1 /\ r.successful_read = 1 THEN "START" ELSE "MIDDLE"

\* bgpstream_reader_export_record, from a reader that has not reached its end.
ExportRecord(r) ==
  [input |-> r.input,
   record_time |-> r.record_time,
   bd_entry |-> r.bd_entry,
   status |-> RecordStatus[r.status],
   dump_pos |-> DumpPos(r)]

\* An export that resets the rib period of its source.
ResetsPeriod(rec) == rec.status \in {"CORRUPTED_SOURCE", "CORRUPTED_RECORD"}

\* Mutant of ReaderStopsAt: it looks at times only.
ReaderStopsAtTimeOnly(iterator, r) == iterator.record_time > r.record_time

\* Where bgpstream_reader_mgr_sorted_insert stops: in front of a later reader,
\* or of the updates that a RIB of the same time must precede.
ReaderStopsAt(iterator, r) ==
  \/ iterator.record_time > r.record_time
  \/ /\ iterator.record_time = r.record_time
     /\ iterator.input.filetype = "updates"
     /\ r.input.filetype = "ribs"

ReaderPos(q, r) ==
  Min({i \in 1..Len(q) : ReaderStopsAt(q[i], r)} \cup {Len(q) + 1})

SortedInsert(q, r) == InsertAt(q, ReaderPos(q, r), r)

\* a may stand before b in the queue of readers.
ReadersInOrder(a, b) ==
  \/ a.record_time < b.record_time
  \/ /\ a.record_time = b.record_time
     /\ ~ (a.input.filetype = "updates" /\ b.input.filetype = "ribs")

SortedReaders(q) == \A i, j \in 1..Len(q) : i < j => ReadersInOrder(q[i], q[j])

=============================================================================
