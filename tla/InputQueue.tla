------------------------------ MODULE InputQueue ------------------------------
(***************************************************************************)
(* The sorted queue of dump files kept by lib/bgpstream_input.c, as pure   *)
(* operators on sequences.  The singly linked list head -> ... -> tail is  *)
(* the sequence of its elements; the operators are shared by the input     *)
(* manager on its own (InputMgr) and by the modules that feed it.          *)
(***************************************************************************)
EXTENDS Integers, Sequences, FiniteSetsExt, SequencesExt

CONSTANT
  \* The cap on the readers opened for one batch (200 in the code).
  max_readers

ASSUME MaxReadersAssumption == max_readers \in Nat \ {0}

-----------------------------------------------------------------------------
(* A bgpstream_input_t: "source" stands for the pair (fileproject,         *)
(* filecollector), which the queue only ever compares for equality.        *)
(* Only the types "ribs" and "updates" mean something to the queue; any    *)
(* other string a data source delivers behaves like "other".               *)

FileTypes == {"ribs", "updates", "other"}

Inputs(Sources, Times, Spans) ==
  [source : Sources, filetype : FileTypes,
   epoch_filetime : Times, time_span : Spans]

\* The duplicate test of the scan: same time, source and type.
SameFile(a, b) ==
  /\ a.epoch_filetime = b.epoch_filetime
  /\ a.source = b.source
  /\ a.filetype = b.filetype

\* Mutant of StopsAt: the scan looks at times only.
StopsAtTimeOnly(current, in) == current.epoch_filetime > in.epoch_filetime

\* The scan stops in front of a newer file, or of the updates that a RIB of
\* the same time must precede.
StopsAt(current, in) ==
  \/ current.epoch_filetime > in.epoch_filetime
  \/ /\ current.epoch_filetime = in.epoch_filetime
     /\ in.filetype = "ribs"
     /\ current.filetype = "updates"

\* The position at which the new input goes: in front of the first element
\* that stops the scan, or at the tail.
InsertPos(q, in) ==
  Min({i \in 1..Len(q) : StopsAt(q[i], in)} \cup {Len(q) + 1})

\* Mutant of IsDuplicate: the file is compared with its new neighbour only.
IsDuplicateOfNeighbour(q, in) ==
  LET p == InsertPos(q, in) IN p > 1 /\ SameFile(q[p - 1], in)

\* The scan met the file on its way.
IsDuplicate(q, in) ==
  \E i \in 1..(InsertPos(q, in) - 1) : SameFile(q[i], in)

\* The queue after bgpstream_input_mgr_push_sorted_input, and its result
\* (1 for a queued input, 0 for a duplicate that is dropped).
PushSortedInput(q, in) ==
  IF IsDuplicate(q, in) THEN q ELSE InsertAt(q, InsertPos(q, in), in)

PushResult(q, in) == IF IsDuplicate(q, in) THEN 0 ELSE 1

-----------------------------------------------------------------------------
(* The interval of time an input may affect: bgpstream_set_intervals.      *)

IntervalStart(in) ==
  CASE in.filetype = "ribs"    -> in.epoch_filetime - in.time_span
    [] in.filetype = "updates" -> in.epoch_filetime
    [] OTHER                   -> 0

IntervalEnd(in) ==
  IF in.filetype \in {"ribs", "updates"}
  THEN in.epoch_filetime + in.time_span
  ELSE 0

\* Mutant of StartsNewBatch: to_process_interval_end is overwritten, not
\* extended.
StartsNewBatchAfterPrevious(q, i) ==
  IntervalStart(q[i]) >= IntervalEnd(q[IF i = 1 THEN 1 ELSE i - 1])

\* Input i does not overlap with the interval grown so far, which starts as
\* the interval of the first input.
StartsNewBatch(q, i) ==
  \A j \in 1..Len(q) :
    j = 1 \/ j < i => IntervalStart(q[i]) >= IntervalEnd(q[j])

\* Mutant of LastToProcess: the input before the last one to process.
LastToProcessOffByOne(q) ==
  LET n == Min({i \in 1..Len(q) : StartsNewBatch(q, i)}
                 \cup {Len(q) + 1, max_readers + 1}) - 1
  IN  IF n = 0 THEN 0 ELSE n - 1

\* How many inputs the next batch has: the position of last_to_process, 0
\* when it stays NULL.
LastToProcess(q) ==
  Min({i \in 1..Len(q) : StartsNewBatch(q, i)}
        \cup {Len(q) + 1, max_readers + 1}) - 1

\* The batch handed out, and what stays in the queue.
ToProcess(q) == SubSeq(q, 1, LastToProcess(q))

\* Mutant of Remaining: the head moves one input too far.
RemainingSkipsOne(q) == SubSeq(q, LastToProcess(q) + 2, Len(q))

Remaining(q) == SubSeq(q, LastToProcess(q) + 1, Len(q))

-----------------------------------------------------------------------------
(* The order the queue keeps.                                              *)

\* a may stand before b: older, or as old and not updates before a RIB.
InOrder(a, b) ==
  \/ a.epoch_filetime < b.epoch_filetime
  \/ /\ a.epoch_filetime = b.epoch_filetime
     /\ ~ (a.filetype = "updates" /\ b.filetype = "ribs")

SortedQueue(q) == \A i, j \in 1..Len(q) : i < j => InOrder(q[i], q[j])

NoTwins(q) == \A i, j \in 1..Len(q) : i # j => ~ SameFile(q[i], q[j])

=============================================================================
