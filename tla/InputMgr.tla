------------------------------- MODULE InputMgr -------------------------------
(***************************************************************************)
(* The input manager of lib/bgpstream_input.c as a state machine: data     *)
(* sources push dump files into its queue in any order, and                *)
(* bgpstream_get_next_record takes batches out of it.  The one thread that *)
(* does both destroys a batch, once its readers exist, before it pushes or *)
(* takes again.                                                            *)
(***************************************************************************)
EXTENDS InputQueue

CONSTANTS
  Sources,   \* (project, collector) pairs
  Times,     \* file times
  Spans,     \* time spans
  MaxQueue   \* bound of the model: longest queue

ASSUME InputMgrAssumption ==
  /\ Times \subseteq Nat
  /\ Spans \subseteq Nat
  /\ MaxQueue \in Nat

VARIABLES
  queue,      \* head -> ... -> tail
  status,     \* "empty", "non_empty", or "destroyed" after the free
  to_process  \* the sub-queue handed out and not yet destroyed by its taker

vars == <<queue, status, to_process>>

Input == Inputs(Sources, Times, Spans)

-----------------------------------------------------------------------------

Init ==
  /\ queue = <<>>
  /\ status = "empty"
  /\ to_process = <<>>

\* Mutant of Push: the file is queued under the end of its time.
PushUnderItsEnd(in) ==
  /\ status # "destroyed"
  /\ to_process = <<>>
  /\ Len(queue) < MaxQueue
  /\ LET late == [in EXCEPT !.epoch_filetime = @ + in.time_span]
     IN  queue' = IF status = "empty" THEN <<late>> ELSE PushSortedInput(queue, late)
  /\ status' = "non_empty"
  /\ UNCHANGED to_process

\* bgpstream_input_mgr_push_sorted_input: the branch is taken on the status
\* field, not on the list.
Push(in) ==
  /\ status # "destroyed"
  /\ to_process = <<>>
  /\ Len(queue) < MaxQueue
  /\ queue' = IF status = "empty" THEN <<in>> ELSE PushSortedInput(queue, in)
  /\ status' = "non_empty"
  /\ UNCHANGED to_process

\* Mutant of GetQueueToProcess: the status is not reset with the last input.
GetQueueToProcessKeepsStatus ==
  /\ status = "non_empty"
  /\ to_process = <<>>
  /\ to_process' = ToProcess(queue)
  /\ queue' = Remaining(queue)
  /\ UNCHANGED status

\* bgpstream_input_mgr_get_queue_to_process: without a last_to_process the
\* call returns NULL and leaves the queue alone.
GetQueueToProcess ==
  /\ status = "non_empty"
  /\ to_process = <<>>
  /\ to_process' = ToProcess(queue)
  /\ queue' = Remaining(queue)
  /\ status' = IF LastToProcess(queue) # 0 /\ Remaining(queue) = <<>>
               THEN "empty" ELSE status

\* bgpstream_input_mgr_destroy_queue, called on the batch by its taker.
DestroyQueue ==
  /\ to_process # <<>>
  /\ to_process' = <<>>
  /\ UNCHANGED <<queue, status>>

\* bgpstream_input_mgr_destroy.
Destroy ==
  /\ status # "destroyed"
  /\ to_process = <<>>
  /\ queue' = <<>>
  /\ status' = "destroyed"
  /\ UNCHANGED to_process

Next ==
  \/ \E in \in Input : Push(in)
  \/ GetQueueToProcess
  \/ DestroyQueue
  \/ Destroy

Spec == Init /\ [][Next]_vars

-----------------------------------------------------------------------------

TypeOK ==
  /\ queue \in Seq(Input)
  /\ status \in {"empty", "non_empty", "destroyed"}
  /\ to_process \in Seq(Input)

\* The queue is always ordered by file time, RIBs in front of the updates of
\* the same time, whatever the order in which the data source delivered the
\* files (the order bgpstream_input_mgr_push_sorted_input promises).
QueueIsSorted == SortedQueue(queue)

\* No file is queued twice.  The duplicate test only sees the elements the
\* scan walks over before it stops, so this rests on the order of the queue.
NoFileQueuedTwice == NoTwins(queue)

\* The status field agrees with the list: push and get branch on the field,
\* and a stale one would drop the queue or read a NULL head.
StatusMatchesQueue == status = "non_empty" <=> queue # <<>>

\* What taking a batch below the cap of readers must not do.
SafeCut ==
  GetQueueToProcess /\ Len(to_process') \in 1..(max_readers - 1) =>
    \A i \in 1..Len(to_process'), j \in 1..Len(queue') :
      queue'[j].epoch_filetime >= IntervalEnd(to_process'[i])

\* Where a batch below the cap of readers ends, it ends safely: no file left
\* in the queue is older than the end of an interval the batch may affect,
\* even though set_last_to_process only looked at the next file.
CutIsSafe == [][SafeCut]_vars

=============================================================================
