---------------------------- MODULE InputMgrProofs ----------------------------
(***************************************************************************)
(* Proofs about the input queue, for any sources, times, spans and cap of  *)
(* readers.                                                                *)
(***************************************************************************)
EXTENDS InputMgr, QueueLemmas

\* The inductive invariant.  That no file is queued twice is not inductive
\* without the order of the queue, since the duplicate test stops scanning at
\* the insertion point; the order rests on the types; and every action
\* branches on the status field.
IInv ==
  /\ TypeOK
  /\ QueueIsSorted
  /\ NoFileQueuedTwice
  /\ StatusMatchesQueue

-----------------------------------------------------------------------------

\* Every input has a type, a time and a span the comparisons make sense for.
LEMMA InputFields ==
  ASSUME NEW in \in Input
  PROVE  /\ in.filetype \in FileTypes
         /\ in.epoch_filetime \in Nat
         /\ in.time_span \in Nat
         /\ in.source \in Sources
BY InputMgrAssumption DEF Input, Inputs

LEMMA InputsAreInputs == AreInputs(Input)
BY InputFields DEF AreInputs

-----------------------------------------------------------------------------

\* The inductive invariant holds initially and every step preserves it.
LEMMA IInvInductive ==
  /\ Init => IInv
  /\ IInv /\ [Next]_vars => IInv'
<1> USE DEF IInv, QueueIsSorted, NoFileQueuedTwice, StatusMatchesQueue
<1>1. Init => IInv
  BY DEF Init, TypeOK, SortedQueue, NoTwins
<1>2. ASSUME IInv, [Next]_vars
      PROVE  IInv'
  <2>0. queue \in Seq(Input) /\ Len(queue) \in Nat
    BY <1>2, LenProperties DEF TypeOK
  <2>1. ASSUME NEW in \in Input, Push(in)
        PROVE  IInv'
    <3>1. CASE status = "empty"
      <4>1. queue' = <<in>> /\ <<in>> \in Seq(Input) /\ Len(<<in>>) = 1
        BY <2>1, <3>1 DEF Push
      <4>2. SortedQueue(queue') /\ NoTwins(queue')
        BY <4>1 DEF SortedQueue, NoTwins
      <4>3. queue' \in Seq(Input) /\ queue' # <<>>
        BY <4>1
      <4> QED
        BY <1>2, <2>1, <4>2, <4>3 DEF Push, TypeOK
    <3>2. CASE status # "empty"
      <4>1. queue' = PushSortedInput(queue, in)
        BY <2>1, <3>2 DEF Push
      <4>2. /\ queue' \in Seq(Input)
            /\ SortedQueue(queue')
            /\ NoTwins(queue')
            /\ Len(queue') >= Len(queue)
        BY <1>2, <2>0, <4>1, PushKeepsQueue, InputsAreInputs
      <4>3. status = "non_empty" /\ queue # <<>>
        BY <1>2, <2>1, <3>2 DEF Push, TypeOK
      <4>4. queue' # <<>>
        BY <2>0, <4>2, <4>3
      <4> QED
        BY <1>2, <2>1, <4>2, <4>4 DEF Push, TypeOK
    <3> QED
      BY <3>1, <3>2
  <2>2. ASSUME GetQueueToProcess
        PROVE  IInv'
    <3>1. /\ to_process' \in Seq(Input)
          /\ queue' \in Seq(Input)
          /\ SortedQueue(queue')
          /\ NoTwins(queue')
      BY <1>2, <2>0, <2>2, CutKeepsQueue DEF GetQueueToProcess
    <3>2. queue # <<>> /\ status = "non_empty"
      BY <1>2, <2>2 DEF GetQueueToProcess
    <3>3. LastToProcess(queue) = 0 => queue' = queue
      BY <2>0, <2>2, SubSeqFull DEF GetQueueToProcess, Remaining
    <3>4. status' = "non_empty" <=> queue' # <<>>
      BY <2>2, <3>2, <3>3 DEF GetQueueToProcess
    <3> QED
      BY <2>2, <3>1, <3>2, <3>4 DEF GetQueueToProcess, TypeOK
  <2>3. CASE DestroyQueue
    BY <1>2, <2>3 DEF DestroyQueue, TypeOK
  <2>4. CASE Destroy
    BY <1>2, <2>4 DEF Destroy, TypeOK, SortedQueue, NoTwins
  <2>5. CASE UNCHANGED vars
    BY <1>2, <2>5 DEF vars, TypeOK
  <2> QED
    BY <1>2, <2>1, <2>2, <2>3, <2>4, <2>5 DEF Next
<1> QED
  BY <1>1, <1>2

\* The queue, the batch and the status field always have their types.
THEOREM TypeCorrect == Spec => []TypeOK
<1>1. IInv => TypeOK
  BY DEF IInv
<1> QED
  BY IInvInductive, <1>1, PTL DEF Spec

\* Whatever the order of arrival, the queue of
\* bgpstream_input_mgr_push_sorted_input is in file time order, with the
\* RIBs in front of the updates of the same time.
THEOREM Sorted == Spec => []QueueIsSorted
<1>1. IInv => QueueIsSorted
  BY DEF IInv
<1> QED
  BY IInvInductive, <1>1, PTL DEF Spec

\* The partial duplicate scan is enough: no file is ever queued twice.
THEOREM NoDuplicates == Spec => []NoFileQueuedTwice
<1>1. IInv => NoFileQueuedTwice
  BY DEF IInv
<1> QED
  BY IInvInductive, <1>1, PTL DEF Spec

\* The status field the operations branch on agrees with the list.
THEOREM StatusAgrees == Spec => []StatusMatchesQueue
<1>1. IInv => StatusMatchesQueue
  BY DEF IInv
<1> QED
  BY IInvInductive, <1>1, PTL DEF Spec

\* A batch that is not cut by the cap of readers ends where no later file can
\* fall into an interval the batch affects.
THEOREM CutsAreSafe == Spec => CutIsSafe
<1>1. ASSUME IInv, [Next]_vars
      PROVE  [SafeCut]_vars
  <2> SUFFICES ASSUME GetQueueToProcess,
                      Len(to_process') \in 1..(max_readers - 1),
                      NEW i \in 1..Len(to_process'), NEW j \in 1..Len(queue')
               PROVE  queue'[j].epoch_filetime >= IntervalEnd(to_process'[i])
    BY DEF SafeCut
  <2> DEFINE n == LastToProcess(queue)
  <2>0. /\ queue \in Seq(Input) /\ SortedQueue(queue) /\ NoTwins(queue)
        /\ Len(queue) \in Nat /\ \A k \in 1..Len(queue) : queue[k] \in Input
    BY <1>1, LenProperties DEF IInv, TypeOK, QueueIsSorted, NoFileQueuedTwice
  <2>1. to_process' = ToProcess(queue) /\ queue' = Remaining(queue)
    BY DEF GetQueueToProcess
  <2>2. /\ n \in 0..Len(queue)
        /\ Len(to_process') = n
        /\ Len(queue') = Len(queue) - n
        /\ to_process'[i] = queue[i]
        /\ queue'[j] = queue[n + j]
    BY <2>0, <2>1, CutKeepsQueue, LastToProcessCuts
  <2>3. n < Len(queue) /\ n < max_readers => StartsNewBatch(queue, n + 1)
    BY <2>0, LastToProcessCuts
  <2> HIDE DEF n
  <2>4. /\ n \in 1..(Len(queue) - 1) /\ n < max_readers
        /\ i \in 1..n /\ n + j \in (n + 1)..Len(queue)
    BY <2>0, <2>2, MaxReadersAssumption
  <2>5. IntervalStart(queue[n + 1]) >= IntervalEnd(queue[i])
    <3>1. /\ StartsNewBatch(queue, n + 1)
          /\ i \in 1..Len(queue) /\ i < n + 1
      BY <2>3, <2>4, <2>0
    <3> QED
      BY <3>1 DEF StartsNewBatch
  <2>6. /\ queue[n + 1] \in Input /\ queue[n + j] \in Input /\ queue[i] \in Input
    BY <2>0, <2>4
  <2>7. IntervalStart(queue[n + 1]) <= queue[n + 1].epoch_filetime
    BY <2>6, InputFields DEF IntervalStart, FileTypes
  <2>8. queue[n + 1].epoch_filetime <= queue[n + j].epoch_filetime
    <3>1. j = 1 \/ InOrder(queue[n + 1], queue[n + j])
      BY <2>0, <2>2, <2>4 DEF SortedQueue
    <3>2. /\ queue[n + 1].epoch_filetime \in Nat
          /\ queue[n + j].epoch_filetime \in Nat
      BY <2>6, InputFields
    <3> QED
      BY <3>1, <3>2 DEF InOrder
  <2>9. /\ queue[n + 1].epoch_filetime \in Nat
        /\ queue[n + j].epoch_filetime \in Nat
        /\ IntervalStart(queue[n + 1]) \in Int
        /\ IntervalEnd(queue[i]) \in Int
    BY <2>6, InputFields DEF IntervalStart, IntervalEnd, FileTypes
  <2> QED
    BY <2>2, <2>5, <2>7, <2>8, <2>9
<1> QED
  BY IInvInductive, <1>1, PTL DEF Spec, CutIsSafe

=============================================================================
