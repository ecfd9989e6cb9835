--------------------------- MODULE BgpstreamProofs ---------------------------
(***************************************************************************)
(* Proofs about the reader manager and the stream that extends it: the     *)
(* merge, for any files, contents of dumps, filter and rib period; and     *)
(* that the stream uses its two managers as their modules assume, returns  *)
(* records in their order and none too few, and implements what it         *)
(* promises its caller, for any readers and order of calls.                *)
(***************************************************************************)
EXTENDS Bgpstream, QueueLemmas, FiniteSetTheorems

-----------------------------------------------------------------------------
(* The reader manager                                                      *)

\* A reader that has not read yet.
Fresh(r) == r.valid_read = 0 /\ r.status = "VALID_ENTRY"

\* The inductive invariant.  Nothing finished is queued because a reader fresh
\* from bgpstream_reader_create has read nothing valid, and so cannot reach
\* END_OF_DUMP by its first read; the flag and the order need the types.
IInv ==
  /\ TypeOK
  /\ dumps \in Dumps
  /\ ReadersAreSorted
  /\ NoFinishedReader
  /\ StatusMatchesReaders
  /\ \A i \in 1..Len(tmp_readers) : Fresh(tmp_readers[i])
  /\ mgr_status = "destroyed" => adding = <<>> /\ tmp_readers = <<>>

-----------------------------------------------------------------------------

\* A read leaves a reader with the types it had, for the file it had, and
\* a first read does not end the dump.
LEMMA ReadNewDataProperties ==
  ASSUME NEW r \in Readers, NEW dump,
         dump.opens => dump.items \in Seq(Items(Nat))
  PROVE  /\ ReadNewData(r, dump) \in Readers
         /\ ReadNewData(r, dump).input = r.input
         /\ r.valid_read = 0 /\ r.status # "END_OF_DUMP" =>
              ReadNewData(r, dump).status # "END_OF_DUMP"
<1>1. CASE r.status # "VALID_ENTRY"
  BY <1>1 DEF ReadNewData
<1>2. CASE r.status = "VALID_ENTRY" /\ ~ dump.opens
  BY <1>2 DEF ReadNewData, CantOpen, Readers
<1>3. CASE r.status = "VALID_ENTRY" /\ dump.opens
  <2> DEFINE items == dump.items
             n == NextSignificant(items, r.pos)
             T == {i \in DOMAIN items : i > r.pos /\ Significant(items, i)}
             C == {i \in (r.pos + 1)..n : IsEntry(items, i)}
  <2>1. items \in Seq(Items(Nat))
    BY <1>3
  <2>2. Len(items) \in Nat /\ DOMAIN items = 1..Len(items) /\ r.pos \in Nat
    BY <2>1, LenProperties DEF Readers
  <2>3. n \in Nat
    <3>1. T \subseteq 1..Len(items)
      BY <2>2
    <3>2. n = Min(T \cup {Len(items) + 1})
      BY DEF NextSignificant
    <3> HIDE DEF T, n
    <3>3. n \in 1..(Len(items) + 1)
      BY <2>2, <3>1, <3>2, ScanStops
    <3> QED
      BY <2>2, <3>3
  <2> HIDE DEF n
  <2>4. Cardinality(C) \in Nat
    <3>1. r.pos + 1 \in Int /\ n \in Int
      BY <2>2, <2>3
    <3>2. IsFiniteSet((r.pos + 1)..n)
      BY <3>1, FS_Interval, Zenon
    <3> QED
      BY <3>2, FS_Subset, FS_CardinalityType
  <2>5. IsEntry(items, n) => items[n].time \in Nat
    BY <2>1, <2>2 DEF IsEntry, Items
  <2> HIDE DEF C
  <2>6. ReadNewData(r, dump) = ReadOn(r, items)
    BY <1>3 DEF ReadNewData
  <2> DEFINE valid == IsEntry(items, n)
             successful_read == r.successful_read + Cardinality(C)
             valid_read == r.valid_read + (IF valid THEN 1 ELSE 0)
             record_time == IF valid THEN items[n].time ELSE r.record_time
             verdict == IF valid THEN "VALID_ENTRY"
                        ELSE IF n \in DOMAIN items THEN "CORRUPTED_DUMP"
                        ELSE IF successful_read = 0 THEN "EMPTY_DUMP"
                        ELSE IF valid_read = 0 THEN "FILTERED_DUMP"
                        ELSE "END_OF_DUMP"
             bd_entry == IF valid THEN n ELSE 0
  <2>7. ReadOn(r, items) =
          [input |-> r.input, record_time |-> record_time, status |-> verdict,
           valid_read |-> valid_read, successful_read |-> successful_read,
           pos |-> n, bd_entry |-> bd_entry]
    BY DEF ReadOn, EndStatus, n, C
  <2>8. /\ r.input \in Files
        /\ successful_read \in Nat
        /\ valid_read \in Nat
        /\ record_time \in Nat
        /\ bd_entry \in Nat
    BY <2>3, <2>4, <2>5 DEF Readers
  <2>9. verdict \in {"VALID_ENTRY", "FILTERED_DUMP", "EMPTY_DUMP", "CANT_OPEN_DUMP",
                    "CORRUPTED_DUMP", "END_OF_DUMP"}
    OBVIOUS
  <2>10. r.valid_read = 0 => verdict # "END_OF_DUMP"
    OBVIOUS
  <2> HIDE DEF items, valid, successful_read, valid_read, record_time, verdict, bd_entry
  <2> QED
    BY <2>3, <2>6, <2>7, <2>8, <2>9, <2>10 DEF Readers
<1> QED
  BY <1>1, <1>2, <1>3

\* Inserting where sorted_insert stops keeps the queue in order, and adds
\* nothing but the new reader.
LEMMA SortedInsertProperties ==
  ASSUME NEW q \in Seq(Readers), SortedReaders(q), NEW r \in Readers
  PROVE  /\ SortedInsert(q, r) \in Seq(Readers)
         /\ Len(SortedInsert(q, r)) = Len(q) + 1
         /\ SortedReaders(SortedInsert(q, r))
         /\ \A k \in 1..(Len(q) + 1) :
              \/ SortedInsert(q, r)[k] = r
              \/ \E j \in 1..Len(q) : SortedInsert(q, r)[k] = q[j]
         /\ \E p \in 1..(Len(q) + 1) : \A k \in 1..(Len(q) + 1) :
              SortedInsert(q, r)[k] =
                IF k < p THEN q[k] ELSE IF k = p THEN r ELSE q[k - 1]
<1> DEFINE at == ReaderPos(q, r)
           T == {i \in 1..Len(q) : ReaderStopsAt(q[i], r)}
<1>0. Len(q) \in Nat /\ \A k \in 1..Len(q) : q[k] \in Readers
  BY LenProperties
<1>a. /\ at \in 1..(Len(q) + 1)
      /\ at <= Len(q) => at \in T
      /\ \A k \in 1..Len(q) : k < at => k \notin T
  <2>1. T \subseteq 1..Len(q) /\ at = Min(T \cup {Len(q) + 1})
    BY DEF ReaderPos
  <2> HIDE DEF at, T
  <2> QED
    BY <1>0, <2>1, ScanStops
<1> HIDE DEF at
<1>1. PICK p \in 1..(Len(q) + 1) :
        /\ p = at
        /\ p <= Len(q) => ReaderStopsAt(q[p], r)
        /\ \A k \in 1..Len(q) : k < p => ~ ReaderStopsAt(q[k], r)
  BY <1>a
<1> DEFINE s == InsertAt(q, p, r)
<1>2. SortedInsert(q, r) = s
  BY <1>1 DEF SortedInsert, at
<1>3. /\ s \in Seq(Readers)
      /\ Len(s) = Len(q) + 1
      /\ \A k \in 1..(Len(q) + 1) :
           s[k] = IF k < p THEN q[k] ELSE IF k = p THEN r ELSE q[k - 1]
  BY InsertAtProperties
<1> HIDE DEF s
<1>4. ASSUME NEW k \in 1..Len(q), k < p
      PROVE  ReadersInOrder(q[k], r)
  <2>1. ~ ReaderStopsAt(q[k], r)
    BY <1>1, <1>4
  <2>2. q[k].record_time \in Nat /\ r.record_time \in Nat
    BY <1>0 DEF Readers
  <2> QED
    BY <2>1, <2>2 DEF ReaderStopsAt, ReadersInOrder
<1>5. ASSUME NEW k \in 1..Len(q), k >= p
      PROVE  ReadersInOrder(r, q[k])
  <2>1. p \in 1..Len(q)
    BY <1>0, <1>1, <1>5
  <2>2. ReaderStopsAt(q[p], r)
    BY <1>1, <2>1
  <2>3. p = k \/ ReadersInOrder(q[p], q[k])
    BY <1>0, <1>5, <2>1 DEF SortedReaders
  <2>4. /\ q[k].record_time \in Nat /\ q[p].record_time \in Nat
        /\ r.record_time \in Nat
    BY <1>0, <2>1 DEF Readers
  <2> QED
    BY <2>2, <2>3, <2>4 DEF ReaderStopsAt, ReadersInOrder
<1>6. ASSUME NEW i \in 1..Len(s), NEW j \in 1..Len(s), i < j
      PROVE  ReadersInOrder(s[i], s[j])
  <2>0. i \in Nat /\ j \in Nat /\ p \in Nat
    BY <1>0, <1>1, <1>3
  <2>1. CASE j < p
    <3>1. s[i] = q[i] /\ s[j] = q[j] /\ i \in 1..Len(q) /\ j \in 1..Len(q)
      BY <2>0, <2>1, <1>0, <1>1, <1>3, <1>6
    <3> QED
      BY <3>1, <1>6 DEF SortedReaders
  <2>2. CASE j = p
    <3>1. s[i] = q[i] /\ i \in 1..Len(q) /\ i < p
      BY <2>0, <2>2, <1>0, <1>1, <1>3, <1>6
    <3>2. s[j] = r
      BY <2>0, <2>2, <1>0, <1>1, <1>3
    <3> QED
      BY <3>1, <3>2, <1>4
  <2>3. CASE j > p /\ i = p
    <3>1. s[i] = r
      BY <2>0, <2>3, <1>0, <1>1, <1>3
    <3>2. s[j] = q[j - 1] /\ j - 1 \in 1..Len(q) /\ j - 1 >= p
      BY <2>0, <2>3, <1>0, <1>3
    <3> QED
      BY <3>1, <3>2, <1>5
  <2>4. CASE j > p /\ i < p
    <3>1. /\ s[i] = q[i] /\ s[j] = q[j - 1]
          /\ i \in 1..Len(q) /\ j - 1 \in 1..Len(q) /\ i < j - 1
      BY <2>0, <2>4, <1>0, <1>1, <1>3
    <3> QED
      BY <3>1 DEF SortedReaders
  <2>5. CASE j > p /\ i > p
    <3>1. /\ s[i] = q[i - 1] /\ s[j] = q[j - 1]
          /\ i - 1 \in 1..Len(q) /\ j - 1 \in 1..Len(q) /\ i - 1 < j - 1
      BY <2>0, <2>5, <1>0, <1>1, <1>3, <1>6
    <3> QED
      BY <3>1 DEF SortedReaders
  <2> QED
    BY <2>0, <2>1, <2>2, <2>3, <2>4, <2>5
<1>7. SortedReaders(s)
  BY <1>6 DEF SortedReaders
<1>8. ASSUME NEW k \in 1..(Len(q) + 1)
      PROVE  s[k] = r \/ \E j \in 1..Len(q) : s[k] = q[j]
  <2>0. k \in Nat /\ p \in Nat
    BY <1>0, <1>1
  <2>1. CASE k < p
    <3>1. s[k] = q[k] /\ k \in 1..Len(q)
      BY <2>0, <2>1, <1>0, <1>1, <1>3
    <3> QED
      BY <3>1
  <2>2. CASE k = p
    BY <2>0, <2>2, <1>3
  <2>3. CASE k > p
    <3>1. s[k] = q[k - 1] /\ k - 1 \in 1..Len(q)
      BY <2>0, <2>3, <1>0, <1>1, <1>3
    <3> QED
      BY <3>1
  <2> QED
    BY <2>0, <2>1, <2>2, <2>3
<1>9. \E x \in 1..(Len(q) + 1) : \A k \in 1..(Len(q) + 1) :
        s[k] = IF k < x THEN q[k] ELSE IF k = x THEN r ELSE q[k - 1]
  BY <1>1, <1>3
<1> QED
  BY <1>2, <1>3, <1>7, <1>8, <1>9

\* What is left of a sorted queue without its head is sorted.
LEMMA TailIsSorted ==
  ASSUME NEW q \in Seq(Readers), q # <<>>, SortedReaders(q)
  PROVE  /\ Head(q) \in Readers /\ Head(q) = q[1]
         /\ Tail(q) \in Seq(Readers)
         /\ Len(Tail(q)) = Len(q) - 1
         /\ \A k \in 1..Len(Tail(q)) : Tail(q)[k] = q[k + 1]
         /\ SortedReaders(Tail(q))
<1>0. Len(q) \in Nat \ {0}
  BY LenProperties, EmptySeq
<1>1. /\ Head(q) \in Readers
      /\ Tail(q) \in Seq(Readers)
      /\ Len(Tail(q)) = Len(q) - 1
      /\ \A k \in 1..Len(Tail(q)) : Tail(q)[k] = q[k + 1]
  BY HeadTailProperties
<1>2. ASSUME NEW i \in 1..Len(Tail(q)), NEW j \in 1..Len(Tail(q)), i < j
      PROVE  ReadersInOrder(Tail(q)[i], Tail(q)[j])
  BY <1>0, <1>1, <1>2 DEF SortedReaders
<1>3. SortedReaders(Tail(q))
  BY <1>2 DEF SortedReaders
<1>4. Head(q) = q[1]
  OBVIOUS
<1> QED
  BY <1>1, <1>3, <1>4

\* A head that read on and kept its time may keep its place.
LEMMA SameTimeSamePlace ==
  ASSUME NEW q \in Seq(Readers), q # <<>>, SortedReaders(q), NEW r \in Readers,
         r.input = q[1].input, r.record_time = q[1].record_time
  PROVE  /\ <<r>> \o Tail(q) \in Seq(Readers)
         /\ Len(<<r>> \o Tail(q)) = Len(q)
         /\ SortedReaders(<<r>> \o Tail(q))
         /\ \A k \in 1..Len(q) : (<<r>> \o Tail(q))[k] = IF k = 1 THEN r ELSE q[k]
<1> DEFINE s == <<r>> \o Tail(q)
<1>0. Len(q) \in Nat \ {0}
  BY LenProperties, EmptySeq
<1>1. /\ Tail(q) \in Seq(Readers)
      /\ Len(Tail(q)) = Len(q) - 1
      /\ \A k \in 1..Len(Tail(q)) : Tail(q)[k] = q[k + 1]
  BY TailIsSorted
<1>2. <<r>> \in Seq(Readers) /\ Len(<<r>>) = 1 /\ <<r>>[1] = r
  OBVIOUS
<1>3. /\ s \in Seq(Readers)
      /\ Len(s) = Len(<<r>>) + Len(Tail(q))
      /\ \A k \in 1..(Len(<<r>>) + Len(Tail(q))) :
           s[k] = IF k <= Len(<<r>>) THEN <<r>>[k] ELSE Tail(q)[k - Len(<<r>>)]
  BY <1>1, <1>2, ConcatProperties
<1> HIDE DEF s
<1>4. Len(s) = Len(q)
  BY <1>0, <1>1, <1>2, <1>3
<1>5. ASSUME NEW k \in 1..Len(q)
      PROVE  s[k] = IF k = 1 THEN r ELSE q[k]
  <2>1. CASE k = 1
    BY <2>1, <1>0, <1>1, <1>2, <1>3
  <2>2. CASE k # 1
    <3>1. k - 1 \in 1..Len(Tail(q)) /\ (k - 1) + 1 = k
      BY <2>2, <1>0, <1>1
    <3>2. s[k] = Tail(q)[k - 1]
      BY <2>2, <1>0, <1>1, <1>2, <1>3
    <3> QED
      BY <2>2, <3>1, <3>2, <1>1
  <2> QED
    BY <2>1, <2>2
<1>6. ASSUME NEW i \in 1..Len(s), NEW j \in 1..Len(s), i < j
      PROVE  ReadersInOrder(s[i], s[j])
  <2>1. /\ i \in 1..Len(q) /\ j \in 1..Len(q) /\ j # 1 /\ 1 \in 1..Len(q)
    BY <1>0, <1>4, <1>6
  <2>2. s[j] = q[j]
    BY <2>1, <1>5
  <2>3. ReadersInOrder(q[i], q[j])
    BY <2>1, <1>6 DEF SortedReaders
  <2>4. CASE i = 1
    <3>1. s[i] = r
      BY <2>1, <2>4, <1>5
    <3> QED
      BY <2>2, <2>3, <2>4, <3>1 DEF ReadersInOrder
  <2>5. CASE i # 1
    BY <2>1, <2>2, <2>3, <2>5, <1>5
  <2> QED
    BY <2>4, <2>5
<1>7. SortedReaders(s)
  BY <1>6 DEF SortedReaders
<1> QED
  BY <1>3, <1>4, <1>5, <1>7 DEF s

-----------------------------------------------------------------------------

\* The inductive invariant holds initially and every step preserves it.
LEMMA IInvInductive ==
  /\ ReaderMgrInit => IInv
  /\ IInv /\ [ReaderMgrNext]_reader_vars => IInv'
<1>1. ReaderMgrInit => IInv
  BY DEF ReaderMgrInit, IInv, TypeOK, ReadersAreSorted, SortedReaders, NoFinishedReader,
         StatusMatchesReaders
<1>2. ASSUME IInv, [ReaderMgrNext]_reader_vars
      PROVE  IInv'
  <2> USE DEF IInv, TypeOK, ReadersAreSorted, NoFinishedReader, StatusMatchesReaders
  <2>0. /\ adding \in Seq(Files) /\ tmp_readers \in Seq(Readers)
        /\ reader_queue \in Seq(Readers) /\ dumps \in Dumps
        /\ SortedReaders(reader_queue)
        /\ \A in \in Files : dumps[in].opens => dumps[in].items \in Seq(Items(Nat))
    BY <1>2, ReaderMgrAssumption
  <2>1. ASSUME NEW batch \in Batches, Add(batch)
        PROVE  IInv'
    <3>1. batch \in Seq(Files)
      BY MaxReadersAssumption DEF Batches
    <3> QED
      BY <1>2, <2>1, <3>1 DEF Add, BetweenCalls
  <2>2. CASE CreateNext
    <3>1. Head(adding) \in Files /\ Tail(adding) \in Seq(Files)
      BY <2>0, <2>2, HeadTailProperties DEF CreateNext, LastTsAfter
    <3> DEFINE in == Head(adding)
    <3>2. /\ ReaderCreate(in) \in Readers
          /\ Fresh(ReaderCreate(in))
      BY <3>1, ReaderMgrAssumption DEF ReaderCreate, Readers, Fresh
    <3>3. last_ts' \in [SourcesOf -> Nat \cup {-1}]
      <4>1. in.source \in SourcesOf /\ in.epoch_filetime \in Nat
        BY <3>1, ReaderMgrAssumption DEF SourcesOf
      <4> QED
        BY <1>2, <2>2, <4>1 DEF CreateNext, LastTsAfter
    <3>4. /\ tmp_readers' \in Seq(Readers)
          /\ \A i \in 1..Len(tmp_readers') : Fresh(tmp_readers'[i])
      <4>1. CASE tmp_readers' = tmp_readers
        BY <1>2, <2>0, <4>1
      <4>2. CASE tmp_readers' = Append(tmp_readers, ReaderCreate(in))
        <5> HIDE DEF in
        <5>1. /\ Append(tmp_readers, ReaderCreate(in)) \in Seq(Readers)
              /\ Len(Append(tmp_readers, ReaderCreate(in))) = Len(tmp_readers) + 1
              /\ \A i \in 1..Len(tmp_readers) :
                   Append(tmp_readers, ReaderCreate(in))[i] = tmp_readers[i]
              /\ Append(tmp_readers, ReaderCreate(in))[Len(tmp_readers) + 1]
                   = ReaderCreate(in)
          BY <2>0, <3>2, AppendProperties
        <5>2. Len(tmp_readers) \in Nat
          BY <2>0, LenProperties
        <5> QED
          BY <1>2, <3>2, <4>2, <5>1, <5>2
      <4> QED
        BY <2>2, <4>1, <4>2 DEF CreateNext, LastTsAfter
    <3>5. mgr_status # "destroyed"
      BY <1>2, <2>2 DEF CreateNext, LastTsAfter
    <3> QED
      BY <1>2, <2>2, <3>1, <3>3, <3>4, <3>5 DEF CreateNext, LastTsAfter
  <2>3. CASE InsertNext
    <3> DEFINE new == Head(tmp_readers)
               r == ReadNewData(new, dumps[new.input])
    <3>1. /\ new \in Readers /\ new = tmp_readers[1]
          /\ Tail(tmp_readers) \in Seq(Readers)
          /\ Len(tmp_readers) \in Nat \ {0}
          /\ Len(Tail(tmp_readers)) = Len(tmp_readers) - 1
          /\ \A i \in 1..Len(Tail(tmp_readers)) :
               Tail(tmp_readers)[i] = tmp_readers[i + 1]
      BY <2>0, <2>3, HeadTailProperties, EmptySeq DEF InsertNext
    <3>2. Fresh(new)
      BY <1>2, <3>1
    <3>3. r \in Readers /\ r.status # "END_OF_DUMP"
      <4>1. new.input \in Files
        BY <3>1 DEF Readers
      <4>2. new.valid_read = 0 /\ new.status # "END_OF_DUMP"
        BY <3>2 DEF Fresh
      <4> QED
        BY <2>0, <3>1, <4>1, <4>2, ReadNewDataProperties
    <3>4. tmp_readers' = Tail(tmp_readers)
      BY <2>3 DEF InsertNext
    <3>5. \A i \in 1..Len(tmp_readers') : Fresh(tmp_readers'[i])
      BY <1>2, <3>1, <3>4
    <3>6. /\ reader_queue' = IF mgr_status = "empty" THEN <<r>>
                             ELSE SortedInsert(reader_queue, r)
          /\ mgr_status' = "non_empty"
          /\ UNCHANGED <<dumps, adding, last_ts>>
      BY <2>3 DEF InsertNext
    <3> HIDE DEF new, r
    <3>7. /\ reader_queue' \in Seq(Readers)
          /\ reader_queue' # <<>>
          /\ SortedReaders(reader_queue')
          /\ \A i \in 1..Len(reader_queue') : reader_queue'[i].status # "END_OF_DUMP"
      <4>1. CASE mgr_status = "empty"
        <5>1. reader_queue' = <<r>>
          BY <3>6, <4>1
        <5> QED
          BY <3>3, <5>1 DEF SortedReaders
      <4>2. CASE mgr_status # "empty"
        <5> DEFINE q == SortedInsert(reader_queue, r)
        <5>1. /\ q \in Seq(Readers)
              /\ Len(q) = Len(reader_queue) + 1
              /\ SortedReaders(q)
              /\ \A k \in 1..(Len(reader_queue) + 1) :
                   q[k] = r \/ \E j \in 1..Len(reader_queue) : q[k] = reader_queue[j]
          BY <2>0, <3>3, SortedInsertProperties
        <5>2. reader_queue' = q /\ Len(reader_queue) \in Nat
          BY <2>0, <3>6, <4>2, LenProperties
        <5> HIDE DEF q
        <5>3. q # <<>>
          BY <5>1, <5>2
        <5> QED
          BY <1>2, <3>3, <5>1, <5>2, <5>3
      <4> QED
        BY <4>1, <4>2
    <3> QED
      BY <1>2, <3>1, <3>4, <3>5, <3>6, <3>7
  <2>4. CASE ExportValid
    <3> DEFINE head == Head(reader_queue)
               next == ReadNewData(head, dumps[head.input])
    <3>1. reader_queue # <<>>
      BY <1>2, <2>4 DEF ExportValid
    <3>2. /\ head \in Readers /\ head = reader_queue[1]
          /\ Tail(reader_queue) \in Seq(Readers)
          /\ Len(Tail(reader_queue)) = Len(reader_queue) - 1
          /\ \A k \in 1..Len(Tail(reader_queue)) :
               Tail(reader_queue)[k] = reader_queue[k + 1]
          /\ SortedReaders(Tail(reader_queue))
      BY <2>0, <3>1, TailIsSorted
    <3>3. Len(reader_queue) \in Nat \ {0}
      BY <2>0, <3>1, EmptySeq
    <3>4. head.input \in Files /\ head.input.source \in SourcesOf
      BY <3>2 DEF Readers, SourcesOf
    <3>5. next \in Readers /\ next.input = head.input
      BY <2>0, <3>2, <3>4, ReadNewDataProperties
    <3>6. \A k \in 1..Len(Tail(reader_queue)) :
            Tail(reader_queue)[k].status # "END_OF_DUMP"
      BY <1>2, <3>2, <3>3
    <3>7. /\ last_ts' \in [SourcesOf -> Nat \cup {-1}]
          /\ UNCHANGED <<dumps, adding, tmp_readers>>
      BY <1>2, <2>4, <3>4 DEF ExportValid, Deliver, ExportRecord, DumpPos
    <3>8. mgr_status = "non_empty"
      BY <2>4 DEF ExportValid
    <3>9. /\ reader_queue' \in Seq(Readers)
          /\ SortedReaders(reader_queue')
          /\ \A i \in 1..Len(reader_queue') : reader_queue'[i].status # "END_OF_DUMP"
          /\ mgr_status' \in {"empty", "non_empty"}
          /\ mgr_status' = "non_empty" <=> reader_queue' # <<>>
      <4>1. CASE next.status = "END_OF_DUMP"
        <5>1. /\ reader_queue' = Tail(reader_queue)
              /\ mgr_status' = IF Tail(reader_queue) = <<>> THEN "empty" ELSE mgr_status
          BY <2>4, <4>1 DEF ExportValid, PopHead
        <5> QED
          BY <3>2, <3>6, <3>8, <5>1
      <4>2. CASE next.status # "END_OF_DUMP" /\ next.record_time # head.record_time
        <5> DEFINE q == SortedInsert(Tail(reader_queue), next)
        <5>1. reader_queue' = q /\ mgr_status' = mgr_status
          BY <2>4, <4>2 DEF ExportValid, ExportRecord
        <5>2. /\ q \in Seq(Readers)
              /\ Len(q) = Len(Tail(reader_queue)) + 1
              /\ SortedReaders(q)
              /\ \A k \in 1..(Len(Tail(reader_queue)) + 1) :
                   \/ q[k] = next
                   \/ \E j \in 1..Len(Tail(reader_queue)) : q[k] = Tail(reader_queue)[j]
          BY <3>2, <3>5, SortedInsertProperties
        <5> HIDE DEF q, next
        <5>3. q # <<>>
          BY <3>2, <3>3, <5>2
        <5> QED
          BY <3>6, <3>8, <4>2, <5>1, <5>2, <5>3
      <4>3. CASE next.status # "END_OF_DUMP" /\ next.record_time = head.record_time
        <5> DEFINE q == <<next>> \o Tail(reader_queue)
        <5>1. reader_queue' = q /\ mgr_status' = mgr_status
          BY <2>4, <4>3 DEF ExportValid, ExportRecord
        <5>2. /\ q \in Seq(Readers)
              /\ Len(q) = Len(reader_queue)
              /\ SortedReaders(q)
              /\ \A k \in 1..Len(reader_queue) :
                   q[k] = IF k = 1 THEN next ELSE reader_queue[k]
          BY <2>0, <3>1, <3>2, <3>5, <4>3, SameTimeSamePlace
        <5> HIDE DEF q, next
        <5>3. q # <<>>
          BY <3>3, <5>2
        <5>4. \A k \in 1..Len(q) : q[k].status # "END_OF_DUMP"
          BY <1>2, <4>3, <5>2
        <5> QED
          BY <3>8, <5>1, <5>2, <5>3, <5>4
      <4> QED
        BY <4>1, <4>2, <4>3
    <3> QED
      BY <1>2, <3>7, <3>9
  <2>5. CASE ExportLast
    <3>1. reader_queue # <<>> /\ mgr_status = "non_empty"
      BY <1>2, <2>5 DEF ExportLast
    <3>2. /\ Head(reader_queue) \in Readers
          /\ Tail(reader_queue) \in Seq(Readers)
          /\ Len(Tail(reader_queue)) = Len(reader_queue) - 1
          /\ \A k \in 1..Len(Tail(reader_queue)) :
               Tail(reader_queue)[k] = reader_queue[k + 1]
          /\ SortedReaders(Tail(reader_queue))
      BY <2>0, <3>1, TailIsSorted
    <3>3. Len(reader_queue) \in Nat \ {0}
      BY <2>0, <3>1, EmptySeq
    <3>4. \A k \in 1..Len(Tail(reader_queue)) :
            Tail(reader_queue)[k].status # "END_OF_DUMP"
      BY <1>2, <3>2, <3>3
    <3>5. Head(reader_queue).input.source \in SourcesOf
      BY <3>2 DEF Readers, SourcesOf
    <3>6. /\ last_ts' \in [SourcesOf -> Nat \cup {-1}]
          /\ UNCHANGED <<dumps, adding, tmp_readers>>
      BY <1>2, <2>5, <3>5 DEF ExportLast, Deliver, ExportRecord
    <3>7. /\ reader_queue' = Tail(reader_queue)
          /\ mgr_status' = IF Tail(reader_queue) = <<>> THEN "empty" ELSE mgr_status
      BY <2>5 DEF ExportLast, PopHead
    <3> QED
      BY <1>2, <3>1, <3>2, <3>4, <3>6, <3>7
  <2>6. CASE ReaderMgrDestroy
    BY <1>2, <2>6 DEF ReaderMgrDestroy, BetweenCalls, SortedReaders
  <2>7. CASE RecordClear
    BY <1>2, <2>7 DEF RecordClear
  <2>8. CASE UNCHANGED reader_vars
    BY <1>2, <2>8 DEF reader_vars
  <2> QED
    BY <1>2, <2>1, <2>2, <2>3, <2>4, <2>5, <2>6, <2>7, <2>8 DEF ReaderMgrNext
<1> QED
  BY <1>1, <1>2

\* The queue of readers, the readers being added and the flag always have
\* their types.
THEOREM TypeCorrect == ReaderMgrSpec => []TypeOK
<1>1. IInv => TypeOK
  BY DEF IInv
<1> QED
  BY IInvInductive, <1>1, PTL DEF ReaderMgrSpec

\* The head of the queue is always a reader with the oldest entry, RIBs first,
\* whatever the dumps contain.
THEOREM Sorted == ReaderMgrSpec => []ReadersAreSorted
<1>1. IInv => ReadersAreSorted
  BY DEF IInv
<1> QED
  BY IInvInductive, <1>1, PTL DEF ReaderMgrSpec

\* export_record is never called on a reader at the end of its dump, so its
\* early return, which would hand out a stale record, is never taken.
THEOREM NoneFinished == ReaderMgrSpec => []NoFinishedReader
<1>1. IInv => NoFinishedReader
  BY DEF IInv
<1> QED
  BY IInvInductive, <1>1, PTL DEF ReaderMgrSpec

\* The flag that get_next_record and sorted_insert branch on agrees with the
\* list.
THEOREM StatusAgrees == ReaderMgrSpec => []StatusMatchesReaders
<1>1. IInv => StatusMatchesReaders
  BY DEF IInv
<1> QED
  BY IInvInductive, <1>1, PTL DEF ReaderMgrSpec

-----------------------------------------------------------------------------
(* What happens to the readers in the queue, whatever their places         *)

ReadersIn(q) == {q[i] : i \in 1..Len(q)}

\* No two readers are of one file.
OneReaderEach(q) == \A i, j \in 1..Len(q) : q[i].input = q[j].input => i = j

\* sorted_insert adds the reader and keeps the others.
LEMMA InsertAddsReader ==
  ASSUME NEW q \in Seq(Readers), SortedReaders(q), OneReaderEach(q),
         NEW r \in Readers, \A x \in ReadersIn(q) : x.input # r.input
  PROVE  /\ ReadersIn(SortedInsert(q, r)) = ReadersIn(q) \cup {r}
         /\ OneReaderEach(SortedInsert(q, r))
<1> DEFINE s == SortedInsert(q, r)
<1>0. Len(q) \in Nat
  BY LenProperties
<1>1. PICK p \in 1..(Len(q) + 1) :
        /\ s \in Seq(Readers)
        /\ Len(s) = Len(q) + 1
        /\ \A k \in 1..(Len(q) + 1) :
             s[k] = IF k < p THEN q[k] ELSE IF k = p THEN r ELSE q[k - 1]
  BY SortedInsertProperties
<1> HIDE DEF s
<1>2. p \in 1..(Len(q) + 1)
  BY <1>1
<1>3. /\ s \in Seq(Readers)
      /\ Len(s) = Len(q) + 1
      /\ \A k \in 1..(Len(q) + 1) :
           s[k] = IF k < p THEN q[k] ELSE IF k = p THEN r ELSE q[k - 1]
  BY <1>1
<1>4. ASSUME NEW k \in 1..(Len(q) + 1)
      PROVE  \/ k = p /\ s[k] = r
             \/ k < p /\ k \in 1..Len(q) /\ s[k] = q[k]
             \/ k > p /\ k - 1 \in 1..Len(q) /\ s[k] = q[k - 1]
  BY <1>0, <1>1, <1>3
<1>5. ASSUME NEW k \in 1..Len(q)
      PROVE  \/ k \in 1..(Len(q) + 1) /\ s[k] = q[k]
             \/ k + 1 \in 1..(Len(q) + 1) /\ s[k + 1] = q[k]
  BY <1>0, <1>1, <1>3
<1>6. ReadersIn(s) = ReadersIn(q) \cup {r}
  <2>1. \A x \in ReadersIn(s) : x \in ReadersIn(q) \cup {r}
    BY <1>3, <1>4 DEF ReadersIn
  <2>2. \A x \in ReadersIn(q) : x \in ReadersIn(s)
    <3>1. \A k \in 1..Len(q) : q[k] \in ReadersIn(s)
      BY <1>3, <1>5 DEF ReadersIn
    <3> QED
      BY <3>1 DEF ReadersIn
  <2>3. r \in ReadersIn(s)
    BY <1>1, <1>3 DEF ReadersIn
  <2> QED
    BY <2>1, <2>2, <2>3
<1>7. ASSUME NEW i \in 1..Len(s), NEW j \in 1..Len(s), s[i].input = s[j].input
      PROVE  i = j
  <2>1. i \in 1..(Len(q) + 1) /\ j \in 1..(Len(q) + 1) /\ p \in Nat
    BY <1>0, <1>1, <1>3
  <2>2. \A k \in 1..Len(q) : q[k].input # r.input
    BY DEF ReadersIn
  <2>3. \A k, l \in 1..Len(q) : q[k].input = q[l].input => k = l
    BY DEF OneReaderEach
  <2>4. \/ i = p /\ s[i] = r
        \/ i < p /\ i \in 1..Len(q) /\ s[i] = q[i]
        \/ i > p /\ i - 1 \in 1..Len(q) /\ s[i] = q[i - 1]
    BY <1>4, <2>1
  <2>5. \/ j = p /\ s[j] = r
        \/ j < p /\ j \in 1..Len(q) /\ s[j] = q[j]
        \/ j > p /\ j - 1 \in 1..Len(q) /\ s[j] = q[j - 1]
    BY <1>4, <2>1
  <2>6. CASE i = p
    BY <1>7, <2>1, <2>2, <2>4, <2>5, <2>6
  <2>7. CASE j = p
    BY <1>7, <2>1, <2>2, <2>4, <2>5, <2>7
  <2>8. ASSUME i # p, j # p
        PROVE  i = j
    <3>1. PICK k \in 1..Len(q) : s[i] = q[k] /\ (IF i < p THEN k = i ELSE k = i - 1)
      BY <2>1, <2>4, <2>8
    <3>2. PICK l \in 1..Len(q) : s[j] = q[l] /\ (IF j < p THEN l = j ELSE l = j - 1)
      BY <2>1, <2>5, <2>8
    <3>3. k = l
      BY <1>7, <2>3, <3>1, <3>2
    <3> QED
      BY <2>1, <2>8, <3>1, <3>2, <3>3
  <2> QED
    BY <2>6, <2>7, <2>8
<1> QED
  BY <1>6, <1>7 DEF OneReaderEach, s

\* Without its head the queue has the other readers, which are of other files.
LEMMA TailDropsHead ==
  ASSUME NEW q \in Seq(Readers), q # <<>>, OneReaderEach(q)
  PROVE  /\ ReadersIn(q) = ReadersIn(Tail(q)) \cup {q[1]}
         /\ \A x \in ReadersIn(Tail(q)) : x.input # q[1].input
         /\ OneReaderEach(Tail(q))
<1>0. Len(q) \in Nat \ {0}
  BY EmptySeq
<1>1. /\ Tail(q) \in Seq(Readers)
      /\ Len(Tail(q)) = Len(q) - 1
      /\ \A k \in 1..Len(Tail(q)) : Tail(q)[k] = q[k + 1]
  BY HeadTailProperties
<1>2. ASSUME NEW k \in 1..Len(q)
      PROVE  k = 1 \/ (k - 1 \in 1..Len(Tail(q)) /\ Tail(q)[k - 1] = q[k])
  <2>1. k # 1 => k - 1 \in 1..Len(Tail(q)) /\ (k - 1) + 1 = k
    BY <1>0, <1>1
  <2> QED
    BY <1>1, <2>1
<1>3. ASSUME NEW k \in 1..Len(Tail(q))
      PROVE  k + 1 \in 1..Len(q) /\ k + 1 # 1 /\ Tail(q)[k] = q[k + 1]
  BY <1>0, <1>1
<1>4. ReadersIn(q) = ReadersIn(Tail(q)) \cup {q[1]}
  <2>1. \A x \in ReadersIn(q) : x \in ReadersIn(Tail(q)) \cup {q[1]}
    BY <1>2 DEF ReadersIn
  <2>2. \A x \in ReadersIn(Tail(q)) : x \in ReadersIn(q)
    BY <1>3 DEF ReadersIn
  <2>3. q[1] \in ReadersIn(q)
    BY <1>0 DEF ReadersIn
  <2> QED
    BY <2>1, <2>2, <2>3
<1>5. 1 \in 1..Len(q)
  BY <1>0
<1>6. \A x \in ReadersIn(Tail(q)) : x.input # q[1].input
  BY <1>3, <1>5 DEF ReadersIn, OneReaderEach
<1>7. OneReaderEach(Tail(q))
  BY <1>0, <1>1, <1>3 DEF OneReaderEach
<1> QED
  BY <1>4, <1>6, <1>7

\* A head that keeps its place is replaced.
LEMMA ConsReplacesHead ==
  ASSUME NEW q \in Seq(Readers), q # <<>>, SortedReaders(q), OneReaderEach(q),
         NEW r \in Readers, r.input = q[1].input, r.record_time = q[1].record_time
  PROVE  /\ ReadersIn(<<r>> \o Tail(q)) = ReadersIn(Tail(q)) \cup {r}
         /\ OneReaderEach(<<r>> \o Tail(q))
<1> DEFINE s == <<r>> \o Tail(q)
<1>0. Len(q) \in Nat \ {0}
  BY EmptySeq
<1>1. /\ Len(s) = Len(q)
      /\ \A k \in 1..Len(q) : s[k] = IF k = 1 THEN r ELSE q[k]
  BY SameTimeSamePlace
<1>2. /\ Len(Tail(q)) = Len(q) - 1
      /\ \A k \in 1..Len(Tail(q)) : Tail(q)[k] = q[k + 1]
  BY HeadTailProperties
<1> HIDE DEF s
<1>3. ASSUME NEW k \in 1..Len(q)
      PROVE  \/ k = 1 /\ s[k] = r
             \/ k - 1 \in 1..Len(Tail(q)) /\ s[k] = Tail(q)[k - 1]
  <2>1. k # 1 => k - 1 \in 1..Len(Tail(q)) /\ (k - 1) + 1 = k
    BY <1>0, <1>2
  <2> QED
    BY <1>1, <1>2, <2>1
<1>4. ASSUME NEW k \in 1..Len(Tail(q))
      PROVE  k + 1 \in 1..Len(q) /\ s[k + 1] = Tail(q)[k]
  BY <1>0, <1>1, <1>2
<1>5. ReadersIn(s) = ReadersIn(Tail(q)) \cup {r}
  <2>1. \A x \in ReadersIn(s) : x \in ReadersIn(Tail(q)) \cup {r}
    <3>1. \A k \in 1..Len(s) : s[k] \in ReadersIn(Tail(q)) \cup {r}
      BY <1>1, <1>3 DEF ReadersIn
    <3> QED
      BY <3>1 DEF ReadersIn
  <2>2. \A x \in ReadersIn(Tail(q)) : x \in ReadersIn(s)
    BY <1>1, <1>4 DEF ReadersIn
  <2>3. r \in ReadersIn(s)
    BY <1>0, <1>1 DEF ReadersIn
  <2> QED
    BY <2>1, <2>2, <2>3
<1>6. \A k \in 1..Len(q) : s[k].input = q[k].input
  BY <1>1
<1>7. OneReaderEach(s)
  BY <1>1, <1>6 DEF OneReaderEach
<1> QED
  BY <1>5, <1>7 DEF s

-----------------------------------------------------------------------------
(* Where a reader stands in its dump                                       *)

\* The entries among the first n items of a dump.
Entries(in, n) == {i \in 1..n : IsEntry(dumps[in].items, i)}

\* A reader that has read up to pos, of a dump that opens, has counted the
\* entries and met nothing corrupted.
HasRead(r) ==
  /\ r.pos \in 0..Len(dumps[r.input].items)
  /\ r.successful_read = Cardinality(Entries(r.input, r.pos))
  /\ r.valid_read <= r.successful_read
  /\ \A j \in 1..r.pos : dumps[r.input].items[j].kind # "corrupted"

\* A reader of the queue holds the entry it stands at, which is one to deliver,
\* or none.
ReaderIsAt(r) ==
  IF r.status = "VALID_ENTRY"
  THEN /\ r.bd_entry = r.pos
       /\ r.pos \in Deliverable(r.input)
       /\ HasRead(r)
       /\ r.valid_read > 0
  ELSE r.bd_entry = 0

LEMMA EntriesAreFinite ==
  ASSUME NEW in, NEW n \in Int
  PROVE  IsFiniteSet(Entries(in, n)) /\ Cardinality(Entries(in, n)) \in Nat
<1>1. IsFiniteSet(1..n)
  <2>1. 1 \in Int
    OBVIOUS
  <2> QED
    BY <2>1, FS_Interval, Zenon
<1>2. Entries(in, n) \in SUBSET (1..n)
  BY DEF Entries
<1> QED
  BY <1>1, <1>2, FS_Subset, FS_CardinalityType, Zenon

\* read_new_data on a dump that opens stops at the next item that is corrupted
\* or matches, or at the end, and has counted the entries up to there.
LEMMA ReadOnStops ==
  ASSUME dumps \in Dumps, NEW r \in Readers, HasRead(r)
  PROVE  LET items == dumps[r.input].items
             next == ReadOn(r, items)
         IN  /\ items \in Seq(Items(Nat))
             /\ next.pos \in (r.pos + 1)..(Len(items) + 1)
             /\ \A j \in 1..Len(items) :
                  r.pos < j /\ j < next.pos => ~ Significant(items, j)
             /\ next.pos <= Len(items) => Significant(items, next.pos)
             /\ next.successful_read = Cardinality(Entries(r.input, next.pos))
             /\ Entries(r.input, r.pos) \subseteq Entries(r.input, next.pos)
<1> DEFINE items == dumps[r.input].items
           n == NextSignificant(items, r.pos)
           next == ReadOn(r, items)
           T == {i \in DOMAIN items : i > r.pos /\ Significant(items, i)}
           new == {i \in (r.pos + 1)..n : IsEntry(items, i)}
<1>1. items \in Seq(Items(Nat)) /\ r.input \in Files
  BY ReaderMgrAssumption DEF Readers
<1>2. Len(items) \in Nat /\ DOMAIN items = 1..Len(items) /\ r.pos \in Nat
  BY <1>1, LenProperties DEF Readers
<1>3. /\ n \in 1..(Len(items) + 1)
      /\ n <= Len(items) => n \in T
      /\ \A k \in 1..Len(items) : k < n => k \notin T
  <2>1. T \subseteq 1..Len(items) /\ n = Min(T \cup {Len(items) + 1})
    BY <1>2 DEF NextSignificant
  <2> HIDE DEF T, n
  <2> QED
    BY <1>2, <2>1, ScanStops
<1> HIDE DEF n
<1>4. next.pos = n /\ next.successful_read = r.successful_read + Cardinality(new)
  BY DEF ReadOn, n
<1>5. r.pos <= Len(items)
  BY DEF HasRead
<1>6. n \in (r.pos + 1)..(Len(items) + 1)
  BY <1>2, <1>3, <1>5
<1>7. \A j \in 1..Len(items) : r.pos < j /\ j < n => ~ Significant(items, j)
  BY <1>2, <1>3
<1>8. n <= Len(items) => Significant(items, n)
  BY <1>3
<1>9. /\ Entries(r.input, n) = Entries(r.input, r.pos) \cup new
      /\ Entries(r.input, r.pos) \cap new = {}
  BY <1>2, <1>6 DEF Entries
<1>10. Cardinality(Entries(r.input, n)) = r.successful_read + Cardinality(new)
  <2>1. /\ IsFiniteSet(Entries(r.input, n)) /\ IsFiniteSet(Entries(r.input, r.pos))
        /\ Cardinality(Entries(r.input, r.pos)) \in Nat
    BY <1>2, <1>6, EntriesAreFinite
  <2>2. new \in SUBSET Entries(r.input, n)
    BY <1>9
  <2>3. IsFiniteSet(new)
    BY <2>1, <2>2, FS_Subset, Zenon
  <2> HIDE DEF new
  <2>4. Cardinality(new) \in Nat
    BY <2>3, FS_CardinalityType
  <2>5. Cardinality(Entries(r.input, r.pos) \cup new)
          = Cardinality(Entries(r.input, r.pos)) + Cardinality(new)
              - Cardinality(Entries(r.input, r.pos) \cap new)
    BY <2>1, <2>3, FS_Union, Zenon
  <2>6. Cardinality(Entries(r.input, r.pos) \cap new) = 0
    BY <1>9, FS_EmptySet
  <2>7. r.successful_read = Cardinality(Entries(r.input, r.pos))
    BY DEF HasRead
  <2> QED
    BY <1>9, <2>1, <2>4, <2>5, <2>6, <2>7
<1> QED
  BY <1>1, <1>4, <1>6, <1>7, <1>8, <1>9, <1>10

\* The next read skips nothing that is to be delivered.
LEMMA ReadSkipsNothing ==
  ASSUME dumps \in Dumps, NEW r \in Readers, r.status = "VALID_ENTRY",
         dumps[r.input].opens => HasRead(r)
  PROVE  LET next == ReadNewData(r, dumps[r.input])
         IN  /\ ReaderIsAt(next)
             /\ \A e \in Deliverable(r.input) : e \in Nat
             /\ next.status = "VALID_ENTRY" =>
                  /\ next.bd_entry > r.pos
                  /\ \A e \in Deliverable(r.input) : e > r.pos => e >= next.bd_entry
             /\ next.status # "VALID_ENTRY" =>
                  \A e \in Deliverable(r.input) : e <= r.pos
<1> DEFINE items == dumps[r.input].items
           next == ReadOn(r, items)
           n == next.pos
<1>0. /\ items \in Seq(Items(Nat)) /\ r.pos \in Nat
      /\ r.valid_read \in Nat /\ r.input \in Files
  BY ReaderMgrAssumption DEF Readers
<1>1. Len(items) \in Nat /\ DOMAIN items = 1..Len(items)
  BY <1>0, LenProperties
<1>2. \A e \in Deliverable(r.input) : e \in Nat /\ dumps[r.input].opens
  BY <1>1 DEF Deliverable
<1>3. CASE ~ dumps[r.input].opens
  <2>1. ReadNewData(r, dumps[r.input]) = CantOpen(r)
    BY <1>3 DEF ReadNewData
  <2>2. /\ CantOpen(r).status = "CANT_OPEN_DUMP" /\ CantOpen(r).bd_entry = 0
    BY DEF CantOpen, Readers
  <2> QED
    BY <1>2, <1>3, <2>1, <2>2 DEF ReaderIsAt
<1>4. CASE dumps[r.input].opens
  <2>0. ReadNewData(r, dumps[r.input]) = next
    BY <1>4 DEF ReadNewData
  <2>1. /\ n \in (r.pos + 1)..(Len(items) + 1)
        /\ \A j \in 1..Len(items) : r.pos < j /\ j < n => ~ Significant(items, j)
        /\ n <= Len(items) => Significant(items, n)
        /\ next.successful_read = Cardinality(Entries(r.input, n))
        /\ Entries(r.input, r.pos) \subseteq Entries(r.input, n)
    BY <1>4, ReadOnStops
  <2>2. /\ next.input = r.input
        /\ next.valid_read = r.valid_read + (IF IsEntry(items, n) THEN 1 ELSE 0)
        /\ next.status = "VALID_ENTRY" <=> IsEntry(items, n)
        /\ next.bd_entry = IF IsEntry(items, n) THEN n ELSE 0
    BY DEF ReadOn, EndStatus
  <2>3. /\ \A j \in 1..r.pos : items[j].kind # "corrupted"
        /\ r.pos <= Len(items)
        /\ r.valid_read <= Cardinality(Entries(r.input, r.pos))
    BY <1>4 DEF HasRead
  <2> HIDE DEF n, next, items
  <2>4. ASSUME NEW e \in Deliverable(r.input)
        PROVE  /\ e \in 1..Len(items)
               /\ Significant(items, e)
               /\ \A j \in 1..e : items[j].kind # "corrupted"
    BY <1>1 DEF Deliverable, IsEntry, Significant, items
  <2>5. ASSUME NEW e \in Deliverable(r.input), e > r.pos
        PROVE  e >= n /\ n \in 1..Len(items) /\ items[n].kind # "corrupted"
    <3>1. e \in 1..Len(items) /\ ~ (r.pos < e /\ e < n)
      BY <2>1, <2>4
    <3>2. e >= n /\ n \in 1..e
      BY <1>0, <1>1, <2>1, <2>5, <3>1
    <3> QED
      BY <1>0, <1>1, <2>1, <2>4, <3>1, <3>2
  <2>6. CASE IsEntry(items, n)
    <3>1. n \in 1..Len(items) /\ items[n].kind = "entry" /\ FilterBdEntry(items[n].time)
      BY <1>0, <1>1, <2>1, <2>6 DEF IsEntry, Significant
    <3>2. \A j \in 1..n : items[j].kind # "corrupted"
      <4> TAKE j \in 1..n
      <4>1. j \in 1..r.pos \/ (j \in 1..Len(items) /\ r.pos < j /\ j < n) \/ j = n
        BY <1>0, <1>1, <2>1, <3>1
      <4> QED
        BY <2>1, <2>3, <3>1, <4>1 DEF Significant
    <3>3. n \in Deliverable(r.input)
      BY <1>1, <1>4, <2>6, <3>1, <3>2 DEF Deliverable, items
    <3>4. next.valid_read <= next.successful_read /\ next.valid_read > 0
      <4>1. n \in Entries(r.input, n) /\ n \notin Entries(r.input, r.pos)
        BY <1>0, <1>1, <2>1, <2>6, <3>1 DEF Entries, items
      <4>2. /\ IsFiniteSet(Entries(r.input, n)) /\ IsFiniteSet(Entries(r.input, r.pos))
            /\ Cardinality(Entries(r.input, n)) \in Nat
            /\ Cardinality(Entries(r.input, r.pos)) \in Nat
        BY <1>0, <1>1, <2>1, EntriesAreFinite
      <4>3. Cardinality(Entries(r.input, r.pos)) # Cardinality(Entries(r.input, n))
        BY <2>1, <4>1, <4>2, FS_Subset
      <4>4. Cardinality(Entries(r.input, r.pos)) <= Cardinality(Entries(r.input, n))
        BY <2>1, <4>2, FS_Subset
      <4> QED
        BY <1>0, <2>1, <2>2, <2>3, <2>6, <4>2, <4>3, <4>4
    <3>5. HasRead(next)
      BY <1>0, <1>1, <2>1, <2>2, <3>1, <3>2, <3>4 DEF HasRead, items, n
    <3>6. ReaderIsAt(next)
      BY <2>2, <2>6, <3>3, <3>4, <3>5 DEF ReaderIsAt, n
    <3>7. next.bd_entry > r.pos /\ next.status = "VALID_ENTRY"
      BY <1>0, <1>1, <2>1, <2>2, <2>6
    <3> QED
      BY <1>2, <2>0, <2>2, <2>5, <2>6, <3>6, <3>7
  <2>7. CASE ~ IsEntry(items, n)
    <3>1. ReaderIsAt(next) /\ next.status # "VALID_ENTRY"
      BY <2>2, <2>7 DEF ReaderIsAt
    <3>2. ASSUME NEW e \in Deliverable(r.input), e > r.pos
          PROVE  FALSE
      <4>1. n \in 1..Len(items) /\ items[n].kind # "corrupted"
        BY <2>5, <3>2
      <4>2. Significant(items, n)
        BY <1>1, <2>1, <4>1
      <4> QED
        BY <1>1, <2>7, <4>1, <4>2 DEF Significant, IsEntry
    <3>3. \A e \in Deliverable(r.input) : e <= r.pos
      BY <1>0, <1>2, <3>2
    <3> QED
      BY <1>2, <2>0, <3>1, <3>3
  <2> QED
    BY <2>6, <2>7
<1> QED
  BY <1>3, <1>4

\* The read behind an entry ends the dump without dropping another one exactly
\* if nothing but unparsed items follow.
LEMMA EndIsSeen ==
  ASSUME dumps \in Dumps, NEW r \in Readers, r.status = "VALID_ENTRY", ReaderIsAt(r)
  PROVE  LET items == dumps[r.input].items
             next == ReadNewData(r, dumps[r.input])
         IN  (/\ next.status = "END_OF_DUMP"
              /\ next.successful_read - next.valid_read
                   = r.successful_read - r.valid_read)
             <=> (\A j \in DOMAIN items : j > r.pos => items[j].kind = "unparsed")
<1> DEFINE items == dumps[r.input].items
           next == ReadOn(r, items)
           n == next.pos
           last == \A j \in DOMAIN items : j > r.pos => items[j].kind = "unparsed"
<1>0. /\ items \in Seq(Items(Nat)) /\ r.pos \in Nat
      /\ r.valid_read \in Nat /\ r.input \in Files
  BY ReaderMgrAssumption DEF Readers
<1>1. Len(items) \in Nat /\ DOMAIN items = 1..Len(items)
  BY <1>0, LenProperties
<1>2. /\ dumps[r.input].opens /\ HasRead(r) /\ r.valid_read > 0
      /\ r.successful_read = Cardinality(Entries(r.input, r.pos))
      /\ r.valid_read <= r.successful_read
  BY DEF ReaderIsAt, HasRead, Deliverable
<1>3. ReadNewData(r, dumps[r.input]) = next
  BY <1>2 DEF ReadNewData
<1>4. /\ n \in (r.pos + 1)..(Len(items) + 1)
      /\ \A j \in 1..Len(items) : r.pos < j /\ j < n => ~ Significant(items, j)
      /\ n <= Len(items) => Significant(items, n)
      /\ next.successful_read = Cardinality(Entries(r.input, n))
      /\ Entries(r.input, r.pos) \subseteq Entries(r.input, n)
  BY <1>2, ReadOnStops
<1>5. /\ next.valid_read = r.valid_read + (IF IsEntry(items, n) THEN 1 ELSE 0)
      /\ next.status = IF IsEntry(items, n) THEN "VALID_ENTRY"
                       ELSE IF n \in DOMAIN items THEN "CORRUPTED_DUMP"
                       ELSE IF next.successful_read = 0 THEN "EMPTY_DUMP"
                       ELSE IF next.valid_read = 0 THEN "FILTERED_DUMP"
                       ELSE "END_OF_DUMP"
  BY DEF ReadOn, EndStatus
<1>6. /\ IsFiniteSet(Entries(r.input, n))
      /\ Cardinality(Entries(r.input, n)) \in Nat
      /\ Cardinality(Entries(r.input, r.pos)) \in Nat
  BY <1>0, <1>1, <1>4, EntriesAreFinite
<1>7. \A j \in 1..Len(items) :
        \/ items[j].kind = "entry" /\ j \in Entries(r.input, j)
        \/ items[j].kind = "unparsed"
        \/ items[j].kind = "corrupted"
  BY <1>0, <1>1 DEF Items, Entries, IsEntry
<1> HIDE DEF next, n
<1>8. ASSUME last
      PROVE  /\ next.status = "END_OF_DUMP"
             /\ next.successful_read - next.valid_read
                  = r.successful_read - r.valid_read
  <2>1. n = Len(items) + 1
    <3>1. SUFFICES ASSUME n <= Len(items) PROVE FALSE
      BY <1>0, <1>1, <1>4
    <3>2. n \in DOMAIN items /\ n > r.pos
      BY <1>0, <1>1, <1>4, <3>1
    <3> QED
      BY <1>4, <1>8, <3>1, <3>2 DEF Significant
  <2>2. ~ IsEntry(items, n) /\ n \notin DOMAIN items
    BY <1>1, <2>1 DEF IsEntry
  <2>3. Entries(r.input, n) = Entries(r.input, r.pos)
    <3>1. ASSUME NEW j \in Entries(r.input, n) PROVE j \in Entries(r.input, r.pos)
      <4>1. j \in DOMAIN items /\ items[j].kind = "entry" /\ j \in 1..n
        BY <3>1 DEF Entries, IsEntry
      <4>2. j \in 1..r.pos
        BY <1>0, <1>1, <1>8, <2>1, <4>1
      <4> QED
        BY <4>1, <4>2 DEF Entries, IsEntry
    <3> QED
      BY <1>4, <3>1
  <2> QED
    BY <1>0, <1>2, <1>4, <1>5, <1>6, <2>2, <2>3
<1>9. ASSUME next.status = "END_OF_DUMP",
             next.successful_read - next.valid_read
               = r.successful_read - r.valid_read
      PROVE  last
  <2>1. ~ IsEntry(items, n) /\ n = Len(items) + 1
    <3>1. ~ IsEntry(items, n) /\ n \notin 1..Len(items)
      BY <1>1, <1>5, <1>9
    <3> QED
      BY <1>0, <1>1, <1>4, <3>1
  <2>2. Cardinality(Entries(r.input, n)) = Cardinality(Entries(r.input, r.pos))
    BY <1>0, <1>2, <1>4, <1>5, <1>6, <1>9, <2>1
  <2>3. Entries(r.input, n) = Entries(r.input, r.pos)
    BY <1>4, <1>6, <2>2, FS_Subset
  <2>4. ASSUME NEW j \in DOMAIN items, j > r.pos
        PROVE  items[j].kind = "unparsed"
    <3>1. j \in 1..Len(items) /\ r.pos < j /\ j < n /\ j \in 1..n
      BY <1>0, <1>1, <2>1, <2>4
    <3>2. ~ Significant(items, j)
      BY <1>4, <3>1
    <3>3. items[j].kind # "entry"
      <4>1. j \notin Entries(r.input, r.pos)
        BY <1>0, <3>1 DEF Entries
      <4> QED
        BY <1>1, <2>3, <3>1, <4>1 DEF Entries, IsEntry
    <3> QED
      BY <1>7, <3>1, <3>2, <3>3 DEF Significant
  <2> QED
    BY <2>4
<1> QED
  BY <1>3, <1>8, <1>9

\* An entry counts as the first exactly if it is.
LEMMA FirstIsSeen ==
  ASSUME dumps \in Dumps, NEW r \in Readers, r.status = "VALID_ENTRY", ReaderIsAt(r)
  PROVE  DumpPos(r) = IF \A j \in 1..(r.pos - 1) : ~ IsEntry(dumps[r.input].items, j)
                      THEN "START" ELSE "MIDDLE"
<1> DEFINE items == dumps[r.input].items
           before == Entries(r.input, r.pos - 1)
<1>0. r.pos \in Nat /\ r.valid_read \in Nat
  BY DEF Readers
<1>1. /\ IsEntry(items, r.pos) /\ r.pos \in 1..r.pos
      /\ r.successful_read = Cardinality(Entries(r.input, r.pos))
      /\ r.valid_read \in 1..r.successful_read
  <2>1. items \in Seq(Items(Nat)) /\ r.pos \in DOMAIN items /\ IsEntry(items, r.pos)
    BY ReaderMgrAssumption DEF ReaderIsAt, Deliverable, Readers
  <2>2. r.pos > 0
    BY <2>1, LenProperties
  <2>3. Cardinality(Entries(r.input, r.pos)) \in Nat
    BY <1>0, EntriesAreFinite
  <2> QED
    BY <1>0, <2>1, <2>2, <2>3 DEF ReaderIsAt, HasRead
<1>2. /\ Entries(r.input, r.pos) = before \cup {r.pos}
      /\ r.pos \notin before
  BY <1>0, <1>1 DEF Entries
<1>3. IsFiniteSet(before) /\ Cardinality(before) \in Nat
  BY <1>0, EntriesAreFinite
<1>4. r.successful_read = Cardinality(before) + 1
  <2> HIDE DEF before
  <2> QED
    BY <1>1, <1>2, <1>3, FS_AddElement
<1>5. Cardinality(before) = 0 <=> before = {}
  BY <1>3, FS_EmptySet
<1>6. before = {} <=> \A j \in 1..(r.pos - 1) : ~ IsEntry(items, j)
  BY DEF Entries
<1> HIDE DEF before
<1>7. r.valid_read = 1 /\ r.successful_read = 1 <=> before = {}
  BY <1>0, <1>1, <1>3, <1>4, <1>5
<1> QED
  BY <1>6, <1>7 DEF DumpPos

-----------------------------------------------------------------------------
(* Each file is in one place                                               *)

ExportedRecords ==
  [input : Files, record_time : Nat, bd_entry : Nat,
   status : {"VALID_RECORD", "FILTERED_SOURCE", "EMPTY_SOURCE", "CORRUPTED_SOURCE",
             "CORRUPTED_RECORD"},
   dump_pos : {"START", "MIDDLE", "END"}]

InputsOf(q) == {r.input : r \in ReadersIn(q)}

\* A file that was handed over waits for its reader, has a reader that waits
\* for its first entry, or has one in the queue, and exports nothing before.
Places ==
  /\ exported \in [Files -> Seq(ExportedRecords)]
  /\ \A i, j \in 1..Len(adding) : adding[i] = adding[j] => i = j
  /\ OneReaderEach(tmp_readers) /\ OneReaderEach(reader_queue)
  /\ \A r \in ReadersIn(tmp_readers) : r = ReaderCreate(r.input)
  /\ \A r \in ReadersIn(tmp_readers) : r.input \notin Range(adding)
  /\ \A r \in ReadersIn(reader_queue) :
       r.input \notin Range(adding) \cup InputsOf(tmp_readers)
  /\ Range(adding) \cup InputsOf(tmp_readers) \cup InputsOf(reader_queue) \subseteq offered
  /\ offered \subseteq Files
  /\ \A in \in Files : exported[in] # <<>> =>
       in \in offered \ (Range(adding) \cup InputsOf(tmp_readers))

\* The export of the head: what becomes of the queue and of the record.
LEMMA ExportEffect ==
  ASSUME IInv, Places, ExportValid \/ ExportLast
  PROVE  LET head == reader_queue[1]
             next == ReadNewData(head, dumps[head.input])
             rest == ReadersIn(Tail(reader_queue))
             discarded(r) == r.successful_read - r.valid_read
         IN  /\ head \in Readers
             /\ ReadersIn(reader_queue) = rest \cup {head}
             /\ \A x \in rest : x.input # head.input
             /\ record = NoRecord
             /\ mgr_status = "non_empty" /\ mgr_status' # "destroyed"
             /\ record' \in ExportedRecords
             /\ record'.input = head.input
             /\ record'.bd_entry = head.bd_entry
             /\ record'.status = RecordStatus[head.status]
             /\ exported' = [exported EXCEPT ![head.input] = Append(@, record')]
             /\ UNCHANGED <<dumps, adding, tmp_readers, offered>>
             /\ last_ts' = IF rib_period # 0 /\ ResetsPeriod(record')
                           THEN [last_ts EXCEPT ![head.input.source] = 0] ELSE last_ts
             /\ OneReaderEach(reader_queue')
             /\ \/ /\ head.status = "VALID_ENTRY"
                   /\ next \in Readers /\ next.input = head.input
                   /\ heap' = heap \cup Held(next)
                   /\ ReadersIn(reader_queue') =
                        IF next.status = "END_OF_DUMP" THEN rest ELSE rest \cup {next}
                   /\ record'.dump_pos =
                        IF next.status = "END_OF_DUMP" /\ discarded(next) = discarded(head)
                        THEN "END" ELSE DumpPos(head)
                \/ /\ head.status # "VALID_ENTRY"
                   /\ heap' = heap
                   /\ ReadersIn(reader_queue') = rest
                   /\ record'.dump_pos = "END"
<1> DEFINE head == reader_queue[1]
           next == ReadNewData(head, dumps[head.input])
           rest == ReadersIn(Tail(reader_queue))
           discarded(r) == r.successful_read - r.valid_read
<1>0. /\ reader_queue \in Seq(Readers) /\ SortedReaders(reader_queue)
      /\ OneReaderEach(reader_queue) /\ dumps \in Dumps
  BY DEF IInv, TypeOK, ReadersAreSorted, Places
<1>1. /\ record = NoRecord /\ mgr_status = "non_empty" /\ reader_queue # <<>>
      /\ UNCHANGED <<dumps, adding, tmp_readers, offered>>
  BY DEF IInv, StatusMatchesReaders, ExportValid, ExportLast, Deliver
<1>2. /\ head \in Readers /\ Head(reader_queue) = head
      /\ Tail(reader_queue) \in Seq(Readers) /\ SortedReaders(Tail(reader_queue))
  BY <1>0, <1>1, TailIsSorted
<1>3. /\ ReadersIn(reader_queue) = rest \cup {head}
      /\ \A x \in rest : x.input # head.input
      /\ OneReaderEach(Tail(reader_queue))
  BY <1>0, <1>1, TailDropsHead
<1>4. head.input \in Files /\ head.status # "END_OF_DUMP" /\ head.bd_entry \in Nat
      /\ head.record_time \in Nat
  <2>1. 1 \in 1..Len(reader_queue)
    BY <1>0, <1>1, EmptySeq
  <2> QED
    BY <1>2, <2>1 DEF Readers, IInv, NoFinishedReader
<1>5. next \in Readers /\ next.input = head.input
  <2>1. dumps[head.input].opens => dumps[head.input].items \in Seq(Items(Nat))
    BY <1>0, <1>4, ReaderMgrAssumption
  <2> QED
    BY <1>2, <2>1, ReadNewDataProperties
<1>6. /\ ExportRecord(head) \in ExportedRecords
      /\ ExportRecord(head).input = head.input
      /\ ExportRecord(head).record_time = head.record_time
      /\ ExportRecord(head).bd_entry = head.bd_entry
      /\ ExportRecord(head).status = RecordStatus[head.status]
      /\ ExportRecord(head).dump_pos = DumpPos(head)
  <2>1. RecordStatus[head.status] \in
          {"VALID_RECORD", "FILTERED_SOURCE", "EMPTY_SOURCE", "CORRUPTED_SOURCE",
           "CORRUPTED_RECORD"}
    BY <1>2, <1>4 DEF Readers, RecordStatus
  <2>2. DumpPos(head) \in {"START", "MIDDLE", "END"}
    BY DEF DumpPos
  <2> QED
    BY <1>4, <2>1, <2>2 DEF ExportRecord, ExportedRecords
<1> HIDE DEF next, rest, head
<1>7. CASE ExportValid
  <2>1. /\ head.status = "VALID_ENTRY" /\ heap' = heap \cup Held(next)
    BY <1>2, <1>7 DEF ExportValid, next
  <2>2. CASE next.status = "END_OF_DUMP"
    <3>1. /\ Deliver(IF discarded(next) = discarded(head)
                     THEN [ExportRecord(head) EXCEPT !.dump_pos = "END"]
                     ELSE ExportRecord(head))
          /\ PopHead
      BY <1>2, <1>7, <2>2 DEF ExportValid, next
    <3>2. /\ record' \in ExportedRecords
          /\ record'.input = head.input
          /\ record'.bd_entry = head.bd_entry
          /\ record'.status = RecordStatus[head.status]
          /\ record'.dump_pos = IF discarded(next) = discarded(head)
                                THEN "END" ELSE DumpPos(head)
      BY <1>6, <3>1 DEF Deliver, ExportedRecords
    <3>3. /\ exported' = [exported EXCEPT ![head.input] = Append(@, record')]
          /\ last_ts' = IF rib_period # 0 /\ ResetsPeriod(record')
                        THEN [last_ts EXCEPT ![head.input.source] = 0] ELSE last_ts
      BY <3>1, <3>2 DEF Deliver
    <3>4. reader_queue' = Tail(reader_queue) /\ mgr_status' # "destroyed"
      BY <1>1, <3>1 DEF PopHead
    <3> QED
      BY <1>1, <1>2, <1>3, <1>5, <2>1, <2>2, <3>2, <3>3, <3>4 DEF head, next, rest
  <2>3. CASE next.status # "END_OF_DUMP"
    <3>1. /\ Deliver(ExportRecord(head))
          /\ mgr_status' = mgr_status
          /\ reader_queue' = IF next.record_time # head.record_time
                             THEN SortedInsert(Tail(reader_queue), next)
                             ELSE <<next>> \o Tail(reader_queue)
      BY <1>2, <1>6, <1>7, <2>3 DEF ExportValid, next
    <3>2. /\ record' = ExportRecord(head)
          /\ exported' = [exported EXCEPT ![head.input] = Append(@, record')]
          /\ last_ts' = IF rib_period # 0 /\ ResetsPeriod(record')
                        THEN [last_ts EXCEPT ![head.input.source] = 0] ELSE last_ts
      BY <1>6, <3>1 DEF Deliver
    <3>3. /\ ReadersIn(reader_queue') = rest \cup {next}
          /\ OneReaderEach(reader_queue')
      <4>1. CASE next.record_time # head.record_time
        BY <1>2, <1>3, <1>5, <3>1, <4>1, InsertAddsReader DEF rest
      <4>2. CASE next.record_time = head.record_time
        BY <1>0, <1>1, <1>5, <3>1, <4>2, ConsReplacesHead DEF rest, head
      <4> QED
        BY <4>1, <4>2
    <3> QED
      BY <1>1, <1>2, <1>3, <1>5, <1>6, <2>1, <2>3, <3>1, <3>2, <3>3 DEF head, next, rest
  <2> QED
    BY <2>2, <2>3
<1>8. CASE ExportLast
  <2>1. /\ head.status # "VALID_ENTRY" /\ heap' = heap
        /\ Deliver([ExportRecord(head) EXCEPT !.dump_pos = "END"])
        /\ PopHead
    BY <1>2, <1>8 DEF ExportLast
  <2>2. /\ record' \in ExportedRecords
        /\ record'.input = head.input
        /\ record'.bd_entry = head.bd_entry
        /\ record'.status = RecordStatus[head.status]
        /\ record'.dump_pos = "END"
    BY <1>6, <2>1 DEF Deliver, ExportedRecords
  <2>3. /\ exported' = [exported EXCEPT ![head.input] = Append(@, record')]
        /\ last_ts' = IF rib_period # 0 /\ ResetsPeriod(record')
                      THEN [last_ts EXCEPT ![head.input.source] = 0] ELSE last_ts
    BY <2>1, <2>2 DEF Deliver
  <2>4. reader_queue' = Tail(reader_queue) /\ mgr_status' # "destroyed"
    BY <1>1, <2>1 DEF PopHead
  <2> QED
    BY <1>1, <1>2, <1>3, <2>1, <2>2, <2>3, <2>4 DEF head, next, rest
<1> QED
  BY <1>7, <1>8

\* A reader appended to those being added joins them.
LEMMA AppendAddsReader ==
  ASSUME NEW q \in Seq(Readers), OneReaderEach(q),
         NEW r \in Readers, \A x \in ReadersIn(q) : x.input # r.input
  PROVE  /\ ReadersIn(Append(q, r)) = ReadersIn(q) \cup {r}
         /\ OneReaderEach(Append(q, r))
<1> DEFINE s == Append(q, r)
<1>0. Len(q) \in Nat
  BY LenProperties
<1>1. /\ Len(s) = Len(q) + 1
      /\ \A k \in 1..Len(q) : s[k] = q[k]
      /\ s[Len(q) + 1] = r
  BY AppendProperties
<1> HIDE DEF s
<1>2. \A k \in 1..Len(s) : k = Len(q) + 1 \/ k \in 1..Len(q)
  BY <1>0, <1>1
<1>3. \A k \in 1..Len(q) : k \in 1..Len(s)
  BY <1>0, <1>1
<1>4. ReadersIn(s) = ReadersIn(q) \cup {r}
  <2>1. \A k \in 1..Len(s) : s[k] \in ReadersIn(q) \cup {r}
    BY <1>1, <1>2 DEF ReadersIn
  <2>2. \A k \in 1..Len(q) : q[k] \in ReadersIn(s)
    BY <1>1, <1>3 DEF ReadersIn
  <2>3. r \in ReadersIn(s)
    BY <1>0, <1>1 DEF ReadersIn
  <2>4. \A x \in ReadersIn(s) : x \in ReadersIn(q) \cup {r}
    BY <2>1 DEF ReadersIn
  <2>5. \A x \in ReadersIn(q) : x \in ReadersIn(s)
    BY <2>2 DEF ReadersIn
  <2> QED
    BY <2>3, <2>4, <2>5
<1>5. \A k \in 1..Len(q) : q[k].input # r.input
  BY DEF ReadersIn
<1>6. OneReaderEach(s)
  BY <1>1, <1>2, <1>5 DEF OneReaderEach
<1> QED
  BY <1>4, <1>6 DEF s

\* Without its head a batch has its other files.
LEMMA TailDropsInput ==
  ASSUME NEW q \in Seq(Files), q # <<>>,
         \A i, j \in 1..Len(q) : q[i] = q[j] => i = j
  PROVE  /\ Head(q) \in Files
         /\ Range(q) = Range(Tail(q)) \cup {Head(q)}
         /\ Head(q) \notin Range(Tail(q))
         /\ \A i, j \in 1..Len(Tail(q)) : Tail(q)[i] = Tail(q)[j] => i = j
<1>0. Len(q) \in Nat \ {0} /\ DOMAIN q = 1..Len(q)
  BY EmptySeq
<1>1. /\ Head(q) \in Files /\ Head(q) = q[1]
      /\ Tail(q) \in Seq(Files)
      /\ Len(Tail(q)) = Len(q) - 1
      /\ \A k \in 1..Len(Tail(q)) : Tail(q)[k] = q[k + 1]
  BY HeadTailProperties
<1>2. DOMAIN Tail(q) = 1..Len(Tail(q))
  BY <1>1, LenProperties
<1>3. ASSUME NEW k \in 1..Len(q)
      PROVE  k = 1 \/ (k - 1 \in 1..Len(Tail(q)) /\ Tail(q)[k - 1] = q[k])
  <2>1. k # 1 => k - 1 \in 1..Len(Tail(q)) /\ (k - 1) + 1 = k
    BY <1>0, <1>1
  <2> QED
    BY <1>1, <2>1
<1>4. ASSUME NEW k \in 1..Len(Tail(q))
      PROVE  k + 1 \in 1..Len(q) /\ k + 1 # 1 /\ Tail(q)[k] = q[k + 1]
  BY <1>0, <1>1
<1>5. 1 \in 1..Len(q)
  BY <1>0
<1>6. Range(q) = Range(Tail(q)) \cup {Head(q)}
  <2>1. \A k \in 1..Len(q) : q[k] \in Range(Tail(q)) \cup {Head(q)}
    BY <1>1, <1>2, <1>3 DEF Range
  <2>2. \A k \in 1..Len(Tail(q)) : Tail(q)[k] \in Range(q)
    BY <1>0, <1>4 DEF Range
  <2>3. Head(q) \in Range(q)
    BY <1>0, <1>1, <1>5 DEF Range
  <2>4. \A x \in Range(q) : x \in Range(Tail(q)) \cup {Head(q)}
    BY <1>0, <2>1 DEF Range
  <2>5. \A x \in Range(Tail(q)) : x \in Range(q)
    BY <1>2, <2>2 DEF Range
  <2> QED
    BY <2>3, <2>4, <2>5
<1>7. Head(q) \notin Range(Tail(q))
  <2>1. \A k \in 1..Len(Tail(q)) : Tail(q)[k] # Head(q)
    BY <1>1, <1>4, <1>5
  <2> QED
    BY <1>2, <2>1 DEF Range
<1>8. \A i, j \in 1..Len(Tail(q)) : Tail(q)[i] = Tail(q)[j] => i = j
  BY <1>0, <1>1, <1>4
<1> QED
  BY <1>1, <1>6, <1>7, <1>8

\* A round of the first loop: the file leaves the batch, and its reader is
\* created if the file passes the check.
LEMMA CreateEffect ==
  ASSUME IInv, Places, CreateNext
  PROVE  LET in == Head(adding)
         IN  /\ in \in Files /\ in \in offered
             /\ exported[in] = <<>>
             /\ \A x \in ReadersIn(reader_queue) : x.input # in
             /\ Range(adding) = Range(adding') \cup {in}
             /\ in \notin Range(adding')
             /\ \A i, j \in 1..Len(adding') : adding'[i] = adding'[j] => i = j
             /\ ReadersIn(tmp_readers') =
                  ReadersIn(tmp_readers)
                    \cup (IF PeriodCheck(in) THEN {ReaderCreate(in)} ELSE {})
             /\ OneReaderEach(tmp_readers')
             /\ last_ts' = LastTsAfter(in)
             /\ mgr_status # "destroyed"
             /\ UNCHANGED <<dumps, reader_queue, mgr_status, record, heap, exported, offered>>
<1> DEFINE in == Head(adding)
<1>0. /\ adding \in Seq(Files) /\ tmp_readers \in Seq(Readers)
      /\ adding # <<>> /\ mgr_status # "destroyed"
      /\ \A i, j \in 1..Len(adding) : adding[i] = adding[j] => i = j
      /\ OneReaderEach(tmp_readers)
      /\ \A x \in ReadersIn(tmp_readers) : x.input \notin Range(adding)
  BY DEF IInv, TypeOK, Places, CreateNext
<1>1. /\ adding' = Tail(adding)
      /\ tmp_readers' = IF PeriodCheck(in) THEN Append(tmp_readers, ReaderCreate(in))
                        ELSE tmp_readers
      /\ last_ts' = LastTsAfter(in)
      /\ UNCHANGED <<dumps, reader_queue, mgr_status, record, heap, exported, offered>>
  BY DEF CreateNext
<1>2. /\ in \in Files
      /\ Range(adding) = Range(adding') \cup {in}
      /\ in \notin Range(adding')
      /\ \A i, j \in 1..Len(adding') : adding'[i] = adding'[j] => i = j
  <2>1. PICK q \in Seq(Files) : q = adding
    BY <1>0
  <2>2. q # <<>> /\ \A i, j \in 1..Len(q) : q[i] = q[j] => i = j
    BY <1>0, <2>1
  <2>3. /\ Head(q) \in Files
        /\ Range(q) = Range(Tail(q)) \cup {Head(q)}
        /\ Head(q) \notin Range(Tail(q))
        /\ \A i, j \in 1..Len(Tail(q)) : Tail(q)[i] = Tail(q)[j] => i = j
    BY <2>2, TailDropsInput
  <2> QED
    BY <1>1, <2>1, <2>3
<1>3. /\ in \in offered /\ exported[in] = <<>>
      /\ \A x \in ReadersIn(reader_queue) : x.input # in
  BY <1>2 DEF Places
<1> HIDE DEF in
<1>4. ReaderCreate(in) \in Readers /\ ReaderCreate(in).input = in
  BY <1>2, ReaderMgrAssumption DEF ReaderCreate, Readers
<1>5. /\ ReadersIn(tmp_readers') =
           ReadersIn(tmp_readers)
             \cup (IF PeriodCheck(in) THEN {ReaderCreate(in)} ELSE {})
      /\ OneReaderEach(tmp_readers')
  <2>1. CASE PeriodCheck(in)
    <3>1. \A x \in ReadersIn(tmp_readers) : x.input # ReaderCreate(in).input
      BY <1>0, <1>2, <1>4
    <3> QED
      BY <1>0, <1>1, <1>4, <2>1, <3>1, AppendAddsReader
  <2>2. CASE ~ PeriodCheck(in)
    BY <1>0, <1>1, <2>2
  <2> QED
    BY <2>1, <2>2
<1> QED
  BY <1>0, <1>1, <1>2, <1>3, <1>5 DEF in

\* A round of the second loop: the reader goes from one list to the other and
\* reads its first entry.
LEMMA InsertEffect ==
  ASSUME IInv, Places, InsertNext
  PROVE  LET new == tmp_readers[1]
             r == ReadNewData(new, dumps[new.input])
         IN  /\ new \in Readers /\ new.input \in Files
             /\ new = ReaderCreate(new.input)
             /\ exported[new.input] = <<>>
             /\ new.input \in offered
             /\ ReadersIn(tmp_readers) = ReadersIn(tmp_readers') \cup {new}
             /\ \A x \in ReadersIn(tmp_readers') : x.input # new.input
             /\ OneReaderEach(tmp_readers')
             /\ r \in Readers /\ r.input = new.input
             /\ \A x \in ReadersIn(reader_queue) : x.input # r.input
             /\ ReadersIn(reader_queue') = ReadersIn(reader_queue) \cup {r}
             /\ OneReaderEach(reader_queue')
             /\ heap' = heap \cup Held(r)
             /\ adding = <<>>
             /\ mgr_status # "destroyed" /\ mgr_status' # "destroyed"
             /\ UNCHANGED <<dumps, adding, last_ts, record, exported, offered>>
<1> DEFINE new == tmp_readers[1]
           r == ReadNewData(new, dumps[new.input])
<1>0. /\ tmp_readers \in Seq(Readers) /\ tmp_readers # <<>> /\ adding = <<>>
      /\ reader_queue \in Seq(Readers) /\ SortedReaders(reader_queue)
      /\ mgr_status # "destroyed"
      /\ mgr_status \in {"empty", "non_empty", "destroyed"}
      /\ mgr_status = "non_empty" <=> reader_queue # <<>>
      /\ OneReaderEach(tmp_readers) /\ OneReaderEach(reader_queue) /\ dumps \in Dumps
  BY DEF IInv, TypeOK, ReadersAreSorted, StatusMatchesReaders, Places, InsertNext
<1>1. /\ new \in Readers /\ Head(tmp_readers) = new
  BY <1>0, HeadTailProperties
<1>2. /\ tmp_readers' = Tail(tmp_readers)
      /\ heap' = heap \cup Held(r)
      /\ reader_queue' = IF mgr_status = "empty" THEN <<r>>
                         ELSE SortedInsert(reader_queue, r)
      /\ mgr_status' = "non_empty"
      /\ UNCHANGED <<dumps, adding, last_ts, record, exported, offered>>
  BY <1>1 DEF InsertNext
<1>3. /\ ReadersIn(tmp_readers) = ReadersIn(tmp_readers') \cup {new}
      /\ \A x \in ReadersIn(tmp_readers') : x.input # new.input
      /\ OneReaderEach(tmp_readers')
  BY <1>0, <1>2, TailDropsHead
<1>4. new.input \in Files
  BY <1>1 DEF Readers
<1>5. /\ new = ReaderCreate(new.input) /\ exported[new.input] = <<>>
      /\ new.input \in offered /\ new.input \in InputsOf(tmp_readers)
  BY <1>3, <1>4 DEF Places, InputsOf
<1>6. r \in Readers /\ r.input = new.input
  <2>1. dumps[new.input].opens => dumps[new.input].items \in Seq(Items(Nat))
    BY <1>0, <1>4, ReaderMgrAssumption
  <2> QED
    BY <1>1, <2>1, ReadNewDataProperties
<1>7. \A x \in ReadersIn(reader_queue) : x.input # r.input
  BY <1>5, <1>6 DEF Places
<1> HIDE DEF r, new
<1>8. /\ ReadersIn(reader_queue') = ReadersIn(reader_queue) \cup {r}
      /\ OneReaderEach(reader_queue')
  <2>1. CASE mgr_status = "empty"
    <3>1. reader_queue' = <<r>> /\ reader_queue = <<>>
      BY <1>0, <1>2, <2>1
    <3> QED
      BY <3>1 DEF ReadersIn, OneReaderEach
  <2>2. CASE mgr_status # "empty"
    BY <1>0, <1>2, <1>6, <1>7, <2>2, InsertAddsReader
  <2> QED
    BY <2>1, <2>2
<1> QED
  BY <1>0, <1>1, <1>2, <1>3, <1>4, <1>5, <1>6, <1>7, <1>8 DEF r, new

\* What the user's thread does between the calls moves no file.
LEMMA OtherSteps ==
  ASSUME IInv, Places, RecordClear \/ ReaderMgrDestroy \/ UNCHANGED reader_vars
  PROVE  /\ UNCHANGED <<dumps, adding, tmp_readers, last_ts, exported, offered>>
         /\ \/ /\ RecordClear
               /\ record' = NoRecord /\ heap' = heap \ Held(record)
               /\ reader_queue' = reader_queue /\ mgr_status' = mgr_status
            \/ /\ ReaderMgrDestroy
               /\ adding = <<>> /\ tmp_readers = <<>>
               /\ reader_queue' = <<>> /\ mgr_status' = "destroyed"
               /\ record' = record
            \/ UNCHANGED reader_vars
BY DEF RecordClear, ReaderMgrDestroy, BetweenCalls, reader_vars

\* A new batch comes when there is no reader, and has none of the files that
\* came before, each once.
LEMMA AddEffect ==
  ASSUME IInv, NEW batch \in Batches, Add(batch)
  PROVE  /\ batch \in Seq(Files)
         /\ \A i, j \in 1..Len(batch) : batch[i] = batch[j] => i = j
         /\ Range(batch) \subseteq Files
         /\ Range(batch) \cap offered = {}
         /\ adding = <<>> /\ adding' = batch
         /\ offered' = offered \cup Range(batch)
         /\ ReadersIn(tmp_readers) = {} /\ ReadersIn(reader_queue) = {}
         /\ mgr_status = "empty"
         /\ UNCHANGED <<dumps, tmp_readers, reader_queue, mgr_status, last_ts, record,
                        heap, exported>>
<1>1. batch \in Seq(Files) /\ NoTwins(batch) /\ Range(batch) \cap offered = {}
  BY MaxReadersAssumption DEF Batches
<1>2. \A i, j \in 1..Len(batch) : batch[i] = batch[j] => i = j
  BY <1>1 DEF NoTwins, SameFile
<1>3. Range(batch) \subseteq Files
  BY <1>1, LenProperties DEF Range
<1>4. tmp_readers = <<>> /\ reader_queue = <<>>
  BY DEF Add, BetweenCalls, IInv, StatusMatchesReaders
<1>5. ReadersIn(tmp_readers) = {} /\ ReadersIn(reader_queue) = {}
  BY <1>4 DEF ReadersIn
<1> QED
  BY <1>1, <1>2, <1>3, <1>5 DEF Add, BetweenCalls

\* Every file is in one place at a time.
LEMMA PlacesInductive ==
  /\ ReaderMgrInit => Places
  /\ IInv /\ Places /\ [ReaderMgrNext]_reader_vars => Places'
<1>1. ReaderMgrInit => Places
  <2>1. SUFFICES ASSUME ReaderMgrInit PROVE Places
    OBVIOUS
  <2>2. /\ exported \in [Files -> Seq(ExportedRecords)]
        /\ \A in \in Files : exported[in] = <<>>
    BY <2>1 DEF ReaderMgrInit
  <2>3. ReadersIn(tmp_readers) = {} /\ ReadersIn(reader_queue) = {} /\ Range(adding) = {}
    BY <2>1 DEF ReaderMgrInit, ReadersIn, Range
  <2> QED
    BY <2>1, <2>2, <2>3 DEF ReaderMgrInit, Places, OneReaderEach, InputsOf
<1>2. ASSUME IInv, Places, [ReaderMgrNext]_reader_vars
      PROVE  Places'
  <2>0. /\ exported \in [Files -> Seq(ExportedRecords)]
        /\ \A i, j \in 1..Len(adding) : adding[i] = adding[j] => i = j
        /\ OneReaderEach(tmp_readers) /\ OneReaderEach(reader_queue)
        /\ \A r \in ReadersIn(tmp_readers) : r = ReaderCreate(r.input)
        /\ \A r \in ReadersIn(tmp_readers) : r.input \notin Range(adding)
        /\ \A r \in ReadersIn(reader_queue) :
             r.input \notin Range(adding) \cup InputsOf(tmp_readers)
        /\ Range(adding) \cup InputsOf(tmp_readers) \cup InputsOf(reader_queue)
             \subseteq offered
        /\ offered \subseteq Files
        /\ \A in \in Files : exported[in] # <<>> =>
             in \in offered \ (Range(adding) \cup InputsOf(tmp_readers))
    BY <1>2 DEF Places
  <2>1. ASSUME NEW batch \in Batches, Add(batch)
        PROVE  Places'
    <3>1. /\ \A i, j \in 1..Len(adding') : adding'[i] = adding'[j] => i = j
          /\ Range(adding') \subseteq Files
          /\ Range(adding') \cap offered = {}
          /\ offered' = offered \cup Range(adding')
          /\ InputsOf(tmp_readers) = {} /\ InputsOf(reader_queue) = {}
          /\ ReadersIn(tmp_readers) = {} /\ ReadersIn(reader_queue) = {}
          /\ UNCHANGED <<tmp_readers, reader_queue, exported>>
      BY <1>2, <2>1, AddEffect DEF InputsOf
    <3> QED
      BY <2>0, <3>1 DEF Places
  <2>2. CASE CreateNext
    <3> DEFINE in == Head(adding)
    <3>1. /\ in \in Files /\ in \in offered
          /\ exported[in] = <<>>
          /\ \A x \in ReadersIn(reader_queue) : x.input # in
          /\ Range(adding) = Range(adding') \cup {in}
          /\ in \notin Range(adding')
          /\ \A i, j \in 1..Len(adding') : adding'[i] = adding'[j] => i = j
          /\ ReadersIn(tmp_readers') =
               ReadersIn(tmp_readers)
                 \cup (IF PeriodCheck(in) THEN {ReaderCreate(in)} ELSE {})
          /\ OneReaderEach(tmp_readers')
          /\ UNCHANGED <<reader_queue, exported, offered>>
      BY <1>2, <2>2, CreateEffect
    <3> HIDE DEF in
    <3>2. ReaderCreate(in).input = in
      BY DEF ReaderCreate
    <3>3. \A r \in ReadersIn(tmp_readers') :
            r \in ReadersIn(tmp_readers) \/ r = ReaderCreate(in)
      BY <3>1
    <3>4. InputsOf(tmp_readers') \subseteq InputsOf(tmp_readers) \cup {in}
      BY <3>2, <3>3 DEF InputsOf
    <3>5. \A r \in ReadersIn(tmp_readers') : r = ReaderCreate(r.input)
      BY <2>0, <3>2, <3>3
    <3>6. \A r \in ReadersIn(tmp_readers') : r.input \notin Range(adding')
      BY <2>0, <3>1, <3>2, <3>3
    <3> QED
      BY <2>0, <3>1, <3>4, <3>5, <3>6 DEF Places
  <2>3. CASE InsertNext
    <3> DEFINE new == tmp_readers[1]
               r == ReadNewData(new, dumps[new.input])
    <3>1. /\ new.input \in Files
          /\ exported[new.input] = <<>>
          /\ ReadersIn(tmp_readers) = ReadersIn(tmp_readers') \cup {new}
          /\ \A x \in ReadersIn(tmp_readers') : x.input # new.input
          /\ OneReaderEach(tmp_readers')
          /\ r.input = new.input
          /\ ReadersIn(reader_queue') = ReadersIn(reader_queue) \cup {r}
          /\ OneReaderEach(reader_queue')
          /\ UNCHANGED <<adding, exported, offered>>
      BY <1>2, <2>3, InsertEffect
    <3> HIDE DEF new, r
    <3>2. /\ InputsOf(tmp_readers) = InputsOf(tmp_readers') \cup {new.input}
          /\ new.input \notin InputsOf(tmp_readers')
          /\ InputsOf(reader_queue') = InputsOf(reader_queue) \cup {new.input}
      BY <3>1 DEF InputsOf
    <3>3. \A x \in ReadersIn(reader_queue') :
            x.input \notin Range(adding') \cup InputsOf(tmp_readers')
      BY <2>0, <3>1, <3>2
    <3> QED
      BY <2>0, <3>1, <3>2, <3>3 DEF Places
  <2>4. CASE ExportValid \/ ExportLast
    <3> DEFINE head == reader_queue[1]
               next == ReadNewData(head, dumps[head.input])
               rest == ReadersIn(Tail(reader_queue))
    <3>1. /\ head \in Readers
          /\ ReadersIn(reader_queue) = rest \cup {head}
          /\ record' \in ExportedRecords
          /\ exported' = [exported EXCEPT ![head.input] = Append(@, record')]
          /\ UNCHANGED <<adding, tmp_readers, offered>>
          /\ OneReaderEach(reader_queue')
          /\ \/ ReadersIn(reader_queue') = rest
             \/ ReadersIn(reader_queue') = rest \cup {next} /\ next.input = head.input
      <4> HIDE DEF head, next, rest
      <4> QED
        BY <1>2, <2>4, ExportEffect DEF head, next, rest
    <3> HIDE DEF head, next, rest
    <3>2. head.input \in Files /\ head.input \in InputsOf(reader_queue)
      BY <3>1 DEF Readers, InputsOf
    <3>3. \A x \in ReadersIn(reader_queue') : \E y \in ReadersIn(reader_queue) :
            x.input = y.input
      BY <3>1
    <3>4. InputsOf(reader_queue') \subseteq InputsOf(reader_queue)
      BY <3>3 DEF InputsOf
    <3>5. exported' \in [Files -> Seq(ExportedRecords)]
      <4>1. Append(exported[head.input], record') \in Seq(ExportedRecords)
        BY <2>0, <3>1, <3>2, AppendProperties
      <4> QED
        BY <2>0, <3>1, <3>2, <4>1
    <3>6. \A in \in Files : exported'[in] # <<>> =>
            in = head.input \/ exported[in] # <<>>
      BY <2>0, <3>1
    <3>7. head.input \in offered \ (Range(adding) \cup InputsOf(tmp_readers))
      BY <2>0, <3>1, <3>2
    <3>8. \A x \in ReadersIn(reader_queue') :
            x.input \notin Range(adding) \cup InputsOf(tmp_readers)
      BY <2>0, <3>3
    <3> QED
      BY <2>0, <3>1, <3>4, <3>5, <3>6, <3>7, <3>8 DEF Places
  <2>5. CASE RecordClear \/ ReaderMgrDestroy \/ UNCHANGED reader_vars
    <3>1. /\ UNCHANGED <<adding, tmp_readers, exported, offered>>
          /\ \/ reader_queue' = reader_queue
             \/ reader_queue' = <<>>
      BY <1>2, <2>5, OtherSteps DEF reader_vars
    <3>2. CASE reader_queue' = reader_queue
      BY <2>0, <3>1, <3>2 DEF Places
    <3>3. CASE reader_queue' = <<>>
      <4>1. /\ ReadersIn(reader_queue') = {} /\ OneReaderEach(reader_queue')
            /\ InputsOf(reader_queue') = {}
        BY <3>3 DEF ReadersIn, OneReaderEach, InputsOf
      <4> QED
        BY <2>0, <3>1, <4>1 DEF Places
    <3> QED
      BY <3>1, <3>2, <3>3
  <2> QED
    BY <1>2, <2>1, <2>2, <2>3, <2>4, <2>5 DEF ReaderMgrNext
<1> QED
  BY <1>1, <1>2

-----------------------------------------------------------------------------
(* What has come out of a dump                                             *)

\* What came out of the file of a reader in the queue is what was to come out
\* before the entry the reader holds, or all of it if it holds none.
Behind(r) ==
  /\ DeliveredFrom(r.input) =
       {e \in Deliverable(r.input) : r.status = "VALID_ENTRY" => e < r.bd_entry}
  /\ \A k \in DOMAIN exported[r.input] : exported[r.input][k].bd_entry # 0

\* The record the user holds is the last one exported, and its entry has been
\* delivered.
RecordIsDelivered ==
  \/ record = NoRecord
  \/ /\ record \in ExportedRecords
     /\ record.bd_entry # 0 => record.bd_entry \in DeliveredFrom(record.input)

\* The entries that readers hold.
HeldBy(readers) == UNION {Held(r) : r \in readers}

HeapIsHeld ==
  mgr_status # "destroyed" => heap = HeldBy(ReadersIn(reader_queue)) \cup Held(record)

\* The inductive invariant behind EntriesAreDelivered.
Progress ==
  /\ \A r \in ReadersIn(reader_queue) : ReaderIsAt(r) /\ Behind(r)
  /\ DeliveredExactlyOnce
  /\ RecordIsDelivered
  /\ HeapIsHeld

\* One more record is exported from a file.
LEMMA ExportedGrows ==
  ASSUME Places, NEW f \in Files, NEW rec \in ExportedRecords,
         exported' = [exported EXCEPT ![f] = Append(@, rec)]
  PROVE  /\ \A in \in Files \ {f} :
              exported'[in] = exported[in] /\ DeliveredFrom(in)' = DeliveredFrom(in)
         /\ DeliveredFrom(f)' = DeliveredFrom(f) \cup ({rec.bd_entry} \ {0})
         /\ exported'[f] # <<>>
         /\ \A k \in DOMAIN exported'[f] :
              \/ k \in DOMAIN exported[f] /\ exported'[f][k] = exported[f][k]
              \/ k = Len(exported[f]) + 1 /\ exported'[f][k] = rec
         /\ Len(exported[f]) \in Nat /\ DOMAIN exported[f] = 1..Len(exported[f])
<1> DEFINE s == exported[f]
           t == exported'[f]
<1>0. exported \in [Files -> Seq(ExportedRecords)]
  BY DEF Places
<1>1. t = Append(s, rec) /\ \A in \in Files \ {f} : exported'[in] = exported[in]
  BY <1>0
<1>2. s \in Seq(ExportedRecords) /\ Len(s) \in Nat /\ DOMAIN s = 1..Len(s)
  BY <1>0, LenProperties
<1>3. /\ t \in Seq(ExportedRecords) /\ Len(t) = Len(s) + 1
      /\ \A k \in 1..Len(s) : t[k] = s[k]
      /\ t[Len(s) + 1] = rec
  BY <1>1, <1>2, AppendProperties
<1>4. DOMAIN t = 1..(Len(s) + 1)
  BY <1>3, LenProperties
<1>5. \A in \in Files \ {f} : DeliveredFrom(in)' = DeliveredFrom(in)
  BY <1>1 DEF DeliveredFrom
<1> HIDE DEF s, t
<1>6. ASSUME NEW k \in DOMAIN t
      PROVE  \/ k \in DOMAIN s /\ t[k] = s[k]
             \/ k = Len(s) + 1 /\ t[k] = rec
  BY <1>2, <1>3, <1>4
<1>7. \A k \in DOMAIN s : k \in DOMAIN t /\ t[k] = s[k]
  BY <1>2, <1>3, <1>4
<1>8. Len(s) + 1 \in DOMAIN t /\ t # <<>>
  BY <1>2, <1>3, <1>4
<1>9. {t[k].bd_entry : k \in DOMAIN t}
        = {s[k].bd_entry : k \in DOMAIN s} \cup {rec.bd_entry}
  BY <1>3, <1>6, <1>7, <1>8
<1>10. DeliveredFrom(f)' = DeliveredFrom(f) \cup ({rec.bd_entry} \ {0})
  BY <1>9 DEF DeliveredFrom, s, t
<1> QED
  BY <1>1, <1>2, <1>5, <1>6, <1>8, <1>10 DEF s, t

\* Where the first read of a file brings its reader.
LEMMA FirstRead ==
  ASSUME IInv, Places, InsertNext
  PROVE  LET new == tmp_readers[1]
             r == ReadNewData(new, dumps[new.input])
         IN  ReaderIsAt(r) /\ Behind(r)
<1> DEFINE new == tmp_readers[1]
           r == ReadNewData(new, dumps[new.input])
           f == new.input
<1>1. /\ new \in Readers /\ f \in Files /\ new = ReaderCreate(f)
      /\ exported[f] = <<>> /\ r.input = f /\ r \in Readers
  BY InsertEffect
<1>2. new.status = "VALID_ENTRY" /\ new.pos = 0 /\ new.valid_read = 0
      /\ new.successful_read = 0
  BY <1>1 DEF ReaderCreate
<1>3. dumps \in Dumps
  BY DEF IInv
<1>4. HasRead(new)
  <2>1. Entries(f, 0) = {}
    BY DEF Entries
  <2>2. Cardinality(Entries(f, 0)) = 0
    BY <2>1, FS_EmptySet
  <2>3. Len(dumps[f].items) \in Nat
    BY <1>1, <1>3, ReaderMgrAssumption, LenProperties
  <2> HIDE DEF new
  <2> QED
    BY <1>2, <2>2, <2>3 DEF HasRead
<1>5. /\ ReaderIsAt(r)
      /\ \A e \in Deliverable(f) : e \in Nat
      /\ r.status = "VALID_ENTRY" => \A e \in Deliverable(f) : e > 0 => e >= r.bd_entry
      /\ r.status # "VALID_ENTRY" => \A e \in Deliverable(f) : e <= 0
  <2> HIDE DEF new
  <2> QED
    BY <1>1, <1>2, <1>3, <1>4, ReadSkipsNothing
<1> HIDE DEF new, r
<1>6. \A e \in Deliverable(f) : e > 0
  <2>1. dumps[f].items \in Seq(Items(Nat))
    BY <1>1, <1>3, ReaderMgrAssumption
  <2>2. DOMAIN dumps[f].items = 1..Len(dumps[f].items)
    BY <2>1, LenProperties
  <2> QED
    BY <2>2 DEF Deliverable
<1>7. r.bd_entry \in Nat
  BY <1>1 DEF Readers
<1>8. DeliveredFrom(f) = {}
  BY <1>1 DEF DeliveredFrom
<1>9. {e \in Deliverable(f) : r.status = "VALID_ENTRY" => e < r.bd_entry} = {}
  BY <1>5, <1>6, <1>7
<1> QED
  BY <1>1, <1>5, <1>8, <1>9 DEF Behind, r, new

\* The export of an entry: it was due and all those before it have come out,
\* and the next read skips nothing.
LEMMA ExportKeepsUp ==
  ASSUME IInv, Places, Progress, ExportValid \/ ExportLast
  PROVE  LET head == reader_queue[1]
             next == ReadNewData(head, dumps[head.input])
             due == Deliverable(head.input)
             done == DeliveredFrom(head.input) \cup ({head.bd_entry} \ {0})
         IN  /\ due \subseteq Nat
             /\ head.status = "VALID_ENTRY" =>
                  /\ head.bd_entry \in due /\ head.bd_entry > 0
                  /\ \A d \in DeliveredFrom(head.input) : d < head.bd_entry
                  /\ ReaderIsAt(next)
                  /\ done = {e \in due : e <= head.bd_entry}
                  /\ next.status = "VALID_ENTRY" =>
                       done = {e \in due : e < next.bd_entry}
                  /\ next.status # "VALID_ENTRY" => done = due
             /\ head.status # "VALID_ENTRY" => head.bd_entry = 0 /\ done = due
<1> DEFINE head == reader_queue[1]
           f == head.input
           next == ReadNewData(head, dumps[f])
           due == Deliverable(f)
           done == DeliveredFrom(f) \cup ({head.bd_entry} \ {0})
<1>1. /\ head \in Readers /\ head \in ReadersIn(reader_queue)
      /\ head.status = "VALID_ENTRY" => next \in Readers
  BY ExportEffect
<1>2. ReaderIsAt(head) /\ Behind(head)
  BY <1>1 DEF Progress
<1>3. dumps \in Dumps /\ f \in Files /\ head.bd_entry \in Nat
  BY <1>1 DEF IInv, Readers
<1>4. due \subseteq Nat /\ \A e \in due : e > 0
  <2>1. dumps[f].items \in Seq(Items(Nat))
    BY <1>3, ReaderMgrAssumption
  <2>2. DOMAIN dumps[f].items = 1..Len(dumps[f].items)
    BY <2>1, LenProperties
  <2> QED
    BY <2>2 DEF Deliverable
<1> HIDE DEF head
<1>5. CASE head.status = "VALID_ENTRY"
  <2>1. /\ head.bd_entry \in due /\ head.bd_entry = head.pos /\ HasRead(head)
    BY <1>2, <1>5 DEF ReaderIsAt
  <2>2. /\ ReaderIsAt(next)
        /\ next.status = "VALID_ENTRY" =>
             /\ next.bd_entry > head.pos
             /\ \A e \in due : e > head.pos => e >= next.bd_entry
        /\ next.status # "VALID_ENTRY" => \A e \in due : e <= head.pos
    BY <1>1, <1>3, <1>5, <2>1, ReadSkipsNothing
  <2>3. DeliveredFrom(f) = {e \in due : e < head.bd_entry}
    BY <1>2, <1>5 DEF Behind
  <2>4. next.bd_entry \in Nat
    BY <1>1, <1>5 DEF Readers
  <2> HIDE DEF f, due, next
  <2>5. done = {e \in due : e <= head.bd_entry} /\ head.bd_entry > 0
    <3>1. head.bd_entry > 0
      BY <1>4, <2>1
    <3>2. \A e \in due : e <= head.bd_entry <=> e < head.bd_entry \/ e = head.bd_entry
      BY <1>3, <1>4
    <3> DEFINE b == head.bd_entry
    <3>3. done = {e \in due : e < b} \cup {b} /\ b \in due
      BY <1>3, <2>1, <2>3, <3>1
    <3> HIDE DEF done
    <3>4. \A e : e \in done <=> e \in {e2 \in due : e2 <= b}
      BY <3>2, <3>3
    <3> QED
      BY <3>1, <3>4
  <2>6. next.status = "VALID_ENTRY" => done = {e \in due : e < next.bd_entry}
    <3>1. next.status = "VALID_ENTRY" =>
            \A e \in due : e <= head.bd_entry <=> e < next.bd_entry
      BY <1>3, <1>4, <2>1, <2>2, <2>4
    <3> HIDE DEF done
    <3> QED
      BY <2>5, <3>1
  <2>7. next.status # "VALID_ENTRY" => done = due
    BY <2>1, <2>2, <2>5
  <2> QED
    BY <1>4, <1>5, <2>1, <2>2, <2>3, <2>5, <2>6, <2>7 DEF f, due, next, head
<1>6. CASE head.status # "VALID_ENTRY"
  <2>1. head.bd_entry = 0 /\ DeliveredFrom(f) = due
    BY <1>2, <1>6 DEF ReaderIsAt, Behind
  <2> QED
    BY <1>4, <1>6, <2>1 DEF head
<1> QED
  BY <1>5, <1>6 DEF head

\* DeliveredExactlyOnce for one file.
Once(in) ==
  /\ DeliveredFrom(in) \subseteq Deliverable(in)
  /\ \A d \in DeliveredFrom(in), e \in Deliverable(in) : e < d => e \in DeliveredFrom(in)
  /\ \A j, k \in DOMAIN exported[in] :
       j < k => /\ exported[in][j].bd_entry # 0
                /\ \/ exported[in][k].bd_entry = 0
                   \/ exported[in][j].bd_entry < exported[in][k].bd_entry
  /\ exported[in] # <<>> /\ in \notin InputsOf(reader_queue) /\ mgr_status # "destroyed" =>
       DeliveredFrom(in) = Deliverable(in)

LEMMA OnceEach == DeliveredExactlyOnce <=> \A in \in Files : Once(in)
<1>1. \A in : in \in InputsOf(reader_queue)
                <=> \E i \in 1..Len(reader_queue) : reader_queue[i].input = in
  BY DEF InputsOf, ReadersIn
<1> QED
  BY <1>1 DEF DeliveredExactlyOnce, Once

\* Exporting keeps the order, and a file without a reader has nothing left.
LEMMA ExportKeepsOnce ==
  ASSUME IInv, Places, Progress, ExportValid \/ ExportLast
  PROVE  /\ \A in \in Files : Once(in)'
         /\ \A x \in ReadersIn(reader_queue') : ReaderIsAt(x)' /\ Behind(x)'
<1> DEFINE head == reader_queue[1]
           f == head.input
           next == ReadNewData(head, dumps[f])
           rest == ReadersIn(Tail(reader_queue))
           due == Deliverable(f)
           done == DeliveredFrom(f) \cup ({head.bd_entry} \ {0})
<1>1. /\ head \in Readers /\ f \in Files
      /\ ReadersIn(reader_queue) = rest \cup {head}
      /\ \A x \in rest : x.input # f
      /\ record' \in ExportedRecords
      /\ record'.bd_entry = head.bd_entry
      /\ exported' = [exported EXCEPT ![f] = Append(@, record')]
      /\ dumps' = dumps
      /\ mgr_status # "destroyed"
      /\ \/ /\ head.status = "VALID_ENTRY" /\ next.input = f
            /\ ReadersIn(reader_queue') =
                 IF next.status = "END_OF_DUMP" THEN rest ELSE rest \cup {next}
         \/ head.status # "VALID_ENTRY" /\ ReadersIn(reader_queue') = rest
  BY ExportEffect DEF Readers
<1>2. /\ due \subseteq Nat
      /\ head.status = "VALID_ENTRY" =>
           /\ head.bd_entry \in due /\ head.bd_entry > 0
           /\ \A d \in DeliveredFrom(f) : d < head.bd_entry
           /\ ReaderIsAt(next)
           /\ done = {e \in due : e <= head.bd_entry}
           /\ next.status = "VALID_ENTRY" => done = {e \in due : e < next.bd_entry}
           /\ next.status # "VALID_ENTRY" => done = due
      /\ head.status # "VALID_ENTRY" => head.bd_entry = 0 /\ done = due
  BY ExportKeepsUp
<1>3. /\ \A x \in ReadersIn(reader_queue) : ReaderIsAt(x) /\ Behind(x)
      /\ \A in \in Files : Once(in)
  BY OnceEach DEF Progress
<1>4. /\ ReaderIsAt(head) /\ Behind(head)
      /\ \A x \in rest : ReaderIsAt(x) /\ Behind(x) /\ x \in Readers
  <2>1. \A x \in ReadersIn(reader_queue) : x \in Readers
    BY DEF IInv, TypeOK, ReadersIn
  <2> QED
    BY <1>1, <1>3, <2>1
<1> HIDE DEF head, f, next, rest, due, done
<1>5. /\ \A in \in Files \ {f} :
           exported'[in] = exported[in] /\ DeliveredFrom(in)' = DeliveredFrom(in)
      /\ exported'[f] # <<>>
      /\ \A k \in DOMAIN exported'[f] :
           \/ k \in DOMAIN exported[f] /\ exported'[f][k] = exported[f][k]
           \/ k = Len(exported[f]) + 1 /\ exported'[f][k] = record'
      /\ Len(exported[f]) \in Nat /\ DOMAIN exported[f] = 1..Len(exported[f])
  BY <1>1, ExportedGrows
<1>6. ASSUME NEW in \in Files, in = f
      PROVE  DeliveredFrom(in)' = done
  <2>1. exported' = [exported EXCEPT ![in] = Append(@, record')]
    BY <1>1, <1>6
  <2>2. DeliveredFrom(in)' = DeliveredFrom(in) \cup ({record'.bd_entry} \ {0})
    BY <1>1, <2>1, ExportedGrows
  <2> QED
    BY <1>1, <1>6, <2>2 DEF done
<1>7. \A in \in Files : Deliverable(in)' = Deliverable(in)
  BY <1>1 DEF Deliverable
<1>8. \A x \in Readers : ReaderIsAt(x)' <=> ReaderIsAt(x)
  BY <1>1 DEF ReaderIsAt, HasRead, Entries, Deliverable
<1>9. InputsOf(reader_queue)' \subseteq InputsOf(reader_queue)
      /\ \A in \in Files \ {f} : in \in InputsOf(reader_queue) =>
           in \in InputsOf(reader_queue)'
  BY <1>1 DEF InputsOf, f
<1>10. ASSUME NEW in \in Files, in # f
       PROVE  Once(in)'
  <2>1. Once(in)
    BY <1>3
  <2>2. mgr_status' # "destroyed" => mgr_status # "destroyed"
    BY <1>1
  <2> QED
    BY <1>5, <1>7, <1>9, <1>10, <2>1, <2>2 DEF Once
<1>11. ASSUME NEW in \in Files, in = f
       PROVE  Once(in)'
  <2>0. Deliverable(in)' = due /\ DeliveredFrom(in)' = done
    BY <1>6, <1>7, <1>11 DEF due
  <2>1. /\ done \subseteq due
        /\ \A d \in done, e \in due : e < d => e \in done
    <3>1. CASE head.status = "VALID_ENTRY"
      <4>1. head.bd_entry \in Nat
        BY <1>1 DEF Readers
      <4>2. done = {e \in due : e <= head.bd_entry} /\ due \subseteq Nat
        BY <1>2, <3>1
      <4>3. \A d \in done : d \in due /\ d \in Nat /\ d <= head.bd_entry
        BY <4>2
      <4>4. ASSUME NEW d \in done, NEW e \in due, e < d
            PROVE  e \in done
        <5>1. e \in Nat /\ d \in Nat /\ d <= head.bd_entry
          BY <4>2, <4>3
        <5>2. e <= head.bd_entry
          BY <4>1, <4>4, <5>1
        <5> QED
          BY <4>2, <5>2
      <4> QED
        BY <4>3, <4>4
    <3>2. CASE head.status # "VALID_ENTRY"
      BY <1>2, <3>2
    <3> QED
      BY <3>1, <3>2
  <2>2. ASSUME NEW j \in DOMAIN exported'[in], NEW k \in DOMAIN exported'[in], j < k
        PROVE  /\ exported'[in][j].bd_entry # 0
               /\ \/ exported'[in][k].bd_entry = 0
                  \/ exported'[in][j].bd_entry < exported'[in][k].bd_entry
    <3>1. /\ \/ j \in DOMAIN exported[in] /\ exported'[in][j] = exported[in][j]
             \/ j = Len(exported[in]) + 1
          /\ \/ k \in DOMAIN exported[in] /\ exported'[in][k] = exported[in][k]
             \/ k = Len(exported[in]) + 1 /\ exported'[in][k] = record'
      BY <1>5, <1>11
    <3>2. j \in DOMAIN exported[in] /\ exported'[in][j] = exported[in][j]
      <4>1. DOMAIN exported[in] = 1..Len(exported[in]) /\ Len(exported[in]) \in Nat
        BY <1>5, <1>11
      <4> QED
        BY <2>2, <3>1, <4>1
    <3>3. exported[in][j].bd_entry # 0
      BY <1>4, <1>11, <3>2 DEF Behind, f
    <3>4. exported[in][j].bd_entry \in DeliveredFrom(f)
      BY <1>11, <3>2, <3>3 DEF DeliveredFrom
    <3>5. CASE k \in DOMAIN exported[in] /\ exported'[in][k] = exported[in][k]
      BY <1>3, <2>2, <3>2, <3>5 DEF Once
    <3>6. CASE exported'[in][k] = record'
      <4>1. exported'[in][k].bd_entry = head.bd_entry
        BY <1>1, <3>6
      <4> QED
        BY <1>2, <3>2, <3>3, <3>4, <4>1
    <3> QED
      BY <3>1, <3>5, <3>6
  <2>3. f \in InputsOf(reader_queue)' \/ done = due
    <3>1. CASE head.status = "VALID_ENTRY" /\ next.status = "VALID_ENTRY"
      <4>1. next \in ReadersIn(reader_queue') /\ next.input = f
        BY <1>1, <3>1
      <4> QED
        BY <4>1 DEF InputsOf
    <3>2. CASE ~ (head.status = "VALID_ENTRY" /\ next.status = "VALID_ENTRY")
      BY <1>2, <3>2
    <3> QED
      BY <3>1, <3>2
  <2> QED
    BY <1>11, <2>0, <2>1, <2>2, <2>3 DEF Once
<1>12. ASSUME NEW x \in ReadersIn(reader_queue')
       PROVE  ReaderIsAt(x)' /\ Behind(x)'
  <2>1. CASE x \in rest
    <3>1. x \in Readers /\ ReaderIsAt(x) /\ Behind(x) /\ x.input \in Files \ {f}
      BY <1>1, <1>4, <2>1 DEF Readers
    <3> QED
      BY <1>5, <1>7, <1>8, <3>1 DEF Behind
  <2>2. CASE x \notin rest
    <3>1. /\ x = next /\ head.status = "VALID_ENTRY" /\ x.input = f
      BY <1>1, <2>2
    <3>2. x \in Readers
      <4>1. \A y \in ReadersIn(reader_queue') : y \in Readers
        <5>1. reader_queue' \in Seq(Readers)
          BY IInvInductive DEF IInv, TypeOK, ReaderMgrNext
        <5> QED
          BY <5>1 DEF ReadersIn
      <4> QED
        BY <4>1
    <3>3. ReaderIsAt(x)'
      BY <1>2, <1>8, <3>1, <3>2
    <3>4. DeliveredFrom(x.input)' = done /\ Deliverable(x.input)' = due
      BY <1>1, <1>6, <1>7, <3>1 DEF due
    <3>5. done = {e \in due : x.status = "VALID_ENTRY" => e < x.bd_entry}
      BY <1>2, <3>1
    <3>6. \A k \in DOMAIN exported'[f] : exported'[f][k].bd_entry # 0
      <4>1. \A k \in DOMAIN exported[f] : exported[f][k].bd_entry # 0
        BY <1>4 DEF Behind, f
      <4>2. record'.bd_entry # 0
        BY <1>1, <1>2, <3>1
      <4> QED
        BY <1>5, <4>1, <4>2
    <3> QED
      BY <3>1, <3>3, <3>4, <3>5, <3>6 DEF Behind
  <2> QED
    BY <2>1, <2>2
<1> QED
  BY <1>10, <1>11, <1>12

\* A step that exports nothing and gives no new reader its first entry keeps
\* what was delivered.
LEMMA QuietKeepsOnce ==
  ASSUME IInv, Places, Progress, UNCHANGED <<dumps, exported>>,
         \/ UNCHANGED reader_queue /\ UNCHANGED mgr_status
         \/ reader_queue' = <<>> /\ mgr_status' = "destroyed"
  PROVE  /\ \A in \in Files : Once(in)'
         /\ \A x \in ReadersIn(reader_queue') : ReaderIsAt(x)' /\ Behind(x)'
<1>1. /\ \A x \in ReadersIn(reader_queue) : ReaderIsAt(x) /\ Behind(x)
      /\ \A in \in Files : Once(in)
  BY OnceEach DEF Progress
<1>2. \A in : DeliveredFrom(in)' = DeliveredFrom(in) /\ Deliverable(in)' = Deliverable(in)
  BY DEF DeliveredFrom, Deliverable
<1>3. \A x : (ReaderIsAt(x)' <=> ReaderIsAt(x)) /\ (Behind(x)' <=> Behind(x))
  BY <1>2 DEF ReaderIsAt, HasRead, Entries, Behind
<1>4. CASE UNCHANGED reader_queue /\ UNCHANGED mgr_status
  BY <1>1, <1>2, <1>3, <1>4 DEF Once, InputsOf, ReadersIn
<1>5. CASE reader_queue' = <<>> /\ mgr_status' = "destroyed"
  <2>1. ReadersIn(reader_queue') = {}
    BY <1>5 DEF ReadersIn
  <2>2. ASSUME NEW in \in Files PROVE Once(in)'
    BY <1>1, <1>2, <1>5 DEF Once
  <2> QED
    BY <2>1, <2>2
<1> QED
  BY <1>4, <1>5

\* A new reader has delivered nothing.
LEMMA InsertKeepsOnce ==
  ASSUME IInv, Places, Progress, InsertNext
  PROVE  /\ \A in \in Files : Once(in)'
         /\ \A x \in ReadersIn(reader_queue') : ReaderIsAt(x)' /\ Behind(x)'
<1> DEFINE new == tmp_readers[1]
           r == ReadNewData(new, dumps[new.input])
<1>1. /\ exported[r.input] = <<>>
      /\ ReadersIn(reader_queue') = ReadersIn(reader_queue) \cup {r}
      /\ UNCHANGED <<dumps, exported>>
      /\ mgr_status # "destroyed"
      /\ r.input \in Files
  BY InsertEffect
<1>2. ReaderIsAt(r) /\ Behind(r)
  BY FirstRead
<1>3. /\ \A x \in ReadersIn(reader_queue) : ReaderIsAt(x) /\ Behind(x)
      /\ \A in \in Files : Once(in)
  BY OnceEach DEF Progress
<1> HIDE DEF r
<1>4. \A in : DeliveredFrom(in)' = DeliveredFrom(in) /\ Deliverable(in)' = Deliverable(in)
  BY <1>1 DEF DeliveredFrom, Deliverable
<1>5. \A x : (ReaderIsAt(x)' <=> ReaderIsAt(x)) /\ (Behind(x)' <=> Behind(x))
  BY <1>1, <1>4 DEF ReaderIsAt, HasRead, Entries, Behind
<1>6. ASSUME NEW x \in ReadersIn(reader_queue')
      PROVE  ReaderIsAt(x)' /\ Behind(x)'
  BY <1>1, <1>2, <1>3, <1>5
<1>7. \A in : in \in InputsOf(reader_queue)' => in = r.input \/ in \in InputsOf(reader_queue)
  BY <1>1 DEF InputsOf
<1>8. \A in : in \in InputsOf(reader_queue) => in \in InputsOf(reader_queue)'
  BY <1>1 DEF InputsOf
<1>9. ASSUME NEW in \in Files PROVE Once(in)'
  BY <1>1, <1>3, <1>4, <1>8 DEF Once
<1> QED
  BY <1>6, <1>9

\* Of two owners, at most one holds an entry.
LEMMA OwnersAreApart ==
  ASSUME IInv, Places, Progress
  PROVE  /\ \A i, j \in 1..Len(reader_queue) : i # j =>
              Held(reader_queue[i]) \cap Held(reader_queue[j]) = {}
         /\ \A r \in ReadersIn(reader_queue) : Held(r) \cap Held(record) = {}
<1>1. ASSUME NEW i \in 1..Len(reader_queue), NEW j \in 1..Len(reader_queue), i # j
      PROVE  Held(reader_queue[i]) \cap Held(reader_queue[j]) = {}
  BY <1>1 DEF Held, Places, OneReaderEach
<1>2. ASSUME NEW r \in ReadersIn(reader_queue), Held(r) \cap Held(record) # {}
      PROVE  FALSE
  <2>1. /\ r.bd_entry # 0 /\ record.bd_entry # 0
        /\ r.input = record.input /\ r.bd_entry = record.bd_entry
    BY <1>2 DEF Held
  <2>2. record # NoRecord
    BY <2>1 DEF NoRecord
  <2>3. record.bd_entry \in DeliveredFrom(r.input)
    BY <2>1, <2>2 DEF Progress, RecordIsDelivered
  <2>4. ReaderIsAt(r) /\ Behind(r)
    BY <1>2 DEF Progress
  <2>5. r.status = "VALID_ENTRY"
    BY <2>1, <2>4 DEF ReaderIsAt
  <2>6. record.bd_entry < r.bd_entry
    BY <2>3, <2>4, <2>5 DEF Behind
  <2>7. r.bd_entry \in Nat
    <3>1. r \in Readers
      BY <1>2 DEF IInv, TypeOK, ReadersIn
    <3> QED
      BY <3>1 DEF Readers
  <2> QED
    BY <2>1, <2>6, <2>7
<1> QED
  BY <1>1, <1>2

LEMMA OneMoreHolder ==
  ASSUME NEW readers, NEW r
  PROVE  HeldBy(readers \cup {r}) = HeldBy(readers) \cup Held(r)
BY DEF HeldBy

\* No entry is lost or leaked by a step.
LEMMA HeapInductive ==
  ASSUME IInv, Places, Progress, [ReaderMgrNext]_reader_vars
  PROVE  RecordIsDelivered' /\ HeapIsHeld'
<1>0. /\ RecordIsDelivered
      /\ mgr_status # "destroyed" => heap = HeldBy(ReadersIn(reader_queue)) \cup Held(record)
  BY DEF Progress, HeapIsHeld
<1>a. Held(NoRecord) = {}
  BY DEF Held, NoRecord
<1>1. CASE UNCHANGED <<exported, reader_queue, mgr_status, record, heap>>
  <2>1. RecordIsDelivered'
    BY <1>0, <1>1 DEF RecordIsDelivered, DeliveredFrom
  <2> QED
    BY <1>0, <1>1, <2>1 DEF HeapIsHeld
<1>2. CASE InsertNext
  <2> DEFINE new == tmp_readers[1]
             r == ReadNewData(new, dumps[new.input])
  <2>1. /\ ReadersIn(reader_queue') = ReadersIn(reader_queue) \cup {r}
        /\ heap' = heap \cup Held(r)
        /\ mgr_status # "destroyed"
        /\ UNCHANGED <<record, exported>>
    BY <1>2, InsertEffect
  <2>2. RecordIsDelivered'
    BY <1>0, <2>1 DEF RecordIsDelivered, DeliveredFrom
  <2> HIDE DEF r
  <2>3. HeldBy(ReadersIn(reader_queue')) = HeldBy(ReadersIn(reader_queue)) \cup Held(r)
    BY <2>1, OneMoreHolder
  <2>4. heap' = HeldBy(ReadersIn(reader_queue')) \cup Held(record')
    BY <1>0, <2>1, <2>3
  <2> QED
    BY <2>2, <2>4 DEF HeapIsHeld
<1>3. CASE ExportValid \/ ExportLast
  <2> DEFINE head == reader_queue[1]
             next == ReadNewData(head, dumps[head.input])
             rest == ReadersIn(Tail(reader_queue))
  <2>1. /\ head \in Readers
        /\ ReadersIn(reader_queue) = rest \cup {head}
        /\ record = NoRecord
        /\ mgr_status # "destroyed"
        /\ record' \in ExportedRecords
        /\ record'.input = head.input
        /\ record'.bd_entry = head.bd_entry
        /\ exported' = [exported EXCEPT ![head.input] = Append(@, record')]
        /\ \/ /\ head.status = "VALID_ENTRY"
              /\ heap' = heap \cup Held(next)
              /\ ReadersIn(reader_queue') =
                   IF next.status = "END_OF_DUMP" THEN rest ELSE rest \cup {next}
           \/ /\ head.status # "VALID_ENTRY"
              /\ heap' = heap
              /\ ReadersIn(reader_queue') = rest
    BY <1>3, ExportEffect
  <2>2. /\ head.status = "VALID_ENTRY" => ReaderIsAt(next)
        /\ head.status # "VALID_ENTRY" => head.bd_entry = 0
    BY <1>3, ExportKeepsUp
  <2> HIDE DEF head, next, rest
  <2>3. /\ Held(record') = Held(head)
        /\ head.input \in Files
    BY <2>1 DEF Held, Readers
  <2>4. RecordIsDelivered'
    <3>1. \A in \in Files : in = head.input =>
            DeliveredFrom(in)' = DeliveredFrom(in) \cup ({record'.bd_entry} \ {0})
      BY <2>1, <2>3, ExportedGrows
    <3>2. record'.bd_entry # 0 =>
            \E k \in DOMAIN exported'[head.input] :
              exported'[head.input][k].bd_entry = record'.bd_entry
      BY <2>3, <3>1 DEF DeliveredFrom
    <3> QED
      BY <2>1, <3>2 DEF RecordIsDelivered, DeliveredFrom
  <2>5. HeldBy(ReadersIn(reader_queue)) = HeldBy(rest) \cup Held(head)
    BY <2>1, OneMoreHolder
  <2>6. heap = HeldBy(rest) \cup Held(head)
    BY <1>0, <1>a, <2>1, <2>5
  <2>7. heap' = HeldBy(ReadersIn(reader_queue')) \cup Held(record')
    <3>1. CASE head.status = "VALID_ENTRY" /\ next.status = "END_OF_DUMP"
      <4>1. Held(next) = {}
        BY <2>2, <3>1 DEF ReaderIsAt, Held
      <4> QED
        BY <2>1, <2>3, <2>6, <3>1, <4>1
    <3>2. CASE head.status = "VALID_ENTRY" /\ next.status # "END_OF_DUMP"
      <4>1. ReadersIn(reader_queue') = rest \cup {next} /\ heap' = heap \cup Held(next)
        BY <2>1, <3>2
      <4>2. HeldBy(ReadersIn(reader_queue')) = HeldBy(rest) \cup Held(next)
        BY <4>1, OneMoreHolder
      <4> QED
        BY <2>3, <2>6, <4>1, <4>2
    <3>3. CASE head.status # "VALID_ENTRY"
      BY <2>1, <2>3, <2>6, <3>3
    <3> QED
      BY <3>1, <3>2, <3>3
  <2> QED
    BY <2>4, <2>7 DEF HeapIsHeld
<1>4. CASE RecordClear
  <2>1. /\ record' = NoRecord /\ heap' = heap \ Held(record)
        /\ reader_queue' = reader_queue /\ mgr_status # "destroyed"
    BY <1>4 DEF RecordClear, BetweenCalls
  <2>2. \A r \in ReadersIn(reader_queue) : Held(r) \cap Held(record) = {}
    BY OwnersAreApart
  <2>3. HeldBy(ReadersIn(reader_queue)) \cap Held(record) = {}
    BY <2>2 DEF HeldBy
  <2>4. heap' = HeldBy(ReadersIn(reader_queue')) \cup Held(record')
    BY <1>0, <1>a, <2>1, <2>3
  <2> QED
    BY <2>1, <2>4 DEF RecordIsDelivered, HeapIsHeld
<1>5. CASE ReaderMgrDestroy
  <2>1. RecordIsDelivered'
    BY <1>0, <1>5 DEF RecordIsDelivered, DeliveredFrom, ReaderMgrDestroy
  <2> QED
    BY <1>5, <2>1 DEF ReaderMgrDestroy, HeapIsHeld
<1>6. ASSUME NEW batch \in Batches, Add(batch)
      PROVE  UNCHANGED <<exported, reader_queue, mgr_status, record, heap>>
  BY <1>6 DEF Add
<1>7. CreateNext => UNCHANGED <<exported, reader_queue, mgr_status, record, heap>>
  BY DEF CreateNext
<1>8. UNCHANGED reader_vars => UNCHANGED <<exported, reader_queue, mgr_status, record, heap>>
  BY DEF reader_vars
<1> QED
  BY <1>1, <1>2, <1>3, <1>4, <1>5, <1>6, <1>7, <1>8 DEF ReaderMgrNext

LEMMA ProgressInductive ==
  /\ ReaderMgrInit => Progress
  /\ IInv /\ Places /\ Progress /\ [ReaderMgrNext]_reader_vars => Progress'
<1>1. ReaderMgrInit => Progress
  <2>1. SUFFICES ASSUME ReaderMgrInit PROVE Progress
    OBVIOUS
  <2>2. /\ ReadersIn(reader_queue) = {} /\ record = NoRecord /\ heap = {}
        /\ \A in \in Files : exported[in] = <<>>
    BY <2>1 DEF ReaderMgrInit, ReadersIn
  <2>3. \A in \in Files : DeliveredFrom(in) = {}
    BY <2>2 DEF DeliveredFrom
  <2>4. \A in \in Files : Once(in)
    BY <2>2, <2>3 DEF Once
  <2>5. HeapIsHeld
    BY <2>2 DEF HeapIsHeld, HeldBy, Held, NoRecord
  <2> QED
    BY <2>2, <2>4, <2>5, OnceEach DEF Progress, RecordIsDelivered
<1>2. ASSUME IInv, Places, Progress, [ReaderMgrNext]_reader_vars
      PROVE  Progress'
  <2>1. RecordIsDelivered' /\ HeapIsHeld'
    BY <1>2, HeapInductive
  <2>2. /\ \A in \in Files : Once(in)'
        /\ \A x \in ReadersIn(reader_queue') : ReaderIsAt(x)' /\ Behind(x)'
    <3>1. ASSUME NEW batch \in Batches, Add(batch)
          PROVE  UNCHANGED <<dumps, exported, reader_queue, mgr_status>>
      BY <3>1 DEF Add
    <3>2. CreateNext \/ RecordClear \/ UNCHANGED reader_vars =>
            UNCHANGED <<dumps, exported, reader_queue, mgr_status>>
      BY DEF CreateNext, RecordClear, reader_vars
    <3>3. ReaderMgrDestroy =>
            /\ UNCHANGED <<dumps, exported>>
            /\ reader_queue' = <<>> /\ mgr_status' = "destroyed"
      BY DEF ReaderMgrDestroy
    <3> QED
      BY <1>2, <3>1, <3>2, <3>3, QuietKeepsOnce, InsertKeepsOnce, ExportKeepsOnce DEF ReaderMgrNext
  <2>3. DeliveredExactlyOnce'
    <3>1. DeliveredExactlyOnce' <=> (\A in \in Files : Once(in))'
      BY OnceEach, PTL
    <3> QED
      BY <2>2, <3>1
  <2> QED
    BY <2>1, <2>2, <2>3 DEF Progress
<1> QED
  BY <1>1, <1>2

\* Every entry read from a dump has one owner until it is freed, and every one
\* that matches is delivered exactly once, in the order of its dump: for any
\* files and contents, whatever the merge does with the readers.
THEOREM EntriesDelivered == ReaderMgrSpec => []EntriesAreDelivered
<1>1. IInv /\ Places /\ Progress => EntriesAreDelivered
  <2>1. SUFFICES ASSUME IInv, Places, Progress PROVE EntriesAreDelivered
    OBVIOUS
  <2>2. /\ \A i, j \in 1..Len(reader_queue) : i # j =>
             Held(reader_queue[i]) \cap Held(reader_queue[j]) = {}
        /\ \A i \in 1..Len(reader_queue) : Held(reader_queue[i]) \cap Held(record) = {}
    BY <2>1, OwnersAreApart DEF ReadersIn
  <2> DEFINE holds == UNION {Held(reader_queue[i]) : i \in 1..Len(reader_queue)}
  <2>3. HeldBy(ReadersIn(reader_queue)) = holds
    BY DEF HeldBy, ReadersIn
  <2>4. mgr_status # "destroyed" =>
          heap = holds \cup Held(record)
    <3>1. HeapIsHeld
      BY <2>1 DEF Progress
    <3> HIDE DEF holds
    <3> QED
      BY <2>3, <3>1 DEF HeapIsHeld
  <2>5. EntriesHaveOneOwner
    <3>1. ASSUME NEW i \in 1..Len(reader_queue)
          PROVE  /\ Held(reader_queue[i]) \cap Held(record) = {}
                 /\ \A j \in 1..Len(reader_queue) : i # j =>
                      Held(reader_queue[i]) \cap Held(reader_queue[j]) = {}
      BY <2>2
    <3> QED
      BY <2>4, <3>1 DEF EntriesHaveOneOwner
  <2> QED
    BY <2>1, <2>5 DEF EntriesAreDelivered, Progress
<1> QED
  BY IInvInductive, PlacesInductive, ProgressInductive, <1>1, PTL DEF ReaderMgrSpec

-----------------------------------------------------------------------------
(* Positions                                                               *)

\* PositionsAreRight for one record.
PositionIsRight(in, rec) ==
  LET items == dumps[in].items
      last == \A j \in DOMAIN items : j > rec.bd_entry => items[j].kind = "unparsed"
      first == \A j \in 1..(rec.bd_entry - 1) : ~ IsEntry(items, j)
  IN  IF rec.bd_entry = 0 THEN rec.dump_pos = "END"
      ELSE /\ rec.dump_pos = "END" <=> last
           /\ rec.dump_pos = "START" <=> first /\ ~ last

\* The record that goes out claims the right position.
LEMMA NewPosition ==
  ASSUME IInv, Places, Progress, ExportValid \/ ExportLast
  PROVE  PositionIsRight(record'.input, record')
<1> DEFINE head == reader_queue[1]
           f == head.input
           next == ReadNewData(head, dumps[f])
           items == dumps[f].items
           last == \A j \in DOMAIN items : j > head.bd_entry => items[j].kind = "unparsed"
           first == \A j \in 1..(head.bd_entry - 1) : ~ IsEntry(items, j)
           discarded(r) == r.successful_read - r.valid_read
           atEnd == next.status = "END_OF_DUMP" /\ discarded(next) = discarded(head)
<1>1. /\ head \in Readers /\ head \in ReadersIn(reader_queue)
      /\ record'.input = f
      /\ record'.bd_entry = head.bd_entry
      /\ \/ /\ head.status = "VALID_ENTRY"
            /\ record'.dump_pos = IF atEnd THEN "END" ELSE DumpPos(head)
         \/ /\ head.status # "VALID_ENTRY"
            /\ record'.dump_pos = "END"
  BY ExportEffect
<1>2. ReaderIsAt(head)
  BY <1>1 DEF Progress
<1>3. dumps \in Dumps
  BY DEF IInv
<1> HIDE DEF head
<1>4. CASE head.status = "VALID_ENTRY"
  <2>1. head.bd_entry = head.pos /\ head.bd_entry > 0
    BY <1>4, ExportKeepsUp, <1>2 DEF head, ReaderIsAt
  <2>2. atEnd <=> last
    BY <1>1, <1>2, <1>3, <1>4, <2>1, EndIsSeen
  <2>3. DumpPos(head) = IF first THEN "START" ELSE "MIDDLE"
    BY <1>1, <1>2, <1>3, <1>4, <2>1, FirstIsSeen
  <2>4. record'.dump_pos = IF last THEN "END" ELSE IF first THEN "START" ELSE "MIDDLE"
    <3> HIDE DEF atEnd, last, first
    <3> QED
      BY <1>1, <1>4, <2>2, <2>3
  <2>5. head.bd_entry # 0 /\ head.bd_entry \in Nat
    BY <1>1, <2>1 DEF Readers
  <2> DEFINE bd_entry == record'.bd_entry
  <2>6. /\ last = (\A j \in DOMAIN items : j > bd_entry => items[j].kind = "unparsed")
        /\ first = (\A j \in 1..(bd_entry - 1) : ~ IsEntry(items, j))
        /\ bd_entry # 0
    BY <1>1, <2>5
  <2> QED
    BY <1>1, <2>4, <2>6 DEF PositionIsRight
<1>5. CASE head.status # "VALID_ENTRY"
  <2>1. head.bd_entry = 0
    BY <1>2, <1>5 DEF ReaderIsAt
  <2> QED
    BY <1>1, <1>5, <2>1 DEF PositionIsRight
<1> QED
  BY <1>4, <1>5

LEMMA PositionsInductive ==
  /\ ReaderMgrInit => PositionsAreRight
  /\ IInv /\ Places /\ Progress /\ PositionsAreRight /\ [ReaderMgrNext]_reader_vars
       => PositionsAreRight'
<1>1. ReaderMgrInit => PositionsAreRight
  BY DEF ReaderMgrInit, PositionsAreRight
<1>2. ASSUME IInv, Places, Progress, PositionsAreRight, [ReaderMgrNext]_reader_vars
      PROVE  PositionsAreRight'
  <2>1. CASE UNCHANGED <<dumps, exported>>
    BY <1>2, <2>1 DEF PositionsAreRight
  <2>2. CASE ExportValid \/ ExportLast
    <3> DEFINE f == record'.input
    <3>1. /\ f \in Files /\ record' \in ExportedRecords
          /\ exported' = [exported EXCEPT ![f] = Append(@, record')]
          /\ dumps' = dumps
      <4>1. /\ reader_queue[1] \in Readers /\ record'.input = reader_queue[1].input
            /\ record' \in ExportedRecords
            /\ exported' = [exported EXCEPT ![reader_queue[1].input] = Append(@, record')]
            /\ dumps' = dumps
        BY <1>2, <2>2, ExportEffect
      <4> QED
        BY <4>1 DEF Readers
    <3>2. /\ \A in \in Files \ {f} : exported'[in] = exported[in]
          /\ \A k \in DOMAIN exported'[f] :
               \/ k \in DOMAIN exported[f] /\ exported'[f][k] = exported[f][k]
               \/ k = Len(exported[f]) + 1 /\ exported'[f][k] = record'
      BY <1>2, <3>1, ExportedGrows
    <3>3. PositionIsRight(f, record')
      BY <1>2, <2>2, NewPosition
    <3>4. \A in \in Files : \A k \in DOMAIN exported[in] :
            PositionIsRight(in, exported[in][k])
      <4>1. \A in \in Files : DOMAIN exported[in] = 1..Len(exported[in])
        BY <1>2, LenProperties DEF Places
      <4> QED
        BY <1>2, <4>1 DEF PositionsAreRight, PositionIsRight
    <3> HIDE DEF f
    <3>5. \A in \in Files : \A k \in DOMAIN exported'[in] :
            PositionIsRight(in, exported'[in][k])
      BY <3>2, <3>3, <3>4
    <3>6. \A in \in Files : DOMAIN exported'[in] = 1..Len(exported'[in])
      <4>1. exported' \in [Files -> Seq(ExportedRecords)]
        BY <1>2, PlacesInductive DEF Places
      <4> QED
        BY <4>1, LenProperties
    <3> QED
      BY <3>1, <3>5, <3>6 DEF PositionsAreRight, PositionIsRight
  <2>3. ASSUME NEW batch \in Batches, Add(batch)
        PROVE  UNCHANGED <<dumps, exported>>
    BY <2>3 DEF Add
  <2>4. CreateNext \/ InsertNext \/ RecordClear \/ ReaderMgrDestroy \/ UNCHANGED reader_vars =>
          UNCHANGED <<dumps, exported>>
    BY DEF CreateNext, InsertNext, RecordClear, ReaderMgrDestroy, reader_vars
  <2> QED
    BY <1>2, <2>1, <2>2, <2>3, <2>4 DEF ReaderMgrNext
<1> QED
  BY <1>1, <1>2

\* The position in its dump that a record claims is right, whatever the dump
\* contains and whatever the filters drop of it.
THEOREM Positions == ReaderMgrSpec => []PositionsAreRight
BY IInvInductive, PlacesInductive, ProgressInductive, PositionsInductive, PTL DEF ReaderMgrSpec

-----------------------------------------------------------------------------
(* The rib period                                                          *)

\* A corrupted dump of the source came up.
WasReset(s) ==
  \E in \in Files : in.source = s
    /\ \E k \in DOMAIN exported[in] : ResetsPeriod(exported[in][k])

\* The time kept for a source is that of a RIB taken from it, or the 0 of a
\* reset; without a reset it is the time of the latest.
LastTsIsRight(s) ==
  /\ mgr_status # "destroyed" =>
       \/ last_ts[s] = -1
       \/ last_ts[s] = 0 /\ WasReset(s)
       \/ \E c \in RibsOf(s) \cap Taken : c.epoch_filetime = last_ts[s]
  /\ ~ WasReset(s) => \A a \in RibsOf(s) \cap Taken : a.epoch_filetime <= last_ts[s]

\* The inductive invariant behind RibPeriodIsKept.
RibsInv ==
  /\ rib_period # 0 => \A s \in SourcesOf : LastTsIsRight(s)
  /\ RibsKeepTheirDistance
  /\ RibsDroppedForAReason

LEMMA TakenAre ==
  Taken = {in \in offered :
             \/ exported[in] # <<>>
             \/ in \in InputsOf(reader_queue)
             \/ in \in InputsOf(tmp_readers)}
BY DEF Taken, InputsOf, ReadersIn

LEMMA TakenAreNext ==
  Taken' = {in \in offered' :
             \/ exported'[in] # <<>>
             \/ in \in InputsOf(reader_queue')
             \/ in \in InputsOf(tmp_readers')}
BY DEF Taken, InputsOf, ReadersIn

\* Only the first loop of reader_mgr_add takes a file, and only the end of the
\* manager forgets one.
LEMMA TakenGrows ==
  ASSUME IInv, Places, [ReaderMgrNext]_reader_vars
  PROVE  /\ CreateNext =>
              Taken' = Taken \cup (IF PeriodCheck(Head(adding)) THEN {Head(adding)} ELSE {})
         /\ ReaderMgrDestroy => Taken' \subseteq Taken
         /\ ~ CreateNext /\ ~ ReaderMgrDestroy => Taken' = Taken
<1> USE TakenAre, TakenAreNext
<1>1. ASSUME CreateNext
      PROVE  Taken' = Taken \cup (IF PeriodCheck(Head(adding)) THEN {Head(adding)} ELSE {})
  <2> DEFINE in == Head(adding)
  <2>1. /\ in \in offered
        /\ ReadersIn(tmp_readers') =
             ReadersIn(tmp_readers)
               \cup (IF PeriodCheck(in) THEN {ReaderCreate(in)} ELSE {})
        /\ UNCHANGED <<reader_queue, exported, offered>>
    BY <1>1, CreateEffect
  <2> HIDE DEF in
  <2>2. ReaderCreate(in).input = in
    BY DEF ReaderCreate
  <2>3. InputsOf(tmp_readers') =
          InputsOf(tmp_readers) \cup (IF PeriodCheck(in) THEN {in} ELSE {})
    BY <2>1, <2>2 DEF InputsOf
  <2>4. Taken' = Taken \cup (IF PeriodCheck(in) THEN {in} ELSE {})
    BY <2>1, <2>3
  <2> QED
    BY <2>4 DEF in
<1>2. ASSUME NEW batch \in Batches, Add(batch)
      PROVE  Taken' = Taken
  <2>1. /\ Range(batch) \subseteq Files
        /\ Range(batch) \cap offered = {}
        /\ offered' = offered \cup Range(batch)
        /\ UNCHANGED <<tmp_readers, reader_queue, exported>>
        /\ ReadersIn(tmp_readers) = {} /\ ReadersIn(reader_queue) = {}
    BY <1>2, AddEffect
  <2>2. InputsOf(tmp_readers) = {} /\ InputsOf(reader_queue) = {}
    BY <2>1 DEF InputsOf
  <2>3. \A in \in Range(batch) : exported[in] = <<>>
    BY <2>1 DEF Places
  <2> QED
    BY <2>1, <2>2, <2>3
<1>3. ASSUME InsertNext
      PROVE  Taken' = Taken
  <2> DEFINE new == tmp_readers[1]
             r == ReadNewData(new, dumps[new.input])
  <2>1. /\ ReadersIn(tmp_readers) = ReadersIn(tmp_readers') \cup {new}
        /\ r.input = new.input
        /\ ReadersIn(reader_queue') = ReadersIn(reader_queue) \cup {r}
        /\ UNCHANGED <<exported, offered>>
    BY <1>3, InsertEffect
  <2> HIDE DEF new, r
  <2>2. /\ InputsOf(tmp_readers) = InputsOf(tmp_readers') \cup {new.input}
        /\ InputsOf(reader_queue') = InputsOf(reader_queue) \cup {new.input}
    BY <2>1 DEF InputsOf
  <2> QED
    BY <2>1, <2>2
<1>4. ASSUME ExportValid \/ ExportLast
      PROVE  Taken' = Taken
  <2> DEFINE head == reader_queue[1]
             next == ReadNewData(head, dumps[head.input])
             rest == ReadersIn(Tail(reader_queue))
  <2>1. /\ head \in Readers
        /\ ReadersIn(reader_queue) = rest \cup {head}
        /\ record' \in ExportedRecords
        /\ exported' = [exported EXCEPT ![head.input] = Append(@, record')]
        /\ UNCHANGED <<tmp_readers, offered>>
        /\ \/ ReadersIn(reader_queue') = rest
           \/ ReadersIn(reader_queue') = rest \cup {next} /\ next.input = head.input
    <3> HIDE DEF head, next, rest
    <3> QED
      BY <1>4, ExportEffect DEF head, next, rest
  <2> HIDE DEF head, next, rest
  <2>2. head.input \in Files
    BY <2>1 DEF Readers
  <2>3. /\ InputsOf(reader_queue) = {x.input : x \in rest} \cup {head.input}
        /\ \/ InputsOf(reader_queue') = {x.input : x \in rest}
           \/ InputsOf(reader_queue') = {x.input : x \in rest} \cup {head.input}
    BY <2>1 DEF InputsOf
  <2>4. /\ \A in \in Files \ {head.input} : exported'[in] = exported[in]
        /\ exported'[head.input] # <<>>
    BY <2>1, <2>2, ExportedGrows
  <2>5. offered \subseteq Files
    BY DEF Places
  <2> QED
    BY <2>1, <2>3, <2>4, <2>5
<1>5. ASSUME RecordClear \/ UNCHANGED reader_vars
      PROVE  Taken' = Taken
  <2>1. UNCHANGED <<tmp_readers, reader_queue, exported, offered>>
    BY <1>5 DEF RecordClear, reader_vars
  <2> QED
    BY <2>1
<1>6. ASSUME ReaderMgrDestroy
      PROVE  Taken' \subseteq Taken
  <2>1. /\ UNCHANGED <<tmp_readers, exported, offered>> /\ reader_queue' = <<>>
    BY <1>6 DEF ReaderMgrDestroy
  <2>2. InputsOf(reader_queue') = {}
    BY <2>1 DEF InputsOf, ReadersIn
  <2> QED
    BY <2>1, <2>2
<1> QED
  BY <1>1, <1>2, <1>3, <1>4, <1>5, <1>6 DEF ReaderMgrNext

\* RibsKeepTheirDistance and RibsDroppedForAReason for one source.
Apart(s) ==
  \/ WasReset(s)
  \/ \A a, b \in RibsOf(s) \cap Taken :
       \/ a.epoch_filetime >= b.epoch_filetime
       \/ b.epoch_filetime >= a.epoch_filetime + rib_period

Reasoned(s) ==
  mgr_status # "destroyed" =>
    \A b \in RibsOf(s) \cap offered :
      \/ b \in Taken \cup Range(adding)
      \/ b.epoch_filetime < rib_period
      \/ \E a \in RibsOf(s) \cap Taken : b.epoch_filetime < a.epoch_filetime + rib_period

LEMMA RibsInvEach ==
  RibsInv <=> (rib_period # 0 =>
                 \A s \in SourcesOf : LastTsIsRight(s) /\ Apart(s) /\ Reasoned(s))
BY DEF RibsInv, RibsKeepTheirDistance, RibsDroppedForAReason, Apart, Reasoned, WasReset

\* A round of the first loop: a RIB that passes is a period away from those
\* taken, one that does not has a neighbour.
LEMMA CreateKeepsRibs ==
  ASSUME IInv, Places, CreateNext, rib_period # 0, NEW s \in SourcesOf,
         LastTsIsRight(s), Apart(s), Reasoned(s)
  PROVE  LastTsIsRight(s)' /\ Apart(s)' /\ Reasoned(s)'
<1> DEFINE in == Head(adding)
           ts == last_ts[s]
<1>1. /\ in \in Files /\ in \in offered
      /\ Range(adding) = Range(adding') \cup {in}
      /\ last_ts' = LastTsAfter(in)
      /\ mgr_status # "destroyed"
      /\ UNCHANGED <<mgr_status, exported, offered>>
  BY CreateEffect
<1>2. Taken' = Taken \cup (IF PeriodCheck(in) THEN {in} ELSE {})
  BY TakenGrows DEF ReaderMgrNext
<1>3. WasReset(s)' <=> WasReset(s)
  BY <1>1 DEF WasReset
<1>4. /\ \A a \in Files : a.epoch_filetime \in Nat
      /\ rib_period \in Nat
      /\ last_ts \in [SourcesOf -> Nat \cup {-1}]
      /\ in.source \in SourcesOf
  BY <1>1, ReaderMgrAssumption DEF IInv, TypeOK, SourcesOf
<1>5. RibsOf(s) \subseteq Files /\ RibsOf(s)' = RibsOf(s)
  BY DEF RibsOf
<1>6. ts \in Nat \cup {-1}
  BY <1>4
<1> HIDE DEF in
<1>7. CASE in \notin RibsOf(s)
  <2>1. RibsOf(s) \cap Taken' = RibsOf(s) \cap Taken
    BY <1>2, <1>7
  <2>2. last_ts'[s] = last_ts[s]
    BY <1>1, <1>4, <1>7 DEF LastTsAfter, PeriodApplies, RibsOf
  <2>3. LastTsIsRight(s)'
    BY <1>1, <1>3, <1>5, <2>1, <2>2 DEF LastTsIsRight
  <2>4. Apart(s)'
    BY <1>3, <1>5, <2>1 DEF Apart
  <2>5. Reasoned(s)'
    <3>1. ASSUME NEW b \in RibsOf(s) \cap offered
          PROVE  \/ b \in Taken' \cup Range(adding')
                 \/ b.epoch_filetime < rib_period
                 \/ \E a \in RibsOf(s) \cap Taken' :
                      b.epoch_filetime < a.epoch_filetime + rib_period
      BY <1>1, <1>2, <1>7, <2>1, <3>1 DEF Reasoned
    <3> QED
      BY <1>1, <1>5, <3>1 DEF Reasoned
  <2> QED
    BY <2>3, <2>4, <2>5
<1>8. CASE in \in RibsOf(s) /\ ~ PeriodCheck(in)
  <2>1. Taken' = Taken /\ last_ts' = last_ts
    BY <1>1, <1>2, <1>8 DEF LastTsAfter
  <2>2. LastTsIsRight(s)' /\ Apart(s)'
    BY <1>1, <1>3, <1>5, <2>1 DEF LastTsIsRight, Apart
  <2>3. ts # -1 /\ in.epoch_filetime < ts + rib_period
    BY <1>1, <1>4, <1>6, <1>8 DEF PeriodCheck, RibsOf
  <2>4. \/ in.epoch_filetime < rib_period
        \/ \E a \in RibsOf(s) \cap Taken : in.epoch_filetime < a.epoch_filetime + rib_period
    BY <1>1, <1>4, <2>3 DEF LastTsIsRight
  <2>5. ASSUME NEW b \in RibsOf(s) \cap offered
        PROVE  \/ b \in Taken \cup Range(adding')
               \/ b.epoch_filetime < rib_period
               \/ \E a \in RibsOf(s) \cap Taken :
                    b.epoch_filetime < a.epoch_filetime + rib_period
    <3>1. CASE b = in
      BY <2>4, <3>1
    <3>2. CASE b # in
      <4>1. b \in Range(adding) => b \in Range(adding')
        BY <1>1, <3>2
      <4> QED
        BY <1>1, <2>5, <4>1 DEF Reasoned
    <3> QED
      BY <3>1, <3>2
  <2>6. Reasoned(s)'
    BY <1>1, <1>5, <2>1, <2>5 DEF Reasoned
  <2> QED
    BY <2>2, <2>6
<1>9. CASE in \in RibsOf(s) /\ PeriodCheck(in)
  <2>1. /\ Taken' = Taken \cup {in}
        /\ in.source = s /\ in.filetype = "ribs"
    BY <1>2, <1>9 DEF RibsOf
  <2>2. last_ts'[s] = in.epoch_filetime
    BY <1>1, <1>4, <1>9, <2>1 DEF LastTsAfter, PeriodApplies
  <2>3. \/ ts = -1 \/ ts = in.epoch_filetime
        \/ in.epoch_filetime >= ts + rib_period
    BY <1>9, <2>1 DEF PeriodCheck, PeriodApplies
  <2>4. ASSUME ~ WasReset(s), NEW a \in RibsOf(s) \cap Taken
        PROVE  a.epoch_filetime <= ts /\ a.epoch_filetime \in Nat /\ ts \in Nat
               /\ a.epoch_filetime <= in.epoch_filetime
    <3>1. a.epoch_filetime <= ts /\ a.epoch_filetime \in Nat
      BY <1>4, <1>5, <2>4 DEF LastTsIsRight
    <3>2. in.epoch_filetime \in Nat
      BY <1>1, <1>4
    <3> HIDE DEF ts
    <3> QED
      BY <1>4, <1>6, <2>3, <3>1, <3>2
  <2>5. LastTsIsRight(s)'
    <3>1. in \in RibsOf(s) \cap Taken'
      BY <1>9, <2>1
    <3>2. ~ WasReset(s) => \A a \in RibsOf(s) \cap Taken' :
                             a.epoch_filetime <= in.epoch_filetime
      BY <1>1, <1>4, <2>1, <2>4
    <3> QED
      BY <1>3, <1>5, <2>2, <3>1, <3>2 DEF LastTsIsRight
  <2>6. Apart(s)'
    <3>1. SUFFICES ASSUME ~ WasReset(s),
                          NEW a \in RibsOf(s) \cap Taken', NEW b \in RibsOf(s) \cap Taken'
                   PROVE  \/ a.epoch_filetime >= b.epoch_filetime
                          \/ b.epoch_filetime >= a.epoch_filetime + rib_period
      BY <1>3, <1>5 DEF Apart
    <3>2. a.epoch_filetime \in Nat /\ b.epoch_filetime \in Nat
      BY <1>4, <1>5
    <3>3. CASE a \in Taken /\ b \in Taken
      BY <3>1, <3>3 DEF Apart
    <3>4. CASE a = in
      BY <2>1, <2>4, <3>1, <3>2, <3>4
    <3>5. CASE b = in /\ a \in Taken
      <4>1. a.epoch_filetime <= ts /\ ts \in Nat
        BY <2>4, <3>1, <3>5
      <4>2. CASE ts = in.epoch_filetime
        <5>1. PICK c \in RibsOf(s) \cap Taken : c.epoch_filetime = ts
          BY <1>1, <3>1, <4>1 DEF LastTsIsRight
        <5>2. \/ a.epoch_filetime >= c.epoch_filetime
              \/ c.epoch_filetime >= a.epoch_filetime + rib_period
          BY <3>1, <3>5 DEF Apart
        <5> QED
          BY <3>5, <4>2, <5>1, <5>2
      <4>3. CASE in.epoch_filetime >= ts + rib_period
        <5> HIDE DEF ts
        <5> QED
          BY <1>4, <3>2, <3>5, <4>1, <4>3
      <4> QED
        BY <2>3, <4>1, <4>2, <4>3
    <3> QED
      BY <2>1, <3>1, <3>3, <3>4, <3>5
  <2>7. Reasoned(s)'
    <3>1. ASSUME NEW b \in RibsOf(s) \cap offered
          PROVE  \/ b \in Taken' \cup Range(adding')
                 \/ b.epoch_filetime < rib_period
                 \/ \E a \in RibsOf(s) \cap Taken' :
                      b.epoch_filetime < a.epoch_filetime + rib_period
      BY <1>1, <2>1, <3>1 DEF Reasoned
    <3> QED
      BY <1>1, <1>5, <3>1 DEF Reasoned
  <2> QED
    BY <2>5, <2>6, <2>7
<1> QED
  BY <1>7, <1>8, <1>9

\* A corrupted record resets the time that is kept; any other export keeps it.
LEMMA ExportKeepsRibs ==
  ASSUME IInv, Places, ExportValid \/ ExportLast, rib_period # 0, NEW s \in SourcesOf,
         LastTsIsRight(s), Apart(s), Reasoned(s)
  PROVE  LastTsIsRight(s)' /\ Apart(s)' /\ Reasoned(s)'
<1> DEFINE f == reader_queue[1].input
<1>1. /\ f \in Files /\ record' \in ExportedRecords
      /\ exported' = [exported EXCEPT ![f] = Append(@, record')]
      /\ last_ts' = IF rib_period # 0 /\ ResetsPeriod(record')
                    THEN [last_ts EXCEPT ![f.source] = 0] ELSE last_ts
      /\ mgr_status # "destroyed"
      /\ UNCHANGED <<adding, offered>>
  BY ExportEffect DEF Readers
<1>2. Taken' = Taken
  <2>1. ~ CreateNext /\ ~ ReaderMgrDestroy
    <3>1. adding = <<>> /\ mgr_status' # "destroyed"
      BY ExportEffect DEF ExportValid, ExportLast, BetweenCalls
    <3> QED
      BY <3>1 DEF CreateNext, ReaderMgrDestroy
  <2> QED
    BY <2>1, TakenGrows DEF ReaderMgrNext
<1> HIDE DEF f
<1>3. /\ \A in \in Files \ {f} : exported'[in] = exported[in]
      /\ Len(exported[f]) \in Nat /\ DOMAIN exported[f] = 1..Len(exported[f])
  BY <1>1, ExportedGrows
<1>4. /\ \A k \in DOMAIN exported[f] : k \in DOMAIN exported'[f]
                                       /\ exported'[f][k] = exported[f][k]
      /\ Len(exported[f]) + 1 \in DOMAIN exported'[f]
      /\ exported'[f][Len(exported[f]) + 1] = record'
  <2>1. exported[f] \in Seq(ExportedRecords)
        /\ exported'[f] = Append(exported[f], record')
    BY <1>1 DEF Places
  <2>2. DOMAIN Append(exported[f], record') = 1..(Len(exported[f]) + 1)
    BY <1>1, <2>1, AppendProperties, LenProperties
  <2> QED
    BY <1>1, <1>3, <2>1, <2>2, AppendProperties
<1>5. WasReset(s) => WasReset(s)'
  BY <1>3, <1>4 DEF WasReset
<1>6. last_ts'[s] = last_ts[s] \/ (last_ts'[s] = 0 /\ WasReset(s)')
  <2>1. CASE ResetsPeriod(record') /\ s = f.source
    <3>1. last_ts'[s] = 0
      BY <1>1, <2>1 DEF IInv, TypeOK
    <3>2. WasReset(s)'
      BY <1>1, <1>4, <2>1 DEF WasReset
    <3> QED
      BY <3>1, <3>2
  <2>2. CASE ~ (ResetsPeriod(record') /\ s = f.source)
    BY <1>1, <2>2 DEF IInv, TypeOK
  <2> QED
    BY <2>1, <2>2
<1>7. RibsOf(s)' = RibsOf(s)
  BY DEF RibsOf
<1>8. LastTsIsRight(s)'
  BY <1>1, <1>2, <1>5, <1>6, <1>7 DEF LastTsIsRight
<1>9. Apart(s)' /\ Reasoned(s)'
  BY <1>1, <1>2, <1>5, <1>7 DEF Apart, Reasoned
<1> QED
  BY <1>8, <1>9

LEMMA RibsInductive ==
  /\ ReaderMgrInit => RibsInv
  /\ IInv /\ Places /\ RibsInv /\ [ReaderMgrNext]_reader_vars => RibsInv'
<1>1. ReaderMgrInit => RibsInv
  <2>1. SUFFICES ASSUME ReaderMgrInit PROVE RibsInv
    OBVIOUS
  <2>2. /\ Taken = {} /\ offered = {}
        /\ \A s \in SourcesOf : last_ts[s] = -1
    BY <2>1 DEF ReaderMgrInit, Taken
  <2>3. \A s \in SourcesOf : LastTsIsRight(s) /\ Apart(s) /\ Reasoned(s)
    BY <2>2 DEF LastTsIsRight, Apart, Reasoned
  <2> QED
    BY <2>3, RibsInvEach
<1>2. ASSUME IInv, Places, RibsInv, [ReaderMgrNext]_reader_vars
      PROVE  RibsInv'
  <2>1. ASSUME rib_period # 0, NEW s \in SourcesOf
        PROVE  LastTsIsRight(s)' /\ Apart(s)' /\ Reasoned(s)'
    <3>1. LastTsIsRight(s) /\ Apart(s) /\ Reasoned(s)
      BY <1>2, <2>1, RibsInvEach
    <3>2. RibsOf(s)' = RibsOf(s)
      BY DEF RibsOf
    <3>3. CASE CreateNext
      BY <1>2, <2>1, <3>1, <3>3, CreateKeepsRibs
    <3>4. CASE ExportValid \/ ExportLast
      BY <1>2, <2>1, <3>1, <3>4, ExportKeepsRibs
    <3>5. CASE ReaderMgrDestroy
      <4>1. Taken' \subseteq Taken /\ mgr_status' = "destroyed"
            /\ UNCHANGED <<exported, last_ts>>
        BY <1>2, <3>5, TakenGrows DEF ReaderMgrDestroy
      <4>2. WasReset(s)' <=> WasReset(s)
        BY <4>1 DEF WasReset
      <4> QED
        BY <3>1, <3>2, <4>1, <4>2 DEF LastTsIsRight, Apart, Reasoned
    <3>6. ASSUME ~ CreateNext, ~ ReaderMgrDestroy, UNCHANGED <<exported, last_ts, mgr_status, offered, adding>>
          PROVE  LastTsIsRight(s)' /\ Apart(s)' /\ Reasoned(s)'
      <4>1. Taken' = Taken
        BY <1>2, <3>6, TakenGrows
      <4>2. WasReset(s)' <=> WasReset(s)
        BY <3>6 DEF WasReset
      <4> QED
        BY <3>1, <3>2, <3>6, <4>1, <4>2 DEF LastTsIsRight, Apart, Reasoned
    <3>7. CASE InsertNext
      <4>1. Taken' = Taken
        <5>1. ~ CreateNext /\ ~ ReaderMgrDestroy
          BY <3>7 DEF CreateNext, InsertNext, ReaderMgrDestroy
        <5> QED
          BY <1>2, <5>1, TakenGrows
      <4>2. /\ UNCHANGED <<exported, last_ts, offered, adding>>
            /\ mgr_status # "destroyed"
        BY <1>2, <3>7, InsertEffect
      <4>3. WasReset(s)' <=> WasReset(s)
        BY <4>2 DEF WasReset
      <4> QED
        BY <3>1, <3>2, <4>1, <4>2, <4>3 DEF LastTsIsRight, Apart, Reasoned
    <3>8. ASSUME NEW batch \in Batches, Add(batch)
          PROVE  LastTsIsRight(s)' /\ Apart(s)' /\ Reasoned(s)'
      <4>1. Taken' = Taken
        <5>1. ~ CreateNext /\ ~ ReaderMgrDestroy
          BY <3>8 DEF CreateNext, Add, BetweenCalls, ReaderMgrDestroy
        <5> QED
          BY <1>2, <5>1, TakenGrows
      <4>2. /\ adding = <<>> /\ adding' = batch
            /\ offered' = offered \cup Range(batch)
            /\ mgr_status # "destroyed"
            /\ UNCHANGED <<exported, last_ts, mgr_status>>
        BY <1>2, <3>8, AddEffect
      <4>3. WasReset(s)' <=> WasReset(s)
        BY <4>2 DEF WasReset
      <4>4. LastTsIsRight(s)' /\ Apart(s)'
        BY <3>1, <3>2, <4>1, <4>2, <4>3 DEF LastTsIsRight, Apart
      <4>5. Range(adding) = {}
        BY <4>2 DEF Range
      <4>6. Reasoned(s)'
        BY <3>1, <3>2, <4>1, <4>2, <4>5 DEF Reasoned
      <4> QED
        BY <4>4, <4>6
    <3>9. CASE RecordClear \/ UNCHANGED reader_vars
      <4>1. UNCHANGED <<exported, last_ts, mgr_status, offered, adding>>
        BY <3>9 DEF RecordClear, reader_vars
      <4> QED
        BY <3>3, <3>5, <3>6, <4>1
    <3> QED
      BY <1>2, <3>3, <3>4, <3>5, <3>7, <3>8, <3>9 DEF ReaderMgrNext
  <2>2. RibsInv' <=> (rib_period # 0 =>
                        \A s \in SourcesOf : LastTsIsRight(s) /\ Apart(s) /\ Reasoned(s))'
    BY RibsInvEach, PTL
  <2> QED
    BY <2>1, <2>2
<1> QED
  BY <1>1, <1>2

\* The rib period is kept across batches, for any period, files and order of
\* the records, although a corrupted dump resets it behind the check's back.
THEOREM RibPeriod == ReaderMgrSpec => []RibPeriodIsKept
<1>1. RibsInv => RibPeriodIsKept
  BY DEF RibsInv, RibPeriodIsKept
<1> QED
  BY IInvInductive, PlacesInductive, RibsInductive, <1>1, PTL DEF ReaderMgrSpec

-----------------------------------------------------------------------------
(* The operators of the queue, as the managers name them                   *)

LEMMA SamePush == \A q, in : IM!PushSortedInput(q, in) = PushSortedInput(q, in)
BY DEF IM!PushSortedInput, PushSortedInput, IM!IsDuplicate, IsDuplicate, IM!SameFile, SameFile,
       IM!InsertPos, InsertPos, IM!StopsAt, StopsAt, IM!Min, Min, IM!InsertAt, InsertAt

LEMMA SameCut == \A q : /\ IM!ToProcess(q) = ToProcess(q)
                        /\ IM!Remaining(q) = Remaining(q)
                        /\ IM!LastToProcess(q) = LastToProcess(q)
<1> TAKE q
<1>1. IM!LastToProcess(q) = LastToProcess(q)
  BY DEF IM!LastToProcess, LastToProcess, IM!StartsNewBatch, StartsNewBatch,
         IM!IntervalStart, IntervalStart, IM!IntervalEnd, IntervalEnd, IM!Min, Min
<1> QED
  BY <1>1 DEF IM!ToProcess, ToProcess, IM!Remaining, Remaining

LEMMA FilesAreInputs ==
  /\ Files \subseteq IM!Input
  /\ AreInputs(Files)
<1>1. \A in \in Files : in \in Inputs({f.source : f \in Files}, Nat, Nat)
  BY BgpstreamAssumption
<1>2. AreInputs(Files)
  BY <1>1 DEF AreInputs, Inputs
<1>3. ASSUME NEW in \in Files PROVE in \in IM!Input
  <2>1. in \in [source : {f.source : f \in Files}, filetype : FileTypes,
                epoch_filetime : Nat, time_span : Nat]
    BY <1>1 DEF Inputs
  <2>2. in \in [source : {f.source : f \in Files}, filetype : FileTypes,
                epoch_filetime : {f.epoch_filetime : f \in Files},
                time_span : {f.time_span : f \in Files}]
    BY <2>1
  <2> QED
    BY <2>2 DEF IM!Input, IM!Inputs, IM!FileTypes, FileTypes
<1> QED
  BY <1>2, <1>3

-----------------------------------------------------------------------------
(* The inductive invariant                                                 *)

\* The queue of the input manager, of files that were delivered and have not
\* been offered to the reader manager.
QueueInv ==
  /\ queue \in Seq(Files)
  /\ SortedQueue(queue) /\ NoTwins(queue)
  /\ \A k \in 1..Len(queue) : queue[k] \notin offered /\ round[queue[k]] # 0
  /\ status \in {"empty", "non_empty", "destroyed"}
  /\ status = "non_empty" <=> queue # <<>>

\* A destroyed stream is not used.
LifeInv ==
  /\ pc # "idle" => bs_status = "ON"
  /\ status = "destroyed" => bs_status = "destroyed"

\* What an earlier query delivered cannot come again, and only that was offered.
RoundsInv ==
  /\ rounds \in Nat /\ round \in [Files -> Nat]
  /\ \A in \in Files : round[in] <= rounds + 1
  /\ ~ (pc = "query" /\ status = "non_empty") => \A in \in Files : round[in] <= rounds
  /\ offered \subseteq Files
  /\ \A in \in offered : round[in] # 0 /\ round[in] <= rounds

BInv == QueueInv /\ LifeInv /\ RoundsInv

\* A push of the data source.
LEMMA PushKeepsInv ==
  ASSUME BInv, NEW in \in Files, PushFile(in)
  PROVE  BInv'
<1>1. /\ pc = "query" /\ round[in] \in {0, rounds + 1}
      /\ round' = [round EXCEPT ![in] = rounds + 1]
      /\ UNCHANGED <<pc, bs_status, offered, rounds, to_process>>
      /\ status # "destroyed" /\ status' = "non_empty"
      /\ queue' = IF status = "empty" THEN <<in>> ELSE PushSortedInput(queue, in)
  BY SamePush DEF PushFile, IM!Push, own_vars, reader_vars
<1>2. /\ rounds \in Nat /\ round \in [Files -> Nat] /\ offered \subseteq Files
      /\ \A f \in Files : round[f] <= rounds + 1
      /\ \A f \in offered : round[f] # 0 /\ round[f] <= rounds
  BY DEF BInv, RoundsInv
<1>3. in \notin offered
  BY <1>1, <1>2
<1>4. RoundsInv'
  BY <1>1, <1>2, <1>3 DEF RoundsInv
<1>5. LifeInv'
  BY <1>1 DEF BInv, LifeInv
<1>6. QueueInv'
  <2>0. queue \in Seq(Files) /\ Len(queue) \in Nat
    BY LenProperties DEF BInv, QueueInv
  <2>1. /\ queue' \in Seq(Files) /\ SortedQueue(queue') /\ NoTwins(queue') /\ queue' # <<>>
        /\ \A k \in 1..Len(queue') :
             queue'[k] = in \/ \E l \in 1..Len(queue) : queue'[k] = queue[l]
    <3>1. CASE status = "empty"
      <4>1. queue' = <<in>> /\ <<in>> \in Seq(Files) /\ Len(<<in>>) = 1
        BY <1>1, <3>1
      <4> QED
        BY <4>1 DEF SortedQueue, NoTwins
    <3>2. CASE status # "empty"
      <4>1. queue' = PushSortedInput(queue, in) /\ queue # <<>>
        BY <1>1, <3>2 DEF BInv, QueueInv
      <4>2. /\ queue' \in Seq(Files) /\ SortedQueue(queue') /\ NoTwins(queue')
            /\ Len(queue') >= Len(queue)
            /\ \A k \in 1..Len(queue') :
                 queue'[k] = in \/ \E l \in 1..Len(queue) : queue'[k] = queue[l]
        <5>1. SortedQueue(queue) /\ NoTwins(queue)
          BY DEF BInv, QueueInv
        <5>2. AreInputs(Files)
          BY FilesAreInputs
        <5>3. /\ PushSortedInput(queue, in) \in Seq(Files)
              /\ SortedQueue(PushSortedInput(queue, in))
              /\ NoTwins(PushSortedInput(queue, in))
              /\ Len(PushSortedInput(queue, in)) >= Len(queue)
          BY <2>0, <5>1, <5>2, PushKeepsQueue
        <5>4. ASSUME NEW k \in 1..Len(PushSortedInput(queue, in))
              PROVE  \/ PushSortedInput(queue, in)[k] = in
                     \/ \E l \in 1..Len(queue) : PushSortedInput(queue, in)[k] = queue[l]
          BY <2>0, <5>1, <5>2, PushKeepsQueue
        <5> QED
          BY <4>1, <5>3, <5>4
      <4> QED
        BY <2>0, <4>1, <4>2
    <3> QED
      BY <3>1, <3>2
  <2>2. \A l \in 1..Len(queue) : queue[l] \in Files /\ queue[l] \notin offered /\ round[queue[l]] # 0
    BY <2>0, LenProperties DEF BInv, QueueInv
  <2>3. \A f \in Files : round[f] # 0 => round'[f] # 0
    BY <1>1, <1>2
  <2>4. round'[in] # 0
    BY <1>1, <1>2
  <2>5. \A k \in 1..Len(queue') : queue'[k] \notin offered' /\ round'[queue'[k]] # 0
    BY <1>1, <1>3, <2>1, <2>2, <2>3, <2>4
  <2> QED
    BY <1>1, <2>1, <2>5 DEF QueueInv
<1> QED
  BY <1>4, <1>5, <1>6 DEF BInv

\* The batch that is taken, as the reader manager wants it.
LEMMA BatchIsBatch ==
  ASSUME BInv
  PROVE  ToProcess(queue) \in Batches
<1> DEFINE b == ToProcess(queue)
           n == LastToProcess(queue)
<1>1. queue \in Seq(Files) /\ Len(queue) \in Nat /\ SortedQueue(queue) /\ NoTwins(queue)
  BY LenProperties DEF BInv, QueueInv
<1>2. n \in 0..Len(queue) /\ n <= max_readers
  BY <1>1, LastToProcessCuts
<1>3. b \in Seq(Files) /\ Len(b) = n /\ \A k \in 1..n : b[k] = queue[k]
  BY <1>1, CutKeepsQueue
<1> HIDE DEF b, n
<1>4. SortedQueue(b) /\ NoTwins(b)
  <2>1. \A k \in 1..n : k \in 1..Len(queue)
    BY <1>1, <1>2
  <2> QED
    BY <1>1, <1>3, <2>1 DEF SortedQueue, NoTwins
<1>5. Range(b) \cap offered = {}
  <2>1. \A k \in 1..n : b[k] \notin offered
    BY <1>1, <1>2, <1>3 DEF BInv, QueueInv
  <2>2. DOMAIN b = 1..n
    BY <1>3, LenProperties
  <2> QED
    BY <2>1, <2>2 DEF Range
<1>6. n \in 0..max_readers
  BY <1>1, <1>2, MaxReadersAssumption
<1>7. b \in [1..n -> Files]
  BY <1>3, LenProperties
<1>8. b \in UNION {[1..m -> Files] : m \in 0..max_readers}
  BY <1>6, <1>7
<1> QED
  BY <1>4, <1>5, <1>8 DEF Batches, b

\* Taking it.
LEMMA TakeKeepsInv ==
  ASSUME BInv, TakeBatch
  PROVE  BInv'
<1> DEFINE b == ToProcess(queue)
           n == LastToProcess(queue)
<1>1. /\ pc = "loop" /\ pc' = "add" /\ UNCHANGED <<bs_status, round, rounds>>
      /\ status = "non_empty" /\ queue' = Remaining(queue)
      /\ status' = IF n # 0 /\ Remaining(queue) = <<>> THEN "empty" ELSE status
      /\ offered' = offered \cup Range(b)
  BY SameCut DEF TakeBatch, IM!GetQueueToProcess, Add
<1>2. queue \in Seq(Files) /\ Len(queue) \in Nat /\ SortedQueue(queue) /\ NoTwins(queue)
      /\ queue # <<>>
  BY <1>1, LenProperties DEF BInv, QueueInv
<1>3. n \in 0..Len(queue)
  BY <1>2, LastToProcessCuts
<1>4. /\ b \in Seq(Files) /\ Len(b) = n /\ \A k \in 1..n : b[k] = queue[k]
      /\ queue' \in Seq(Files) /\ Len(queue') = Len(queue) - n
      /\ \A k \in 1..(Len(queue) - n) : queue'[k] = queue[n + k]
      /\ SortedQueue(queue') /\ NoTwins(queue')
  BY <1>1, <1>2, CutKeepsQueue
<1>5. n = 0 => queue' = queue
  BY <1>1, <1>2, SubSeqFull DEF Remaining
<1> HIDE DEF b, n
<1>6. \A x \in Range(b) : \E k \in 1..n : x = queue[k]
  <2>1. DOMAIN b = 1..n
    BY <1>4, LenProperties
  <2> QED
    BY <1>4, <2>1 DEF Range
<1>7. /\ \A k \in 1..Len(queue) : queue[k] \in Files /\ queue[k] \notin offered
                                  /\ round[queue[k]] # 0
      /\ \A f \in Files : round[f] <= rounds
  BY <1>1, <1>2, LenProperties DEF BInv, QueueInv, RoundsInv
<1>8. \A k \in 1..n : k \in 1..Len(queue)
  BY <1>2, <1>3
<1>9. \A k \in 1..(Len(queue) - n) : n + k \in 1..Len(queue) /\ n + k \notin 1..n
  BY <1>2, <1>3
<1>10. RoundsInv'
  <2>1. offered' \subseteq Files /\ \A in \in offered' : round[in] # 0 /\ round[in] <= rounds
    BY <1>1, <1>6, <1>7, <1>8 DEF BInv, RoundsInv
  <2> QED
    BY <1>1, <1>7, <2>1 DEF BInv, RoundsInv
<1>11. LifeInv'
  BY <1>1 DEF BInv, LifeInv
<1>12. QueueInv'
  <2>1. \A i, j \in 1..Len(queue) : i # j => queue[i] # queue[j]
    BY <1>2 DEF NoTwins, SameFile
  <2>2. \A k \in 1..Len(queue') : queue'[k] \notin Range(b)
    <3>1. SUFFICES ASSUME NEW k \in 1..(Len(queue) - n), queue[n + k] \in Range(b)
                   PROVE  FALSE
      BY <1>4
    <3>2. PICK j \in 1..n : queue[n + k] = queue[j]
      BY <1>6, <3>1
    <3>3. j # n + k /\ j \in 1..Len(queue) /\ n + k \in 1..Len(queue)
      BY <1>8, <1>9
    <3> QED
      BY <2>1, <3>2, <3>3
  <2>3. \A k \in 1..Len(queue') : queue'[k] \notin offered' /\ round'[queue'[k]] # 0
    <3> SUFFICES ASSUME NEW k \in 1..(Len(queue) - n)
                 PROVE  queue'[k] \notin offered' /\ round'[queue'[k]] # 0
      BY <1>4
    <3>1. n + k \in 1..Len(queue) /\ queue'[k] = queue[n + k]
      BY <1>4, <1>9
    <3>2. queue[n + k] \notin offered /\ round[queue[n + k]] # 0
      BY <1>7, <3>1
    <3>3. queue'[k] \notin Range(b)
      BY <1>4, <2>2
    <3> QED
      BY <1>1, <3>1, <3>2, <3>3
  <2>4. status' = "non_empty" <=> queue' # <<>>
    BY <1>1, <1>2, <1>5
  <2>5. status' \in {"empty", "non_empty", "destroyed"}
    BY <1>1
  <2> QED
    BY <1>4, <2>3, <2>4, <2>5 DEF QueueInv
<1> QED
  BY <1>10, <1>11, <1>12 DEF BInv

\* The files offered only change with a batch.
LEMMA OfferedStays ==
  CreateNext \/ InsertNext \/ ExportValid \/ ExportLast \/ RecordClear
    \/ ReaderMgrDestroy
  => offered' = offered
BY DEF CreateNext, InsertNext, ExportValid, ExportLast, RecordClear, ReaderMgrDestroy,
       Deliver

\* The invariant holds initially and every step preserves it.
LEMMA BInvInductive ==
  /\ Init => BInv
  /\ BInv /\ [Next]_vars => BInv'
<1>1. ASSUME Init PROVE BInv
  <2>1. /\ queue = <<>> /\ status = "empty" /\ offered = {} /\ pc = "idle"
        /\ bs_status = "ALLOCATED" /\ rounds = 0 /\ round = [in \in Files |-> 0]
    BY <1>1 DEF Init, IM!Init, ReaderMgrInit
  <2>2. queue \in Seq(Files) /\ Len(queue) = 0
    BY <2>1
  <2>3. QueueInv
    BY <2>1, <2>2 DEF QueueInv, SortedQueue, NoTwins
  <2>4. LifeInv
    BY <2>1 DEF LifeInv
  <2>5. RoundsInv
    BY <2>1 DEF RoundsInv
  <2> QED
    BY <2>3, <2>4, <2>5 DEF BInv
<1>2. ASSUME BInv, [Next]_vars PROVE BInv'
  <2> USE <1>2
  <2>1. CASE Export
    <3>1. UNCHANGED <<queue, status, offered, round, rounds, bs_status>>
          /\ pc = "loop" /\ pc' = "idle"
      BY <2>1, OfferedStays DEF Export, Return, input_vars
    <3> QED
      BY <3>1 DEF BInv, QueueInv, LifeInv, RoundsInv
  <2>2. CASE TakeBatch
    BY <2>2, TakeKeepsInv
  <2>3. CASE AddReader
    <3>1. UNCHANGED <<queue, status, offered, round, rounds, bs_status, pc>>
      BY <2>3, OfferedStays DEF AddReader, own_vars, input_vars, history
    <3> QED
      BY <3>1 DEF BInv, QueueInv, LifeInv, RoundsInv
  <2>4. CASE EndAdd
    <3>1. UNCHANGED <<queue, status, offered, round, rounds, bs_status>>
          /\ pc = "add" /\ pc' = "loop"
      BY <2>4 DEF EndAdd, reader_vars, history
    <3> QED
      BY <3>1 DEF BInv, QueueInv, LifeInv, RoundsInv
  <2>5. CASE Query
    <3>1. UNCHANGED <<queue, status, offered, round, rounds, bs_status>>
          /\ pc = "loop" /\ pc' = "query" /\ status = "empty"
      BY <2>5 DEF Query, reader_vars, input_vars, history
    <3> QED
      BY <3>1 DEF BInv, QueueInv, LifeInv, RoundsInv
  <2>6. ASSUME NEW in \in Files, PushFile(in) PROVE BInv'
    BY <2>6, PushKeepsInv
  <2>7. CASE QueryEnds
    <3>1. UNCHANGED <<queue, status, offered, round, bs_status>> /\ pc = "query"
      BY <2>7 DEF QueryEnds, reader_vars, input_vars
    <3>2. \/ status = "non_empty" /\ pc' = "loop" /\ rounds' = rounds + 1
          \/ status = "empty" /\ pc' = "idle" /\ rounds' = rounds
      BY <2>7 DEF QueryEnds, Return
    <3> QED
      BY <3>1, <3>2 DEF BInv, QueueInv, LifeInv, RoundsInv
  <2>8. CASE QuerySleeps
    <3>1. UNCHANGED <<queue, status, offered, round, rounds, bs_status>>
          /\ pc = "query" /\ pc' = "sleep" /\ status = "empty"
      BY <2>8 DEF QuerySleeps, reader_vars, input_vars, history
    <3> QED
      BY <3>1 DEF BInv, QueueInv, LifeInv, RoundsInv
  <2>9. CASE SleepEnds
    <3>1. UNCHANGED <<queue, status, offered, round, rounds, bs_status>>
          /\ pc = "sleep" /\ pc' = "query"
      BY <2>9 DEF SleepEnds, reader_vars, input_vars, history
    <3> QED
      BY <3>1 DEF BInv, QueueInv, LifeInv, RoundsInv
  <2>10. CASE QueryFails
    <3>1. UNCHANGED <<queue, status, offered, round, bs_status>> /\ pc = "query" /\ pc' = "idle"
          /\ rounds' = IF status = "non_empty" THEN rounds + 1 ELSE rounds
      BY <2>10 DEF QueryFails, Return, reader_vars, input_vars
    <3> QED
      BY <3>1 DEF BInv, QueueInv, LifeInv, RoundsInv
  <2>11. CASE SetLiveMode \/ Start \/ Stop
    <3>1. UNCHANGED <<queue, status, offered, round, rounds>> /\ pc = "idle" /\ pc' = "idle"
      BY <2>11 DEF SetLiveMode, Start, Stop, Return, reader_vars, input_vars, history
    <3>2. bs_status = "destroyed" => bs_status' = "destroyed"
      BY <2>11 DEF SetLiveMode, Start, Stop
    <3> QED
      BY <3>1, <3>2 DEF BInv, QueueInv, LifeInv, RoundsInv
  <2>12. CASE Destroy
    <3>1. UNCHANGED <<offered, round, rounds>> /\ pc = "idle" /\ pc' = "idle"
          /\ queue' = <<>> /\ status' = "destroyed" /\ bs_status' = "destroyed"
      BY <2>12, OfferedStays DEF Destroy, Return, history, IM!Destroy
    <3>2. queue' \in Seq(Files) /\ Len(queue') = 0
      BY <3>1
    <3>3. QueueInv'
      BY <3>1, <3>2 DEF QueueInv, SortedQueue, NoTwins
    <3> QED
      BY <3>1, <3>3 DEF BInv, LifeInv, RoundsInv
  <2>13. CASE GetNextRecord
    <3>1. UNCHANGED <<queue, status, offered, round, rounds, bs_status>> /\ pc = "idle"
      BY <2>13, OfferedStays DEF GetNextRecord, input_vars, reader_vars, history
    <3>2. pc' = "idle" \/ (pc' = "loop" /\ bs_status = "ON")
      BY <2>13 DEF GetNextRecord, Return
    <3> QED
      BY <3>1, <3>2 DEF BInv, QueueInv, LifeInv, RoundsInv
  <2>14. ASSUME NEW in \in Files, Publish(in) PROVE BInv'
    <3>1. UNCHANGED <<queue, status, offered, round, rounds, bs_status, pc>>
      BY <2>14 DEF Publish, own_vars, input_vars, reader_vars, history
    <3> QED
      BY <3>1 DEF BInv, QueueInv, LifeInv, RoundsInv
  <2>15. CASE UNCHANGED vars
    <3>1. UNCHANGED <<queue, status, offered, round, rounds, bs_status, pc>>
      BY <2>15 DEF vars, own_vars, input_vars, reader_vars, history
    <3> QED
      BY <3>1 DEF BInv, QueueInv, LifeInv, RoundsInv
  <2> QED
    BY <2>1, <2>2, <2>3, <2>4, <2>5, <2>6, <2>7, <2>8, <2>9, <2>10, <2>11, <2>12, <2>13,
       <2>14, <2>15 DEF Next, Step, Call
<1> QED
  BY <1>1, <1>2

-----------------------------------------------------------------------------
(* The managers                                                            *)

\* A step of the stream is one of the input manager, or none.
LEMMA InputStep == [Next]_vars => [IM!Next]_(IM!vars)
<1> SUFFICES ASSUME [Next]_vars PROVE IM!Next \/ UNCHANGED IM!vars
  OBVIOUS
<1>1. CASE EndAdd
  BY <1>1 DEF EndAdd, IM!Next, IM!DestroyQueue, IM!vars
<1>2. ASSUME NEW in \in Files, PushFile(in) PROVE IM!Next
  BY <1>2, FilesAreInputs DEF PushFile, IM!Next
<1>3. CASE TakeBatch
  BY <1>3 DEF TakeBatch, IM!Next
<1>4. CASE Destroy
  BY <1>4 DEF Destroy, IM!Next
<1>5. ASSUME Export \/ AddReader \/ Query \/ QueryEnds \/ QuerySleeps \/ SleepEnds
             \/ QueryFails \/ SetLiveMode \/ Start \/ Stop \/ GetNextRecord
             \/ (\E in \in Files : Publish(in)) \/ UNCHANGED vars
      PROVE  UNCHANGED IM!vars
  BY <1>5 DEF Export, AddReader, Query, QueryEnds, QuerySleeps, SleepEnds, QueryFails,
       SetLiveMode, Start, Stop, GetNextRecord, Publish, vars, input_vars, IM!vars
<1> QED
  BY <1>1, <1>2, <1>3, <1>4, <1>5 DEF Next, Step, Call

\* A step of the stream is one of the reader manager, or none.
LEMMA ReaderStep == BInv /\ [Next]_vars => [ReaderMgrNext]_reader_vars
<1> SUFFICES ASSUME BInv, [Next]_vars PROVE ReaderMgrNext \/ UNCHANGED reader_vars
  OBVIOUS
<1>1. CASE TakeBatch
  BY <1>1, BatchIsBatch DEF TakeBatch, ReaderMgrNext
<1>2. CASE Export
  BY <1>2 DEF Export, ReaderMgrNext
<1>3. CASE AddReader
  BY <1>3 DEF AddReader, ReaderMgrNext
<1>4. CASE Destroy
  BY <1>4 DEF Destroy, ReaderMgrNext
<1>5. CASE GetNextRecord
  BY <1>5 DEF GetNextRecord, ReaderMgrNext, reader_vars
<1>6. ASSUME EndAdd \/ Query \/ (\E in \in Files : PushFile(in)) \/ QueryEnds \/ QuerySleeps
             \/ SleepEnds \/ QueryFails \/ SetLiveMode \/ Start \/ Stop
             \/ (\E in \in Files : Publish(in)) \/ UNCHANGED vars
      PROVE  UNCHANGED reader_vars
  BY <1>6 DEF EndAdd, Query, PushFile, QueryEnds, QuerySleeps, SleepEnds, QueryFails,
       SetLiveMode, Start, Stop, Publish, vars, reader_vars
<1> QED
  BY <1>1, <1>2, <1>3, <1>4, <1>5, <1>6 DEF Next, Step, Call

\* The stream implements the environment that InputMgr and ReaderMgr assume,
\* whatever its caller and the data source do: bgpstream_get_next_record
\* destroys a batch before it touches the queue again, adds readers to an empty
\* manager only, and offers sorted batches without duplicates of files that
\* were never offered before, also after queries that failed half way.  So what
\* is proved of the two managers holds within the stream.
THEOREM ManagersAreUsed == Spec => UsesManagers
<1>1. Init => IM!Init /\ ReaderMgrInit
  BY DEF Init
<1> QED
  BY <1>1, BInvInductive, InputStep, ReaderStep, PTL
     DEF Spec, UsesManagers, UsesInputMgr, UsesReaderMgr, IM!Spec, ReaderMgrSpec

\* What is proved of the reader manager holds within the stream: every matching
\* entry is delivered exactly once, from one owner and with its right position,
\* and the RIBs of a source keep their period.
THEOREM StreamDelivers == Spec => [](EntriesAreDelivered /\ PositionsAreRight /\ RibPeriodIsKept)
<1>1. Spec => ReaderMgrSpec
  BY ManagersAreUsed DEF UsesManagers, UsesReaderMgr
<1> QED
  BY <1>1, EntriesDelivered, Positions, RibPeriod, PTL

-----------------------------------------------------------------------------
(* The order of the stream                                                 *)

\* Outside bgpstream_reader_mgr_add no file waits for its reader, and the data
\* source is asked when there is no reader at all.
QuietInv ==
  /\ pc # "add" => adding = <<>> /\ tmp_readers = <<>>
  /\ pc \in {"query", "sleep"} => mgr_status = "empty"

\* The files that wait for their reader.
Waiting == Range(adding) \cup InputsOf(tmp_readers)

\* All records of x come before those of y, if both are well timed.
Ahead(x, y) == x.epoch_filetime <= y.epoch_filetime /\ IntervalEnd(x) <= y.epoch_filetime

\* A time that a record of the file may have, if it is well timed.
InTime(in, t) == t >= in.epoch_filetime /\ (t = in.epoch_filetime \/ t < IntervalEnd(in))

\* A record that was returned may stand before one of that file and time.
NotLater(a, in, t) == a.record_time <= t \/ round[a.input] < round[in]

\* What the stream consists of, and the time of a reader.
TimesInv ==
  /\ stream \in Seq([input : Files, record_time : Nat])
  /\ \A i \in 1..Len(stream) : stream[i].input \in offered
  /\ \A r \in ReadersIn(reader_queue) :
       /\ r.status = "VALID_ENTRY" => r.record_time = dumps[r.input].items[r.pos].time
       /\ WellTimed(r.input) => InTime(r.input, r.record_time)

\* The record may stand before all that is to come, be it in the queue, waiting
\* for a reader or the entry of a reader.
Precedes(a) ==
  /\ \A in \in Range(queue) \cup Waiting : NotLater(a, in, in.epoch_filetime)
  /\ \A r \in ReadersIn(reader_queue) :
       WellTimed(r.input) => NotLater(a, r.input, r.record_time)

\* The batch is ahead of the rest of the queue.
BatchIsAhead ==
  \A x \in Waiting \cup InputsOf(reader_queue), y \in Range(queue) : Ahead(x, y)

\* The inductive invariant behind StreamIsOrdered.
OrderInv ==
  ~ capped =>
    /\ BatchIsAhead
    /\ \A i \in 1..Len(stream) : WellTimed(stream[i].input) => Precedes(stream[i])
    /\ StreamIsOrdered

MInv == BInv /\ IInv /\ Places /\ Progress /\ QuietInv

LEMMA MInvInductive ==
  /\ Init => MInv
  /\ MInv /\ [Next]_vars => MInv'
<1>1. ASSUME Init PROVE MInv
  <2>1. ReaderMgrInit /\ pc = "idle"
    BY <1>1 DEF Init
  <2>2. adding = <<>> /\ tmp_readers = <<>>
    BY <2>1 DEF ReaderMgrInit
  <2> QED
    BY <1>1, <2>1, <2>2, BInvInductive, IInvInductive, PlacesInductive, ProgressInductive
       DEF MInv, QuietInv
<1>2. ASSUME MInv, [Next]_vars PROVE MInv'
  <2>1. BInv' /\ [ReaderMgrNext]_reader_vars
    BY <1>2, BInvInductive, ReaderStep DEF MInv
  <2>2. IInv' /\ Places' /\ Progress'
    BY <1>2, <2>1, IInvInductive, PlacesInductive, ProgressInductive DEF MInv
  <2>3. QuietInv'
    <3> USE <1>2 DEF MInv, QuietInv
    <3>1. CASE Export
      BY <3>1 DEF Export, ExportValid, ExportLast, Deliver, Return
    <3>2. CASE TakeBatch
      BY <3>2 DEF TakeBatch
    <3>3. CASE AddReader
      BY <3>3 DEF AddReader, own_vars
    <3>4. CASE EndAdd
      BY <3>4 DEF EndAdd, reader_vars
    <3>5. CASE Query \/ QueryEnds \/ QuerySleeps \/ SleepEnds \/ QueryFails
      BY <3>5 DEF Query, QueryEnds, QuerySleeps, SleepEnds, QueryFails, Return, reader_vars
    <3>6. ASSUME NEW in \in Files, PushFile(in) PROVE QuietInv'
      BY <3>6 DEF PushFile, own_vars, reader_vars
    <3>7. CASE SetLiveMode \/ Start \/ Stop
      BY <3>7 DEF SetLiveMode, Start, Stop, Return, reader_vars
    <3>8. CASE Destroy
      BY <3>8 DEF Destroy, ReaderMgrDestroy, Return
    <3>9. CASE GetNextRecord
      BY <3>9 DEF GetNextRecord, RecordClear, Return, reader_vars
    <3>10. ASSUME NEW in \in Files, Publish(in) PROVE QuietInv'
      BY <3>10 DEF Publish, own_vars, reader_vars
    <3>11. CASE UNCHANGED vars
      BY <3>11 DEF vars, own_vars, reader_vars
    <3> QED
      BY <3>1, <3>2, <3>3, <3>4, <3>5, <3>6, <3>7, <3>8, <3>9, <3>10, <3>11
         DEF Next, Step, Call
  <2> QED
    BY <2>1, <2>2, <2>3 DEF MInv
<1> QED
  BY <1>1, <1>2

\* A query finds no file with a reader or waiting for one.
LEMMA QueryIsQuiet ==
  ASSUME MInv, pc \in {"query", "sleep"}
  PROVE  /\ Waiting = {} /\ InputsOf(reader_queue) = {} /\ ReadersIn(reader_queue) = {}
         /\ mgr_status = "empty"
<1>1. adding = <<>> /\ tmp_readers = <<>> /\ reader_queue = <<>> /\ mgr_status = "empty"
  BY DEF MInv, QuietInv, IInv, StatusMatchesReaders
<1>2. Len(adding) = 0 /\ Len(tmp_readers) = 0 /\ Len(reader_queue) = 0 /\ DOMAIN adding = {}
  BY <1>1
<1>3. Range(adding) = {} /\ ReadersIn(tmp_readers) = {} /\ ReadersIn(reader_queue) = {}
  BY <1>2 DEF Range, ReadersIn
<1> QED
  BY <1>1, <1>3 DEF Waiting, InputsOf

\* The types that the times of files have.
LEMMA FileFields ==
  \A in \in Files : /\ in.epoch_filetime \in Nat /\ IntervalEnd(in) \in Nat
                    /\ IntervalStart(in) \in Int
                    /\ IntervalStart(in) <= in.epoch_filetime
<1> TAKE in \in Files
<1>1. in \in Inputs({f.source : f \in Files}, Nat, Nat)
  BY BgpstreamAssumption
<1>2. in.epoch_filetime \in Nat /\ in.time_span \in Nat /\ in.filetype \in FileTypes
  BY <1>1 DEF Inputs
<1> QED
  BY <1>2 DEF IntervalStart, IntervalEnd, FileTypes

\* A batch that was not cut short is ahead of the rest.
LEMMA CutIsAhead ==
  ASSUME MInv, TakeBatch, ~ capped',
         NEW x \in Range(ToProcess(queue)), NEW y \in Range(queue')
  PROVE  Ahead(x, y)
<1> DEFINE n == LastToProcess(queue)
<1>1. /\ queue' = Remaining(queue) /\ to_process' = ToProcess(queue)
      /\ capped' = (capped \/ /\ Len(to_process') = max_readers
                              /\ queue' # <<>>
                              /\ ~ StartsNewBatch(queue, max_readers + 1))
  BY SameCut DEF TakeBatch, IM!GetQueueToProcess
<1>2. queue \in Seq(Files) /\ SortedQueue(queue) /\ NoTwins(queue) /\ Len(queue) \in Nat
      /\ \A k \in 1..Len(queue) : queue[k] \in Files
  BY LenProperties DEF MInv, BInv, QueueInv
<1>3. n \in 0..Len(queue) /\ n <= max_readers /\ max_readers \in Nat
  BY <1>2, LastToProcessCuts, MaxReadersAssumption
<1>4. n < Len(queue) /\ n < max_readers => StartsNewBatch(queue, n + 1)
  BY <1>2, LastToProcessCuts
<1>5. /\ ToProcess(queue) \in Seq(Files) /\ Len(ToProcess(queue)) = n
      /\ \A k \in 1..n : ToProcess(queue)[k] = queue[k]
      /\ queue' \in Seq(Files) /\ Len(queue') = Len(queue) - n
      /\ \A k \in 1..(Len(queue) - n) : queue'[k] = queue[n + k]
  BY <1>1, <1>2, CutKeepsQueue
<1> HIDE DEF n
<1>6. PICK i \in 1..n : x = queue[i]
  <2>1. DOMAIN ToProcess(queue) = 1..n
    BY <1>5, LenProperties
  <2>2. PICK k \in DOMAIN ToProcess(queue) : x = ToProcess(queue)[k]
    BY DEF Range
  <2> QED
    BY <1>5, <2>1, <2>2
<1>7. PICK j \in 1..(Len(queue) - n) : y = queue[n + j]
  <2>1. DOMAIN queue' = 1..(Len(queue) - n)
    BY <1>5, LenProperties
  <2>2. PICK k \in DOMAIN queue' : y = queue'[k]
    BY DEF Range
  <2> QED
    BY <1>5, <2>1, <2>2
<1>8. n < Len(queue) /\ i \in 1..Len(queue) /\ i < n + 1 /\ n + 1 \in 1..Len(queue)
      /\ n + j \in 1..Len(queue) /\ i < n + j
  BY <1>2, <1>3
<1>9. StartsNewBatch(queue, n + 1)
  <2>1. CASE n < max_readers
    BY <1>4, <1>8, <2>1
  <2>2. CASE n = max_readers
    <3>1. Len(queue') # 0
      BY <1>2, <1>3, <1>5, <1>8
    <3>2. queue' # <<>>
      BY <3>1
    <3> QED
      BY <1>1, <1>5, <2>2, <3>2
  <2> QED
    BY <1>3, <2>1, <2>2
<1>10. IntervalStart(queue[n + 1]) >= IntervalEnd(x)
  BY <1>6, <1>8, <1>9 DEF StartsNewBatch
<1>11. x \in Files /\ y \in Files /\ queue[n + 1] \in Files
  BY <1>2, <1>6, <1>7, <1>8
<1>12. x.epoch_filetime <= y.epoch_filetime
  <2>1. InOrder(x, y)
    BY <1>2, <1>6, <1>7, <1>8 DEF SortedQueue
  <2> QED
    BY <1>11, <2>1, FileFields DEF InOrder
<1>13. queue[n + 1].epoch_filetime <= y.epoch_filetime
  <2>1. CASE j = 1
    BY <1>7, <1>11, <2>1, FileFields
  <2>2. CASE j # 1
    <3>1. n + 1 < n + j
      BY <1>3, <2>2
    <3>2. InOrder(queue[n + 1], y)
      BY <1>2, <1>7, <1>8, <3>1 DEF SortedQueue
    <3> QED
      BY <1>11, <3>2, FileFields DEF InOrder
  <2> QED
    BY <2>1, <2>2
<1> QED
  BY <1>10, <1>11, <1>12, <1>13, FileFields DEF Ahead

\* What a read does to the time of a reader.
LEMMA ReadTimes ==
  ASSUME dumps \in Dumps, NEW r \in Readers, r.status = "VALID_ENTRY",
         dumps[r.input].opens => HasRead(r)
  PROVE  LET items == dumps[r.input].items
             next == ReadNewData(r, dumps[r.input])
         IN  /\ next.input = r.input /\ next \in Readers
             /\ next.status = "VALID_ENTRY" =>
                  /\ IsEntry(items, next.pos)
                  /\ next.pos > r.pos
                  /\ next.record_time = items[next.pos].time
             /\ next.status # "VALID_ENTRY" => next.record_time = r.record_time
<1> DEFINE items == dumps[r.input].items
           next == ReadNewData(r, dumps[r.input])
           n == NextSignificant(items, r.pos)
<1>1. /\ ReaderIsAt(next)
      /\ next.status = "VALID_ENTRY" => next.bd_entry > r.pos
  BY ReadSkipsNothing
<1>2. dumps[r.input].opens => items \in Seq(Items(Nat))
  BY ReaderMgrAssumption DEF Readers
<1>3. next.input = r.input /\ next \in Readers
  BY <1>2, ReadNewDataProperties
<1>4. CASE ~ dumps[r.input].opens
  <2>1. next = [r EXCEPT !.status = "CANT_OPEN_DUMP", !.bd_entry = 0]
    BY <1>4 DEF ReadNewData, CantOpen
  <2>2. next.status # "VALID_ENTRY" /\ next.record_time = r.record_time
    BY <2>1 DEF Readers
  <2> QED
    BY <1>3, <2>2
<1>5. CASE dumps[r.input].opens
  <2>1. next = ReadOn(r, items)
    BY <1>5 DEF ReadNewData
  <2>2. /\ next.record_time = IF IsEntry(items, n) THEN items[n].time ELSE r.record_time
        /\ next.pos = n
        /\ next.status = "VALID_ENTRY" <=> IsEntry(items, n)
    BY <2>1 DEF ReadOn, EndStatus
  <2>3. next.status = "VALID_ENTRY" => next.bd_entry = next.pos
    BY <1>1 DEF ReaderIsAt
  <2> HIDE DEF n, next, items
  <2> QED
    BY <1>1, <1>3, <2>2, <2>3 DEF next, items
<1> QED
  BY <1>4, <1>5

\* An entry of a well timed dump.
LEMMA EntryInTime ==
  ASSUME NEW in \in Files, WellTimed(in), NEW i, IsEntry(dumps[in].items, i)
  PROVE  /\ InTime(in, dumps[in].items[i].time)
         /\ \A j : IsEntry(dumps[in].items, j) /\ i < j =>
              dumps[in].items[i].time <= dumps[in].items[j].time
<1> DEFINE items == dumps[in].items
           entries == {k \in DOMAIN items : items[k].kind = "entry"}
<1>1. \A j : IsEntry(items, j) <=> j \in entries
  BY DEF IsEntry
<1>2. /\ \A k \in entries :
            items[k].time \in in.epoch_filetime..(IntervalEnd(in) - 1)
      /\ \A k, j \in entries : k < j => items[k].time <= items[j].time
  BY DEF WellTimed
<1> HIDE DEF items, entries
<1>3. i \in entries
  BY <1>1 DEF items
<1>4. InTime(in, items[i].time)
  <2>1. items[i].time \in in.epoch_filetime..(IntervalEnd(in) - 1)
    BY <1>2, <1>3
  <2> QED
    BY <2>1, FileFields DEF InTime
<1>5. \A j : IsEntry(items, j) /\ i < j => items[i].time <= items[j].time
  BY <1>1, <1>2, <1>3
<1> QED
  BY <1>4, <1>5 DEF items

\* The record that goes out has the time of the head.
LEMMA ExportTime ==
  ASSUME IInv, ExportValid \/ ExportLast
  PROVE  record'.record_time = reader_queue[1].record_time
<1>1. reader_queue \in Seq(Readers) /\ reader_queue # <<>>
  BY DEF IInv, TypeOK, StatusMatchesReaders, ExportValid, ExportLast
<1>2. Head(reader_queue) = reader_queue[1]
  BY <1>1
<1>3. CASE ExportValid
  <2> DEFINE rec == ExportRecord(Head(reader_queue))
  <2>1. record' = rec \/ record' = [rec EXCEPT !.dump_pos = "END"]
    BY <1>3 DEF ExportValid, Deliver
  <2>2. rec.record_time = Head(reader_queue).record_time
        /\ [rec EXCEPT !.dump_pos = "END"].record_time = Head(reader_queue).record_time
    BY DEF ExportRecord
  <2> QED
    BY <1>2, <2>1, <2>2
<1>4. CASE ExportLast
  BY <1>2, <1>4 DEF ExportLast, Deliver, ExportRecord
<1> QED
  BY <1>3, <1>4

\* The first read of a reader.
LEMMA InsertKeepsOrder ==
  ASSUME MInv, TimesInv, OrderInv, InsertNext,
         UNCHANGED <<queue, stream, round, capped>>
  PROVE  TimesInv' /\ OrderInv'
<1> DEFINE new == tmp_readers[1]
           r == ReadNewData(new, dumps[new.input])
<1>0. IInv /\ Places
  BY DEF MInv
<1>1. /\ new \in Readers /\ new.input \in Files /\ new = ReaderCreate(new.input)
      /\ ReadersIn(tmp_readers) = ReadersIn(tmp_readers') \cup {new}
      /\ r \in Readers /\ r.input = new.input
      /\ ReadersIn(reader_queue') = ReadersIn(reader_queue) \cup {r}
      /\ UNCHANGED <<dumps, adding, offered>>
  BY <1>0, InsertEffect
<1>2. dumps \in Dumps /\ dumps[new.input].items \in Seq(Items(Nat))
  BY <1>0, <1>1, ReaderMgrAssumption DEF IInv
<1>3. new.record_time = new.input.epoch_filetime /\ new.status = "VALID_ENTRY" /\ new.pos = 0
      /\ new.successful_read = 0 /\ new.valid_read = 0
  BY <1>1 DEF ReaderCreate
<1>4. HasRead(new)
  <2>1. Entries(new.input, 0) = {}
    BY DEF Entries
  <2>2. Len(dumps[new.input].items) \in Nat
    BY <1>2, LenProperties
  <2>3. Cardinality(Entries(new.input, 0)) = 0
    BY <2>1, FS_EmptySet
  <2> HIDE DEF new
  <2>4. new.successful_read = Cardinality(Entries(new.input, new.pos))
    BY <1>3, <2>3
  <2>5. new.pos \in 0..Len(dumps[new.input].items) /\ 1..new.pos = {}
    BY <1>3, <2>2
  <2>6. new.valid_read <= new.successful_read
    BY <1>3
  <2> QED
    BY <2>4, <2>5, <2>6 DEF HasRead
<1>5. /\ r.status = "VALID_ENTRY" =>
           /\ IsEntry(dumps[new.input].items, r.pos)
           /\ r.record_time = dumps[new.input].items[r.pos].time
      /\ r.status # "VALID_ENTRY" => r.record_time = new.record_time
  BY <1>1, <1>2, <1>3, <1>4, ReadTimes
<1> HIDE DEF r, new
<1>6. new.input.epoch_filetime \in Nat /\ r.record_time \in Nat
  BY <1>1, FileFields DEF Readers
<1>7. WellTimed(new.input) => InTime(new.input, r.record_time)
  <2>1. CASE r.status = "VALID_ENTRY"
    BY <1>1, <1>5, <2>1, EntryInTime
  <2>2. CASE r.status # "VALID_ENTRY"
    BY <1>3, <1>5, <1>6, <2>2 DEF InTime
  <2> QED
    BY <2>1, <2>2
<1>8. \A in : WellTimed(in)' <=> WellTimed(in)
  BY <1>1 DEF WellTimed
<1>9. TimesInv'
  <2>1. \A x \in ReadersIn(reader_queue') :
          /\ x.status = "VALID_ENTRY" => x.record_time = dumps[x.input].items[x.pos].time
          /\ WellTimed(x.input) => InTime(x.input, x.record_time)
    BY <1>1, <1>5, <1>7 DEF TimesInv
  <2> QED
    BY <1>1, <1>8, <2>1 DEF TimesInv
<1>10. /\ Waiting' \subseteq Waiting /\ new.input \in Waiting
       /\ InputsOf(reader_queue') = InputsOf(reader_queue) \cup {new.input}
  <2>1. new \in ReadersIn(tmp_readers) /\ ReadersIn(tmp_readers') \subseteq ReadersIn(tmp_readers)
    BY <1>1
  <2> QED
    BY <1>1, <2>1 DEF Waiting, InputsOf
<1>11. OrderInv'
  <2> SUFFICES ASSUME ~ capped
               PROVE  /\ BatchIsAhead'
                      /\ \A i \in 1..Len(stream) :
                           WellTimed(stream[i].input) => Precedes(stream[i])'
                      /\ StreamIsOrdered'
    BY <1>8 DEF OrderInv
  <2>1. BatchIsAhead'
    BY <1>10 DEF OrderInv, BatchIsAhead
  <2>2. ASSUME NEW i \in 1..Len(stream), WellTimed(stream[i].input)
        PROVE  Precedes(stream[i])'
    <3>1. Precedes(stream[i])
      BY <2>2 DEF OrderInv
    <3>2. stream[i].record_time \in Nat
      <4>1. stream[i] \in [input : Files, record_time : Nat]
        BY ElementOfSeq DEF TimesInv
      <4> QED
        BY <4>1
    <3>3. WellTimed(r.input) => NotLater(stream[i], r.input, r.record_time)
      <4> SUFFICES ASSUME WellTimed(r.input), ~ (round[stream[i].input] < round[r.input])
                   PROVE  stream[i].record_time <= r.record_time
        BY DEF NotLater
      <4>1. stream[i].record_time <= new.input.epoch_filetime
        BY <1>1, <1>10, <3>1 DEF Precedes, NotLater
      <4>2. r.record_time >= new.input.epoch_filetime
        BY <1>1, <1>7 DEF InTime
      <4> QED
        BY <1>6, <3>2, <4>1, <4>2
    <3> QED
      BY <1>1, <1>8, <1>10, <3>1, <3>3 DEF Precedes, NotLater
  <2>3. StreamIsOrdered'
    BY <1>8 DEF OrderInv, StreamIsOrdered
  <2> QED
    BY <2>1, <2>2, <2>3
<1> QED
  BY <1>9, <1>11

\* The record of the head goes out.
LEMMA ExportKeepsOrder ==
  ASSUME MInv, TimesInv, OrderInv, Export
  PROVE  TimesInv' /\ OrderInv'
<1> DEFINE head == reader_queue[1]
           next == ReadNewData(head, dumps[head.input])
           rest == ReadersIn(Tail(reader_queue))
           a == [input |-> head.input, record_time |-> head.record_time]
<1>n. PICK n \in Nat : n = Len(stream)
  BY LenProperties DEF TimesInv
<1>0. IInv /\ Places /\ Progress /\ (ExportValid \/ ExportLast)
  BY DEF MInv, Export
<1>1. /\ head \in Readers /\ ReadersIn(reader_queue) = rest \cup {head}
      /\ record'.input = head.input
      /\ UNCHANGED <<dumps, adding, tmp_readers, offered>>
      /\ \/ /\ head.status = "VALID_ENTRY"
            /\ next \in Readers /\ next.input = head.input
            /\ ReadersIn(reader_queue') \subseteq rest \cup {next}
         \/ ReadersIn(reader_queue') = rest
  BY <1>0, ExportEffect
<1>2. record'.record_time = head.record_time
  BY <1>0, ExportTime
<1>3. /\ stream' = Append(stream, a) /\ pc = "loop"
      /\ UNCHANGED <<queue, round, capped>>
  BY <1>1, <1>2 DEF Export, input_vars
<1>4. head.input \in Files /\ head.record_time \in Nat /\ head.input \in offered
  <2>1. head.input \in InputsOf(reader_queue)
    BY <1>1 DEF InputsOf
  <2> QED
    BY <1>0, <1>1, <2>1 DEF Readers, Places
<1>5. Waiting' = {} /\ Waiting = {}
  <2>1. adding = <<>> /\ tmp_readers = <<>>
    BY <1>3 DEF MInv, QuietInv
  <2>2. Range(adding) = {} /\ ReadersIn(tmp_readers) = {}
    BY <2>1 DEF Range, ReadersIn
  <2>3. Waiting = {}
    BY <2>2 DEF Waiting, InputsOf
  <2> QED
    BY <1>1, <2>3 DEF Waiting
<1>6. \A in : WellTimed(in)' <=> WellTimed(in)
  BY <1>1 DEF WellTimed
<1>7. /\ stream \in Seq([input : Files, record_time : Nat])
      /\ a \in [input : Files, record_time : Nat]
      /\ a.input = head.input /\ a.record_time = head.record_time
  BY <1>4, LenProperties DEF TimesInv
<1>8. /\ stream' \in Seq([input : Files, record_time : Nat]) /\ Len(stream') = n + 1
      /\ stream'[n + 1] = a /\ \A i \in 1..n : stream'[i] = stream[i]
  BY <1>n, <1>3, <1>7
<1>9. head \in ReadersIn(reader_queue) /\ ReaderIsAt(head)
  BY <1>0, <1>1 DEF Progress
<1>10. WellTimed(head.input) => InTime(head.input, head.record_time)
  BY <1>9 DEF TimesInv
<1>11. \A x \in rest : x \in Readers /\ head.record_time <= x.record_time
  <2>1. reader_queue \in Seq(Readers) /\ SortedReaders(reader_queue) /\ reader_queue # <<>>
    BY <1>0 DEF IInv, TypeOK, ReadersAreSorted, StatusMatchesReaders, ExportValid, ExportLast
  <2>2. /\ Len(reader_queue) \in Nat /\ Len(Tail(reader_queue)) = Len(reader_queue) - 1
        /\ \A k \in 1..(Len(reader_queue) - 1) : Tail(reader_queue)[k] = reader_queue[k + 1]
        /\ \A k \in 1..Len(reader_queue) : reader_queue[k] \in Readers
    BY <2>1, LenProperties
  <2>3. ASSUME NEW k \in 1..(Len(reader_queue) - 1)
        PROVE  /\ Tail(reader_queue)[k] \in Readers
               /\ head.record_time <= Tail(reader_queue)[k].record_time
    <3>1. 1 \in 1..Len(reader_queue) /\ k + 1 \in 1..Len(reader_queue) /\ 1 < k + 1
      BY <2>2
    <3>2. ReadersInOrder(head, reader_queue[k + 1]) /\ reader_queue[k + 1] \in Readers
      BY <2>1, <2>2, <3>1 DEF SortedReaders
    <3>3. reader_queue[k + 1].record_time \in Nat
      BY <3>2 DEF Readers
    <3> QED
      BY <1>4, <2>2, <3>2, <3>3 DEF ReadersInOrder
  <2> QED
    BY <2>2, <2>3 DEF ReadersIn
<1>12. ASSUME head.status = "VALID_ENTRY"
       PROVE  /\ next.status = "VALID_ENTRY" =>
                   next.record_time = dumps[head.input].items[next.pos].time
              /\ WellTimed(head.input) =>
                   InTime(head.input, next.record_time) /\ head.record_time <= next.record_time
  <2>1. /\ HasRead(head) /\ IsEntry(dumps[head.input].items, head.pos)
        /\ head.record_time = dumps[head.input].items[head.pos].time
    BY <1>9, <1>12 DEF ReaderIsAt, TimesInv, Deliverable
  <2>2. dumps \in Dumps
    BY <1>0 DEF IInv
  <2>3. /\ next.status = "VALID_ENTRY" =>
             /\ IsEntry(dumps[head.input].items, next.pos) /\ next.pos > head.pos
             /\ next.record_time = dumps[head.input].items[next.pos].time
        /\ next.status # "VALID_ENTRY" => next.record_time = head.record_time
        /\ next \in Readers
    BY <1>1, <1>12, <2>1, <2>2, ReadTimes
  <2> HIDE DEF next, head
  <2>4. CASE next.status = "VALID_ENTRY"
    <3>1. head.pos \in Nat /\ next.pos \in Nat
      BY <1>1, <2>3 DEF Readers
    <3>2. head.pos < next.pos
      BY <2>3, <2>4, <3>1
    <3> QED
      BY <1>4, <2>1, <2>3, <2>4, <3>2, EntryInTime
  <2>5. CASE next.status # "VALID_ENTRY"
    BY <1>4, <1>10, <2>3, <2>5
  <2> QED
    BY <2>4, <2>5
<1> HIDE DEF a, next, head, rest
<1>13. TimesInv'
  <2>1. \A i \in 1..Len(stream') : stream'[i].input \in offered
    <3> SUFFICES ASSUME NEW i \in 1..(n + 1) PROVE stream'[i].input \in offered
      BY <1>8
    <3>1. i \in 1..n \/ i = n + 1
      OBVIOUS
    <3>2. CASE i \in 1..n
      BY <1>n, <1>8, <3>2 DEF TimesInv
    <3>3. CASE i = n + 1
      BY <1>4, <1>7, <1>8, <3>3
    <3> QED
      BY <3>1, <3>2, <3>3
  <2>2. \A x \in ReadersIn(reader_queue') :
          /\ x.status = "VALID_ENTRY" => x.record_time = dumps[x.input].items[x.pos].time
          /\ WellTimed(x.input) => InTime(x.input, x.record_time)
    BY <1>1, <1>12 DEF TimesInv
  <2> QED
    BY <1>1, <1>6, <1>8, <2>1, <2>2 DEF TimesInv
<1>14. OrderInv'
  <2> SUFFICES ASSUME ~ capped
               PROVE  /\ BatchIsAhead'
                      /\ \A i \in 1..(n + 1) :
                           WellTimed(stream'[i].input) => Precedes(stream[i])'
                      /\ StreamIsOrdered'
    BY <1>3, <1>6, <1>8 DEF OrderInv
  <2>0. /\ BatchIsAhead
        /\ \A i \in 1..n : WellTimed(stream[i].input) => Precedes(stream[i])
        /\ StreamIsOrdered
    BY <1>n DEF OrderInv
  <2>1. \A x \in ReadersIn(reader_queue') : x.input \in InputsOf(reader_queue)
    BY <1>1 DEF InputsOf
  <2>2. BatchIsAhead'
    <3>1. InputsOf(reader_queue') \subseteq InputsOf(reader_queue)
      BY <2>1 DEF InputsOf
    <3> QED
      BY <1>3, <1>5, <2>0, <3>1 DEF BatchIsAhead
  <2>3. ASSUME NEW i \in 1..n, WellTimed(stream[i].input)
        PROVE  Precedes(stream[i])'
    <3>0. stream[i] \in [input : Files, record_time : Nat]
      BY <1>n, <1>7, ElementOfSeq
    <3>1. Precedes(stream[i]) /\ stream[i].record_time \in Nat
      BY <2>0, <2>3, <3>0
    <3>2. ASSUME NEW x \in ReadersIn(reader_queue'), WellTimed(x.input)
          PROVE  NotLater(stream[i], x.input, x.record_time)
      <4>1. CASE x \in rest
        BY <1>1, <3>1, <3>2, <4>1 DEF Precedes
      <4>2. CASE x \notin rest
        <5>1. x = next /\ head.status = "VALID_ENTRY" /\ next.input = head.input
              /\ next \in Readers
          BY <1>1, <3>2, <4>2
        <5>2. NotLater(stream[i], head.input, head.record_time)
          BY <1>9, <3>1, <3>2, <5>1 DEF Precedes
        <5>3. head.record_time <= next.record_time /\ next.record_time \in Nat
          BY <1>12, <3>2, <5>1 DEF Readers
        <5> QED
          BY <1>4, <3>1, <5>1, <5>2, <5>3 DEF NotLater
      <4> QED
        BY <4>1, <4>2
    <3> QED
      BY <1>3, <1>5, <1>6, <1>8, <3>1, <3>2 DEF Precedes, NotLater
  <2>4. ASSUME WellTimed(head.input)
        PROVE  Precedes(stream[n + 1])'
    <3>1. InTime(head.input, head.record_time)
      BY <1>10, <2>4
    <3>2. ASSUME NEW in \in Range(queue)
          PROVE  a.record_time <= in.epoch_filetime
      <4>1. Ahead(head.input, in)
        BY <1>9, <2>0, <3>2 DEF BatchIsAhead, InputsOf
      <4>2. in \in Files
        BY <3>2 DEF MInv, BInv, QueueInv, Range
      <4>3. /\ in.epoch_filetime \in Nat /\ IntervalEnd(head.input) \in Nat
            /\ head.input.epoch_filetime \in Nat
        BY <1>4, <4>2, FileFields
      <4> QED
        BY <1>4, <1>7, <3>1, <4>1, <4>3 DEF InTime, Ahead
    <3>3. ASSUME NEW x \in ReadersIn(reader_queue')
          PROVE  a.record_time <= x.record_time
      <4>1. CASE x \in rest
        BY <1>7, <1>11, <4>1
      <4>2. CASE x \notin rest
        BY <1>1, <1>7, <1>12, <2>4, <3>3, <4>2
      <4> QED
        BY <4>1, <4>2
    <3> QED
      BY <1>3, <1>5, <1>8, <3>2, <3>3 DEF Precedes, NotLater
  <2>5. \A i \in 1..(n + 1) : WellTimed(stream'[i].input) => Precedes(stream[i])'
    <3>1. \A i \in 1..(n + 1) : i \in 1..n \/ i = n + 1
      BY <1>7
    <3> QED
      BY <1>7, <1>8, <2>3, <2>4, <3>1
  <2>6. StreamIsOrdered'
    <3> SUFFICES ASSUME NEW i \in 1..(n + 1), NEW j \in 1..(n + 1), i < j,
                        WellTimed(stream'[i].input), WellTimed(stream'[j].input)
                 PROVE  \/ stream'[i].record_time <= stream'[j].record_time
                        \/ round[stream'[i].input] < round[stream'[j].input]
      BY <1>3, <1>6, <1>8 DEF StreamIsOrdered
    <3>1. i \in 1..n /\ (j \in 1..n \/ j = n + 1)
      BY <1>7
    <3>2. CASE j \in 1..n
      BY <1>n, <1>8, <2>0, <3>1, <3>2 DEF StreamIsOrdered
    <3>3. CASE j = n + 1
      <4>1. stream'[i] = stream[i] /\ stream'[j] = a
        BY <1>8, <3>1, <3>3
      <4>2. Precedes(stream[i]) /\ WellTimed(head.input)
        BY <1>7, <2>0, <3>1, <4>1
      <4>3. NotLater(stream[i], head.input, head.record_time)
        BY <1>9, <4>2 DEF Precedes
      <4> QED
        BY <1>7, <4>1, <4>3 DEF NotLater
    <3> QED
      BY <3>1, <3>2, <3>3
  <2> QED
    BY <2>2, <2>5, <2>6
<1> QED
  BY <1>13, <1>14

\* A file that a query delivers is of a later round than all records so far.
LEMMA PushKeepsOrder ==
  ASSUME MInv, TimesInv, OrderInv, NEW in \in Files, PushFile(in)
  PROVE  TimesInv' /\ OrderInv'
<1>1. /\ pc = "query" /\ round' = [round EXCEPT ![in] = rounds + 1]
      /\ UNCHANGED <<dumps, adding, tmp_readers, reader_queue, offered, rounds, capped, stream>>
      /\ queue' = IF status = "empty" THEN <<in>> ELSE PushSortedInput(queue, in)
      /\ round[in] \in {0, rounds + 1}
  BY SamePush DEF PushFile, IM!Push, reader_vars
<1>2. Waiting = {} /\ InputsOf(reader_queue) = {} /\ ReadersIn(reader_queue) = {}
  BY <1>1, QueryIsQuiet
<1>3. Waiting' = {} /\ InputsOf(reader_queue') = {} /\ ReadersIn(reader_queue') = {}
  BY <1>1, <1>2 DEF Waiting
<1>4. \A f : WellTimed(f)' <=> WellTimed(f)
  BY <1>1 DEF WellTimed
<1>5. TimesInv'
  BY <1>1, <1>3 DEF TimesInv
<1>6. \A f \in Range(queue') : f = in \/ f \in Range(queue)
  <2>a. queue \in Seq(Files) /\ Len(queue) \in Nat
    BY LenProperties DEF MInv, BInv, QueueInv
  <2>b. SortedQueue(queue) /\ NoTwins(queue)
    BY DEF MInv, BInv, QueueInv
  <2>c. AreInputs(Files)
    BY FilesAreInputs
  <2>1. queue \in Seq(Files) /\ SortedQueue(queue) /\ NoTwins(queue) /\ AreInputs(Files)
    BY <2>a, <2>b, <2>c
  <2>2. CASE status = "empty"
    <3>1. queue' = <<in>>
      BY <1>1, <2>2
    <3> QED
      BY <3>1 DEF Range
  <2>3. CASE status # "empty"
    <3>1. queue' = PushSortedInput(queue, in) /\ queue' \in Seq(Files)
      BY <1>1, <2>1, <2>3, PushKeepsQueue
    <3>2. ASSUME NEW k \in 1..Len(queue')
          PROVE  queue'[k] = in \/ \E l \in 1..Len(queue) : queue'[k] = queue[l]
      <4>1. ASSUME NEW m \in 1..Len(PushSortedInput(queue, in))
            PROVE  \/ PushSortedInput(queue, in)[m] = in
                   \/ \E l \in 1..Len(queue) : PushSortedInput(queue, in)[m] = queue[l]
        BY <2>a, <2>b, <2>c, PushKeepsQueue
      <4> QED
        BY <3>1, <4>1
    <3>3. DOMAIN queue' = 1..Len(queue') /\ DOMAIN queue = 1..Len(queue)
      BY <2>1, <3>1, LenProperties
    <3> QED
      BY <3>2, <3>3 DEF Range
  <2> QED
    BY <2>2, <2>3
<1>7. \A i \in 1..Len(stream) :
        /\ stream[i].input \in Files /\ stream[i].input # in
        /\ round'[stream[i].input] = round[stream[i].input]
        /\ round[stream[i].input] < rounds + 1
        /\ rounds \in Nat /\ round'[in] = rounds + 1
        /\ round[stream[i].input] \in Nat
  <2>1. /\ rounds \in Nat /\ round \in [Files -> Nat]
        /\ \A f \in offered : f \in Files /\ round[f] # 0 /\ round[f] <= rounds
    BY DEF MInv, BInv, RoundsInv
  <2> SUFFICES ASSUME NEW i \in 1..Len(stream)
               PROVE  /\ stream[i].input \in Files /\ stream[i].input # in
                      /\ round'[stream[i].input] = round[stream[i].input]
                      /\ round[stream[i].input] < rounds + 1
                      /\ round'[in] = rounds + 1
                      /\ round[stream[i].input] \in Nat
    BY <2>1
  <2>2. stream[i].input \in offered
    BY DEF TimesInv
  <2>3. stream[i].input # in
    BY <1>1, <2>1, <2>2
  <2> QED
    BY <1>1, <2>1, <2>2, <2>3
<1>8. OrderInv'
  <2> SUFFICES ASSUME ~ capped
               PROVE  /\ BatchIsAhead'
                      /\ \A i \in 1..Len(stream) :
                           WellTimed(stream[i].input) => Precedes(stream[i])'
                      /\ StreamIsOrdered'
    BY <1>1, <1>4 DEF OrderInv
  <2>1. BatchIsAhead'
    BY <1>3 DEF BatchIsAhead
  <2>2. ASSUME NEW i \in 1..Len(stream), WellTimed(stream[i].input)
        PROVE  Precedes(stream[i])'
    <3>1. Precedes(stream[i])
      BY <2>2 DEF OrderInv
    <3>2. ASSUME NEW f \in Range(queue')
          PROVE  stream[i].record_time <= f.epoch_filetime
                   \/ round'[stream[i].input] < round'[f]
      <4>1. CASE f = in
        BY <1>7, <4>1
      <4>2. CASE f # in
        <5>0. f \in Range(queue) /\ queue \in Seq(Files)
          BY <1>6, <3>2, <4>2 DEF MInv, BInv, QueueInv
        <5>1. f \in Range(queue) /\ f \in Files
          <6>1. PICK k \in DOMAIN queue : f = queue[k]
            BY <5>0 DEF Range
          <6> QED
            BY <5>0, <6>1, LenProperties
        <5>2. round'[f] = round[f]
          BY <1>1, <4>2, <5>1 DEF MInv, BInv, RoundsInv
        <5> QED
          BY <1>7, <3>1, <5>1, <5>2 DEF Precedes, NotLater
      <4> QED
        BY <4>1, <4>2
    <3> QED
      BY <1>1, <1>3, <3>2 DEF Precedes, NotLater
  <2>3. StreamIsOrdered'
    BY <1>1, <1>4, <1>7 DEF OrderInv, StreamIsOrdered
  <2> QED
    BY <2>1, <2>2, <2>3
<1> QED
  BY <1>5, <1>8

\* The next batch leaves the queue.
LEMMA TakeKeepsOrder ==
  ASSUME MInv, TimesInv, OrderInv, TakeBatch
  PROVE  TimesInv' /\ OrderInv'
<1>1. /\ UNCHANGED <<dumps, tmp_readers, reader_queue, round, stream>>
      /\ adding' = ToProcess(queue) /\ offered' = offered \cup Range(ToProcess(queue))
      /\ queue' = Remaining(queue) /\ mgr_status = "empty" /\ tmp_readers = <<>>
      /\ capped => capped'
  BY SameCut DEF TakeBatch, Add, BetweenCalls, IM!GetQueueToProcess
<1>2. /\ ReadersIn(reader_queue') = {} /\ InputsOf(reader_queue') = {}
      /\ Waiting' = Range(ToProcess(queue))
  <2>1. reader_queue = <<>>
    BY <1>1 DEF MInv, IInv, StatusMatchesReaders
  <2>2. ReadersIn(reader_queue) = {} /\ ReadersIn(tmp_readers) = {}
    BY <1>1, <2>1 DEF ReadersIn
  <2> QED
    BY <1>1, <2>2 DEF InputsOf, Waiting
<1>3. \A f : WellTimed(f)' <=> WellTimed(f)
  BY <1>1 DEF WellTimed
<1>4. TimesInv'
  BY <1>1, <1>2 DEF TimesInv
<1>5. Range(queue') \subseteq Range(queue) /\ Range(ToProcess(queue)) \subseteq Range(queue)
  <2> DEFINE n == LastToProcess(queue)
  <2>1. queue \in Seq(Files) /\ SortedQueue(queue) /\ NoTwins(queue)
        /\ Len(queue) \in Nat /\ DOMAIN queue = 1..Len(queue)
    BY LenProperties DEF MInv, BInv, QueueInv
  <2>2. n \in 0..Len(queue)
    BY <2>1, LastToProcessCuts
  <2>3. /\ ToProcess(queue) \in Seq(Files) /\ Len(ToProcess(queue)) = n
        /\ \A k \in 1..n : ToProcess(queue)[k] = queue[k]
        /\ queue' \in Seq(Files) /\ Len(queue') = Len(queue) - n
        /\ \A k \in 1..(Len(queue) - n) : queue'[k] = queue[n + k]
    BY <1>1, <2>1, CutKeepsQueue
  <2>4. DOMAIN ToProcess(queue) = 1..n /\ DOMAIN queue' = 1..(Len(queue) - n)
    BY <2>3, LenProperties
  <2> HIDE DEF n
  <2>5. /\ \A k \in 1..n : k \in 1..Len(queue)
        /\ \A k \in 1..(Len(queue) - n) : n + k \in 1..Len(queue)
    BY <2>1, <2>2
  <2> QED
    BY <2>1, <2>3, <2>4, <2>5 DEF Range
<1>6. OrderInv'
  <2> SUFFICES ASSUME ~ capped', ~ capped
               PROVE  /\ BatchIsAhead'
                      /\ \A i \in 1..Len(stream) :
                           WellTimed(stream[i].input) => Precedes(stream[i])'
                      /\ StreamIsOrdered'
    BY <1>1, <1>3 DEF OrderInv
  <2>1. BatchIsAhead'
    BY <1>2, CutIsAhead DEF BatchIsAhead
  <2>2. ASSUME NEW i \in 1..Len(stream), WellTimed(stream[i].input)
        PROVE  Precedes(stream[i])'
    <3>1. Precedes(stream[i])
      BY <2>2 DEF OrderInv
    <3> QED
      BY <1>1, <1>2, <1>5, <3>1 DEF Precedes, NotLater
  <2>3. StreamIsOrdered'
    BY <1>1, <1>3 DEF OrderInv, StreamIsOrdered
  <2> QED
    BY <2>1, <2>2, <2>3
<1> QED
  BY <1>4, <1>6

\* Steps that leave less to come.
LEMMA LessKeepsOrder ==
  ASSUME MInv, TimesInv, OrderInv, UNCHANGED <<dumps, offered, round, capped, stream>>,
         Range(queue') \subseteq Range(queue), Waiting' \subseteq Waiting,
         ReadersIn(reader_queue') \subseteq ReadersIn(reader_queue)
  PROVE  TimesInv' /\ OrderInv'
<1>1. InputsOf(reader_queue') \subseteq InputsOf(reader_queue)
  BY DEF InputsOf
<1>2. \A f : WellTimed(f)' <=> WellTimed(f)
  BY DEF WellTimed
<1>3. TimesInv'
  BY <1>2 DEF TimesInv
<1>4. OrderInv'
  <2> SUFFICES ASSUME ~ capped
               PROVE  /\ BatchIsAhead'
                      /\ \A i \in 1..Len(stream) :
                           WellTimed(stream[i].input) => Precedes(stream[i])'
                      /\ StreamIsOrdered'
    BY <1>2 DEF OrderInv
  <2>1. BatchIsAhead'
    BY <1>1 DEF OrderInv, BatchIsAhead
  <2>2. ASSUME NEW i \in 1..Len(stream), WellTimed(stream[i].input)
        PROVE  Precedes(stream[i])'
    <3>1. Precedes(stream[i])
      BY <2>2 DEF OrderInv
    <3> QED
      BY <1>2, <3>1 DEF Precedes, NotLater
  <2>3. StreamIsOrdered'
    BY <1>2 DEF OrderInv, StreamIsOrdered
  <2> QED
    BY <2>1, <2>2, <2>3
<1> QED
  BY <1>3, <1>4

LEMMA OrderInductive ==
  /\ Init => TimesInv /\ OrderInv
  /\ MInv /\ TimesInv /\ OrderInv /\ [Next]_vars => TimesInv' /\ OrderInv'
<1>1. ASSUME Init PROVE TimesInv /\ OrderInv
  <2>1. stream = <<>> /\ reader_queue = <<>> /\ queue = <<>>
    BY <1>1 DEF Init, ReaderMgrInit, IM!Init
  <2>2. Len(stream) = 0 /\ stream \in Seq([input : Files, record_time : Nat])
        /\ ReadersIn(reader_queue) = {} /\ Range(queue) = {}
    BY <2>1 DEF ReadersIn, Range
  <2> QED
    BY <2>2 DEF TimesInv, OrderInv, BatchIsAhead, StreamIsOrdered
<1>2. ASSUME MInv, TimesInv, OrderInv, [Next]_vars PROVE TimesInv' /\ OrderInv'
  <2>1. CASE Export
    BY <1>2, <2>1, ExportKeepsOrder
  <2>2. CASE TakeBatch
    BY <1>2, <2>2, TakeKeepsOrder
  <2>3. CASE AddReader
    <3>1. UNCHANGED <<queue, stream, round, capped>>
      BY <2>3 DEF AddReader, input_vars, history
    <3>2. CASE InsertNext
      BY <1>2, <3>1, <3>2, InsertKeepsOrder
    <3>3. CASE CreateNext
      <4> DEFINE in == Head(adding)
      <4>1. /\ Range(adding) = Range(adding') \cup {in}
            /\ ReadersIn(tmp_readers') =
                 ReadersIn(tmp_readers) \cup (IF PeriodCheck(in) THEN {ReaderCreate(in)} ELSE {})
            /\ UNCHANGED <<dumps, reader_queue, offered>>
        BY <1>2, <3>3, CreateEffect DEF MInv
      <4>2. ReaderCreate(in).input = in
        BY DEF ReaderCreate
      <4>3. Waiting' \subseteq Waiting
        BY <4>1, <4>2 DEF Waiting, InputsOf
      <4> QED
        BY <1>2, <3>1, <4>1, <4>3, LessKeepsOrder
    <3> QED
      BY <2>3, <3>2, <3>3 DEF AddReader
  <2>4. ASSUME NEW in \in Files, PushFile(in) PROVE TimesInv' /\ OrderInv'
    BY <1>2, <2>4, PushKeepsOrder
  <2>5. CASE Destroy
    <3>1. /\ UNCHANGED <<dumps, offered, round, capped, stream, adding, tmp_readers>>
          /\ queue' = <<>> /\ reader_queue' = <<>>
      BY <2>5 DEF Destroy, ReaderMgrDestroy, IM!Destroy, history
    <3>2. Range(queue') = {} /\ ReadersIn(reader_queue') = {} /\ Waiting' = Waiting
      BY <3>1 DEF Range, ReadersIn, Waiting
    <3> QED
      BY <1>2, <3>1, <3>2, LessKeepsOrder
  <2>6. ASSUME EndAdd \/ Query \/ QueryEnds \/ QuerySleeps \/ SleepEnds \/ QueryFails
               \/ SetLiveMode \/ Start \/ Stop \/ GetNextRecord
               \/ (\E in \in Files : Publish(in)) \/ UNCHANGED vars
        PROVE  TimesInv' /\ OrderInv'
    <3>1. UNCHANGED <<dumps, offered, round, capped, stream, adding, tmp_readers, queue,
                      reader_queue>>
      BY <2>6 DEF EndAdd, Query, QueryEnds, QuerySleeps, SleepEnds, QueryFails, SetLiveMode,
           Start, Stop, GetNextRecord, Publish, vars, RecordClear, input_vars, reader_vars,
           history
    <3>2. Waiting' = Waiting
      BY <3>1 DEF Waiting
    <3> QED
      BY <1>2, <3>1, <3>2, LessKeepsOrder
  <2> QED
    BY <1>2, <2>1, <2>2, <2>3, <2>4, <2>5, <2>6 DEF Next, Step, Call
<1> QED
  BY <1>1, <1>2

\* Records come out in the order of time over all dumps, collectors and
\* batches, for any files, contents, filters and number of readers, as long as
\* no batch is cut short by the cap on readers: the merge keeps the order
\* within a batch, and the cut of the queue between batches.
THEOREM Ordered == Spec => []StreamIsOrdered
<1>1. OrderInv => StreamIsOrdered
  BY DEF OrderInv, StreamIsOrdered
<1> QED
  BY <1>1, MInvInductive, OrderInductive, PTL DEF Spec

-----------------------------------------------------------------------------
(* What was delivered goes out                                             *)

\* The file, or the one the queue kept of its duplicates, is in the queue or
\* has been taken from it.
IsKept(in) ==
  \/ \E k \in 1..Len(queue) : SameFile(queue[k], in)
  \/ \E f \in offered : SameFile(f, in)

\* Nothing that the data source delivered is lost on the way to its reader:
\* it is kept, and only the period drops what is taken from the queue.
KeepInv ==
  /\ published \subseteq Files
  /\ status # "destroyed" => \A in \in Files : round[in] # 0 => IsKept(in)
  /\ mgr_status # "destroyed" =>
       \A in \in offered : ~ PeriodApplies(in) => in \in Taken \cup Range(adding)

\* What was taken from the queue stays taken, with a step of the reader manager.
LEMMA TakenIsKept ==
  ASSUME MInv, KeepInv, [ReaderMgrNext]_reader_vars, mgr_status' # "destroyed"
  PROVE  /\ offered \subseteq offered'
         /\ \A in \in offered' : ~ PeriodApplies(in) => in \in Taken' \cup Range(adding')
<1>0. IInv /\ Places
  BY DEF MInv
<1>1. CASE CreateNext
  <2> DEFINE in == Head(adding)
  <2>1. /\ Range(adding) = Range(adding') \cup {in}
        /\ UNCHANGED <<mgr_status, offered>>
    BY <1>0, <1>1, CreateEffect
  <2>2. Taken' = Taken \cup (IF PeriodCheck(in) THEN {in} ELSE {})
    BY <1>0, <1>1, TakenGrows
  <2>3. ~ PeriodApplies(in) => PeriodCheck(in)
    BY DEF PeriodCheck
  <2> HIDE DEF in
  <2> QED
    BY <2>1, <2>2, <2>3 DEF KeepInv
<1>2. ASSUME ~ CreateNext, ~ ReaderMgrDestroy,
             UNCHANGED <<offered, adding>>, mgr_status # "destroyed"
      PROVE  /\ offered \subseteq offered'
             /\ \A in \in offered' : ~ PeriodApplies(in) => in \in Taken' \cup Range(adding')
  <2>1. Taken' = Taken
    BY <1>0, <1>2, TakenGrows
  <2> QED
    BY <1>2, <2>1 DEF KeepInv
<1>3. CASE InsertNext
  <2>1. /\ UNCHANGED <<offered, adding>> /\ mgr_status # "destroyed"
    BY <1>0, <1>3, InsertEffect
  <2>2. ~ CreateNext /\ ~ ReaderMgrDestroy
    BY <1>3 DEF CreateNext, InsertNext, ReaderMgrDestroy
  <2> QED
    BY <1>2, <2>1, <2>2
<1>4. CASE ExportValid \/ ExportLast
  <2>1. UNCHANGED <<offered, adding>> /\ mgr_status = "non_empty"
    BY <1>0, <1>4, ExportEffect
  <2>2. ~ CreateNext
    BY <1>4 DEF CreateNext, ExportValid, ExportLast, BetweenCalls
  <2>3. ~ ReaderMgrDestroy
    BY DEF ReaderMgrDestroy
  <2> QED
    BY <1>2, <2>1, <2>2, <2>3
<1>5. ASSUME NEW batch \in Batches, Add(batch)
      PROVE  /\ offered \subseteq offered'
             /\ \A in \in offered' : ~ PeriodApplies(in) => in \in Taken' \cup Range(adding')
  <2>1. /\ adding = <<>> /\ adding' = batch
        /\ offered' = offered \cup Range(batch)
        /\ mgr_status # "destroyed"
    BY <1>0, <1>5, AddEffect
  <2>2. ~ CreateNext /\ ~ ReaderMgrDestroy
    BY <1>5 DEF CreateNext, Add, BetweenCalls, ReaderMgrDestroy
  <2>3. Taken' = Taken
    BY <1>0, <2>2, TakenGrows
  <2>4. Range(adding) = {}
    BY <2>1 DEF Range
  <2> QED
    BY <2>1, <2>3, <2>4 DEF KeepInv
<1>6. CASE ReaderMgrDestroy
  BY <1>6 DEF ReaderMgrDestroy
<1>7. CASE RecordClear \/ UNCHANGED reader_vars
  <2>1. UNCHANGED <<offered, adding, mgr_status>>
    BY <1>7 DEF RecordClear, reader_vars
  <2> QED
    BY <1>1, <1>2, <1>6, <2>1
<1> QED
  BY <1>1, <1>3, <1>4, <1>5, <1>6, <1>7 DEF ReaderMgrNext

\* A push of the data source loses no file.
LEMMA PushKeepsAll ==
  ASSUME MInv, KeepInv, NEW in \in Files, PushFile(in), offered' = offered,
         NEW f \in Files, round'[f] # 0
  PROVE  IsKept(f)'
<1>1. /\ status # "destroyed"
      /\ round' = [round EXCEPT ![in] = rounds + 1]
      /\ queue' = IF status = "empty" THEN <<in>> ELSE PushSortedInput(queue, in)
  BY SamePush DEF PushFile, IM!Push
<1>2. round \in [Files -> Nat]
  BY DEF MInv, BInv, RoundsInv
<1>3. /\ \E k \in 1..Len(queue') : SameFile(queue'[k], in)
      /\ \A l \in 1..Len(queue) : \E k \in 1..Len(queue') : queue'[k] = queue[l]
  <2>1. queue \in Seq(Files) /\ Len(queue) \in Nat
    BY LenProperties DEF MInv, BInv, QueueInv
  <2>2. SortedQueue(queue) /\ NoTwins(queue) /\ (status = "non_empty" <=> queue # <<>>)
    BY DEF MInv, BInv, QueueInv
  <2>3. AreInputs(Files)
    BY FilesAreInputs
  <2>4. CASE status = "empty"
    <3>1. queue' = <<in>> /\ queue = <<>> /\ Len(queue') = 1 /\ queue'[1] = in /\ Len(queue) = 0
      BY <1>1, <2>2, <2>4
    <3> QED
      BY <3>1 DEF SameFile
  <2>5. CASE status # "empty"
    <3>1. queue' = PushSortedInput(queue, in)
      BY <1>1, <2>5
    <3>2. \E k \in 1..Len(PushSortedInput(queue, in)) :
            SameFile(PushSortedInput(queue, in)[k], in)
      BY <2>1, <2>2, <2>3, PushKeepsQueue
    <3>3. ASSUME NEW l \in 1..Len(queue)
          PROVE  \E k \in 1..Len(PushSortedInput(queue, in)) :
                   PushSortedInput(queue, in)[k] = queue[l]
      BY <2>1, <2>2, <2>3, PushKeepsQueue
    <3> QED
      BY <3>1, <3>2, <3>3
  <2> QED
    BY <2>4, <2>5
<1>4. CASE f = in
  BY <1>3, <1>4 DEF IsKept
<1>5. CASE f # in
  <2>1. round[f] # 0
    BY <1>1, <1>2, <1>5
  <2>2. IsKept(f)
    BY <1>1, <2>1 DEF KeepInv
  <2>3. CASE \E k \in 1..Len(queue) : SameFile(queue[k], f)
    <3>1. PICK l \in 1..Len(queue) : SameFile(queue[l], f)
      BY <2>3
    <3>2. PICK k \in 1..Len(queue') : queue'[k] = queue[l]
      BY <1>3
    <3> QED
      BY <3>1, <3>2 DEF IsKept
  <2>4. CASE \E g \in offered : SameFile(g, f)
    BY <2>4 DEF IsKept
  <2> QED
    BY <2>2, <2>3, <2>4 DEF IsKept
<1> QED
  BY <1>4, <1>5

\* A batch and the rest of the queue are the queue.
LEMMA TakeKeepsAll ==
  ASSUME MInv, TakeBatch, NEW f \in Files, IsKept(f)
  PROVE  IsKept(f)'
<1> DEFINE n == LastToProcess(queue)
<1>1. /\ queue' = Remaining(queue)
      /\ offered' = offered \cup Range(ToProcess(queue))
  BY SameCut DEF TakeBatch, Add, IM!GetQueueToProcess
<1>2. queue \in Seq(Files) /\ SortedQueue(queue) /\ NoTwins(queue) /\ Len(queue) \in Nat
  BY LenProperties DEF MInv, BInv, QueueInv
<1>3. n \in 0..Len(queue)
  BY <1>2, LastToProcessCuts
<1>4. /\ ToProcess(queue) \in Seq(Files) /\ Len(ToProcess(queue)) = n
      /\ \A k \in 1..n : ToProcess(queue)[k] = queue[k]
      /\ queue' \in Seq(Files) /\ Len(queue') = Len(queue) - n
      /\ \A k \in 1..(Len(queue) - n) : queue'[k] = queue[n + k]
  BY <1>1, <1>2, CutKeepsQueue
<1>5. DOMAIN ToProcess(queue) = 1..n
  BY <1>4, LenProperties
<1> HIDE DEF n
<1>6. CASE \E k \in 1..Len(queue) : SameFile(queue[k], f)
  <2>1. PICK k \in 1..Len(queue) : SameFile(queue[k], f)
    BY <1>6
  <2>2. CASE k <= n
    <3>1. k \in 1..n
      BY <1>2, <1>3, <2>2
    <3>2. ToProcess(queue)[k] = queue[k] /\ k \in DOMAIN ToProcess(queue)
      BY <1>4, <1>5, <3>1
    <3>3. queue[k] \in offered'
      BY <1>1, <3>2 DEF Range
    <3> QED
      BY <2>1, <3>3 DEF IsKept
  <2>3. CASE k > n
    <3>1. k - n \in 1..(Len(queue) - n) /\ n + (k - n) = k
      BY <1>2, <1>3, <2>3
    <3>2. queue'[k - n] = queue[k] /\ k - n \in 1..Len(queue')
      BY <1>4, <3>1
    <3> QED
      BY <2>1, <3>2 DEF IsKept
  <2> QED
    BY <1>2, <1>3, <2>2, <2>3
<1>7. CASE \E g \in offered : SameFile(g, f)
  BY <1>1, <1>7 DEF IsKept
<1> QED
  BY <1>6, <1>7 DEF IsKept

LEMMA KeepInductive ==
  /\ Init => KeepInv
  /\ MInv /\ KeepInv /\ [Next]_vars => KeepInv'
<1>1. ASSUME Init PROVE KeepInv
  BY <1>1 DEF Init, ReaderMgrInit, KeepInv
<1>2. ASSUME MInv, KeepInv, [Next]_vars PROVE KeepInv'
  <2>0. [ReaderMgrNext]_reader_vars
    BY <1>2, ReaderStep DEF MInv
  <2>1. ASSUME mgr_status' # "destroyed"
        PROVE  \A in \in offered' : ~ PeriodApplies(in) => in \in Taken' \cup Range(adding')
    BY <1>2, <2>0, <2>1, TakenIsKept
  <2>2. ASSUME status' # "destroyed", NEW f \in Files, round'[f] # 0
        PROVE  IsKept(f)'
    <3>1. CASE TakeBatch
      <4>1. round' = round /\ status # "destroyed"
        BY <3>1 DEF TakeBatch, IM!GetQueueToProcess
      <4>2. IsKept(f)
        BY <1>2, <2>2, <4>1 DEF KeepInv
      <4> QED
        BY <1>2, <3>1, <4>2, TakeKeepsAll
    <3>2. ASSUME NEW in \in Files, PushFile(in)
          PROVE  IsKept(f)'
      <4>1. offered' = offered
        BY <3>2 DEF PushFile, reader_vars
      <4> QED
        BY <1>2, <2>2, <3>2, <4>1, PushKeepsAll
    <3>3. CASE Destroy
      BY <2>2, <3>3 DEF Destroy, IM!Destroy
    <3>4. ASSUME UNCHANGED <<queue, status, round, offered>>
          PROVE  IsKept(f)'
      <4>1. IsKept(f)
        BY <1>2, <2>2, <3>4 DEF KeepInv
      <4> QED
        BY <3>4, <4>1 DEF IsKept
    <3>5. CASE Export \/ AddReader \/ GetNextRecord
      <4>1. UNCHANGED <<queue, status, round>>
        BY <3>5 DEF Export, AddReader, GetNextRecord, input_vars, history
      <4>2. offered' = offered
        BY <3>5, OfferedStays DEF Export, AddReader, GetNextRecord, reader_vars
      <4> QED
        BY <3>4, <4>1, <4>2
    <3>6. CASE EndAdd \/ Query \/ QueryEnds \/ QuerySleeps \/ SleepEnds \/ QueryFails
               \/ SetLiveMode \/ Start \/ Stop
               \/ (\E in \in Files : Publish(in)) \/ UNCHANGED vars
      <4>1. UNCHANGED <<queue, status, round, offered>>
        BY <3>6 DEF EndAdd, Query, QueryEnds, QuerySleeps, SleepEnds, QueryFails,
             SetLiveMode, Start, Stop, Publish, vars, input_vars, reader_vars, history
      <4> QED
        BY <3>4, <4>1
    <3> QED
      BY <1>2, <3>1, <3>2, <3>3, <3>5, <3>6 DEF Next, Step, Call
  <2>3. published' \subseteq Files
    <3>1. CASE \E in \in Files : Publish(in)
      BY <1>2, <3>1 DEF KeepInv, Publish
    <3>2. CASE ~ \E in \in Files : Publish(in)
      <4>1. UNCHANGED published
        BY <1>2, <3>2 DEF Next, Step, Call, Export, TakeBatch, AddReader, EndAdd, Query,
             PushFile, QueryEnds, QuerySleeps, SleepEnds, QueryFails, SetLiveMode, Start,
             Stop, Destroy, GetNextRecord, vars
      <4> QED
        BY <1>2, <4>1 DEF KeepInv
    <3> QED
      BY <3>1, <3>2
  <2> QED
    BY <2>1, <2>2, <2>3 DEF KeepInv
<1> QED
  BY <1>1, <1>2

\* The steps that the end of a query can be.
LEMMA EndsAre ==
  ASSUME [Next]_vars, pc = "query", pc' = "idle", ret'.value = 0
  PROVE  status = "empty" /\ \A in \in published : Delivered(in)
<1>1. QueryEnds \/ QueryFails \/ (\E in \in Files : PushFile(in)) \/ QuerySleeps
        \/ (\E in \in Files : Publish(in)) \/ UNCHANGED vars
  BY DEF Next, Step, Call, Export, TakeBatch, AddReader, EndAdd, Query, SleepEnds,
       SetLiveMode, Start, Stop, Destroy, GetNextRecord
<1>2. ~ (\E in \in Files : PushFile(in)) /\ ~ QuerySleeps
        /\ ~ (\E in \in Files : Publish(in)) /\ ~ UNCHANGED vars
  BY DEF PushFile, QuerySleeps, Publish, vars, own_vars
<1>3. ~ QueryFails
  BY DEF QueryFails, Return
<1> QED
  BY <1>1, <1>2, <1>3 DEF QueryEnds

\* The end of a query that ends the stream: the data source has nothing left,
\* what it handed over by this or by earlier queries, failed ones too, went
\* through the queue and the readers, and each dump gave all of its matching
\* entries.
LEMMA EndIsComplete ==
  ASSUME MInv, KeepInv, [Next]_vars
  PROVE  CompleteEnd
<1> SUFFICES ASSUME pc = "query", pc' = "idle", ret'.value = 0, NEW in \in published
             PROVE  /\ ~ PeriodApplies(in) =>
                         \E f \in Files : SameFile(f, in) /\ exported[f] # <<>>
                    /\ exported[in] # <<>> => DeliveredFrom(in) = Deliverable(in)
  BY DEF CompleteEnd
<1>1. status = "empty" /\ Delivered(in)
  BY EndsAre
<1>2. /\ Waiting = {} /\ InputsOf(reader_queue) = {} /\ ReadersIn(reader_queue) = {}
      /\ mgr_status = "empty"
  BY QueryIsQuiet
<1>3. Range(adding) = {} /\ InputsOf(tmp_readers) = {}
  BY <1>2 DEF Waiting
<1>4. in \in Files
  BY DEF KeepInv
<1>5. ASSUME ~ PeriodApplies(in)
      PROVE  \E f \in Files : SameFile(f, in) /\ exported[f] # <<>>
  <2>1. IsKept(in)
    BY <1>1, <1>4 DEF KeepInv, Delivered
  <2>2. queue = <<>> /\ Len(queue) = 0
    BY <1>1 DEF MInv, BInv, QueueInv
  <2>3. PICK f \in offered : SameFile(f, in)
    BY <2>1, <2>2 DEF IsKept
  <2>4. f \in Files
    BY <2>3 DEF MInv, BInv, RoundsInv
  <2>5. ~ PeriodApplies(f)
    BY <1>5, <2>3 DEF PeriodApplies, SameFile
  <2>6. f \in Taken
    BY <1>2, <1>3, <2>3, <2>5 DEF KeepInv
  <2>7. exported[f] # <<>>
    BY <1>2, <1>3, <2>6, TakenAre
  <2> QED
    BY <2>3, <2>4, <2>7
<1>6. ASSUME exported[in] # <<>>
      PROVE  DeliveredFrom(in) = Deliverable(in)
  <2>1. Once(in)
    BY <1>4, OnceEach DEF MInv, Progress
  <2> QED
    BY <1>2, <1>6, <2>1 DEF Once
<1> QED
  BY <1>5, <1>6

\* bgpstream_get_next_record returns 0 only when everything was delivered.
THEOREM EndsComplete == Spec => EndsWhenComplete
<1>1. MInv /\ KeepInv /\ [Next]_vars => CompleteEnd
  BY EndIsComplete
<1> QED
  BY <1>1, MInvInductive, KeepInductive, PTL DEF Spec, EndsWhenComplete

-----------------------------------------------------------------------------
(* What the stream promises                                                *)

\* Only what is in the data source is delivered.
PublishedInv == \A in \in Files : Delivered(in) => in \in published

LEMMA PublishedInductive ==
  /\ Init => PublishedInv
  /\ MInv /\ PublishedInv /\ [Next]_vars => PublishedInv'
<1>1. ASSUME Init PROVE PublishedInv
  BY <1>1 DEF Init, PublishedInv, Delivered
<1>2. ASSUME MInv, PublishedInv, [Next]_vars PROVE PublishedInv'
  <2>1. ASSUME NEW in \in Files, PushFile(in) PROVE PublishedInv'
    <3>1. round \in [Files -> Nat]
      BY <1>2 DEF MInv, BInv, RoundsInv
    <3> QED
      BY <1>2, <2>1, <3>1 DEF PushFile, PublishedInv, Delivered
  <2>2. ASSUME NEW in \in Files, Publish(in) PROVE PublishedInv'
    BY <1>2, <2>2 DEF Publish, history, PublishedInv, Delivered
  <2>3. ASSUME UNCHANGED <<round, published>> PROVE PublishedInv'
    BY <1>2, <2>3 DEF PublishedInv, Delivered
  <2>4. CASE Export \/ TakeBatch \/ AddReader \/ EndAdd \/ Query
    BY <2>3, <2>4 DEF Export, TakeBatch, AddReader, EndAdd, Query, history
  <2>5. CASE QueryEnds \/ QuerySleeps \/ SleepEnds \/ QueryFails
    BY <2>3, <2>5 DEF QueryEnds, QuerySleeps, SleepEnds, QueryFails, history
  <2>6. CASE Call \/ UNCHANGED vars
    BY <2>3, <2>6 DEF Call, SetLiveMode, Start, Stop, Destroy, GetNextRecord, vars, history
  <2> QED
    BY <1>2, <2>1, <2>2, <2>4, <2>5, <2>6 DEF Next, Step
<1> QED
  BY <1>1, <1>2

\* What the caller got depends on the dumps and on what was exported.
LEMMA SameIsSeen ==
  UNCHANGED <<dumps, exported>> => UNCHANGED <<Due, Given, Closed>>
BY DEF Due, Given, Closed, Deliverable, DeliveredFrom

LEMMA DueType ==
  ASSUME dumps \in Dumps
  PROVE  Due \in [Files -> SUBSET (Nat \ {0})]
<1>1. ASSUME NEW f \in Files PROVE Deliverable(f) \in SUBSET (Nat \ {0})
  <2>1. dumps[f].items \in Seq(Items(Nat))
    BY ReaderMgrAssumption
  <2>2. DOMAIN dumps[f].items = 1..Len(dumps[f].items) /\ Len(dumps[f].items) \in Nat
    BY <2>1, LenProperties
  <2> QED
    BY <2>2 DEF Deliverable
<1> QED
  BY <1>1 DEF Due

\* The record that an export returns: the next entry of its file, or the last
\* record of a file that has no entry left.
LEMMA ExportIsSeen ==
  ASSUME MInv, MInv', PublishedInv, Export
  PROVE  Seen!Give \/ Seen!Close
<1>0. /\ IInv /\ Places /\ Progress /\ (ExportValid \/ ExportLast)
      /\ pc = "loop" /\ pc' = "idle" /\ ret' = [call |-> "get", value |-> 1]
      /\ UNCHANGED <<bs_status, blocking, published>>
  BY DEF MInv, Export, Return
<1>1. PICK head \in Readers, f \in Files, b \in Nat :
        /\ head = reader_queue[1] /\ f = head.input /\ b = head.bd_entry
        /\ head \in ReadersIn(reader_queue)
        /\ record' \in ExportedRecords /\ record'.bd_entry = b
        /\ exported' = [exported EXCEPT ![f] = Append(@, record')]
        /\ UNCHANGED dumps
  <2> DEFINE h == reader_queue[1]
  <2>1. /\ h \in Readers /\ h \in ReadersIn(reader_queue)
        /\ record' \in ExportedRecords /\ record'.bd_entry = h.bd_entry
        /\ exported' = [exported EXCEPT ![h.input] = Append(@, record')]
        /\ UNCHANGED dumps
    BY <1>0, ExportEffect
  <2> HIDE DEF h
  <2>2. h.input \in Files /\ h.bd_entry \in Nat
    BY <2>1 DEF Readers
  <2> QED
    BY <2>1, <2>2 DEF h
<1>2. f \in published
  <2>1. f \in offered
    BY <1>0, <1>1 DEF Places, InputsOf
  <2>2. round[f] # 0
    BY <2>1 DEF MInv, BInv, RoundsInv
  <2> QED
    BY <2>2 DEF PublishedInv, Delivered
<1>3. PICK s : s = exported[f]
  OBVIOUS
<1>4. /\ head.status = "VALID_ENTRY" =>
           /\ b \in Deliverable(f) /\ b > 0
           /\ \A d \in DeliveredFrom(f) : d < b
           /\ DeliveredFrom(f) \cup ({b} \ {0}) = {e \in Deliverable(f) : e <= b}
      /\ head.status # "VALID_ENTRY" =>
           b = 0 /\ DeliveredFrom(f) \cup ({b} \ {0}) = Deliverable(f)
      /\ Deliverable(f) \subseteq Nat
  BY <1>0, <1>1, ExportKeepsUp
<1>5. /\ \A in \in Files \ {f} :
           exported'[in] = exported[in] /\ DeliveredFrom(in)' = DeliveredFrom(in)
      /\ DeliveredFrom(f)' = DeliveredFrom(f) \cup ({b} \ {0})
  <2>1. /\ \A in \in Files \ {f} :
             exported'[in] = exported[in] /\ DeliveredFrom(in)' = DeliveredFrom(in)
        /\ DeliveredFrom(f)' = DeliveredFrom(f) \cup ({record'.bd_entry} \ {0})
    BY <1>0, <1>1, ExportedGrows
  <2> QED
    BY <1>1, <2>1
<1>6. /\ \A k \in DOMAIN exported'[f] :
           \/ k \in DOMAIN s /\ exported'[f][k] = s[k]
           \/ exported'[f][k] = record'
      /\ \E k \in DOMAIN exported'[f] : exported'[f][k] = record'
  <2>1. s \in Seq(ExportedRecords) /\ exported'[f] = Append(s, record')
    BY <1>0, <1>1, <1>3 DEF Places
  <2>2. PICK t : t = Append(s, record')
    OBVIOUS
  <2>3. /\ t \in Seq(ExportedRecords) /\ Len(t) = Len(s) + 1
        /\ \A k \in 1..Len(s) : t[k] = s[k]
        /\ t[Len(s) + 1] = record'
    BY <1>1, <2>1, <2>2, AppendProperties
  <2>4. DOMAIN s = 1..Len(s) /\ Len(s) \in Nat /\ DOMAIN t = 1..(Len(s) + 1)
    BY <2>1, <2>3, LenProperties
  <2>5. \A k \in 1..(Len(s) + 1) : k \in 1..Len(s) \/ k = Len(s) + 1
    BY <2>4
  <2>6. Len(s) + 1 \in 1..(Len(s) + 1)
    BY <2>4
  <2> QED
    BY <2>1, <2>2, <2>3, <2>4, <2>5, <2>6
<1>7. \A k \in DOMAIN s : s[k].bd_entry # 0
  BY <1>0, <1>1, <1>3 DEF Progress, Behind
<1>8. f \notin Closed
  BY <1>3, <1>7 DEF Closed
<1>9. Closed' = IF b = 0 THEN Closed \cup {f} ELSE Closed
  <2>1. ASSUME NEW in \in Files, in # f PROVE in \in Closed' <=> in \in Closed
    BY <1>5, <2>1 DEF Closed
  <2>2. f \in Closed' <=> b = 0
    <3>1. f \in Closed' <=> \E k \in DOMAIN exported'[f] : exported'[f][k].bd_entry = 0
      BY <1>2 DEF Closed
    <3> QED
      BY <1>1, <1>6, <1>7, <3>1
  <2>3. Closed' \subseteq Files /\ Closed \subseteq Files
    BY DEF Closed
  <2> QED
    BY <1>8, <2>1, <2>2, <2>3
<1>10. Given' = [Given EXCEPT ![f] = @ \cup ({b} \ {0})]
  <2>1. Given' = [in \in Files |-> DeliveredFrom(in)']
    BY DEF Given
  <2> QED
    BY <1>2, <1>5, <2>1 DEF Given
<1>11. Due' = Due
  BY <1>1 DEF Due, Deliverable
<1>12. Given[f] = DeliveredFrom(f) /\ Due[f] = Deliverable(f)
  BY <1>2 DEF Given, Due
<1>13. Seen!Answer(1)
  BY <1>0 DEF Seen!Answer
<1>14. CASE head.status = "VALID_ENTRY"
  <2>1. /\ b \in Due[f] \ Given[f] /\ b # 0
    <3>1. b \notin DeliveredFrom(f)
      BY <1>2, <1>4, <1>14
    <3> QED
      BY <1>4, <1>12, <1>14, <3>1
  <2>2. ASSUME NEW d \in Due[f] \ Given[f] PROVE b <= d
    <3>1. d \in Nat /\ d \in Deliverable(f) /\ d \notin DeliveredFrom(f)
      BY <1>4, <1>12
    <3>2. d # b => ~ (d <= b)
      BY <1>4, <1>14, <3>1
    <3> QED
      BY <1>2, <3>1, <3>2
  <2>3. Given' = [Given EXCEPT ![f] = @ \cup {b}] /\ Closed' = Closed
    <3>1. {b} \ {0} = {b}
      BY <2>1
    <3> QED
      BY <1>9, <1>10, <2>1, <3>1
  <2>4. f \in published \ Closed
    BY <1>2, <1>8
  <2>5. \E g \in published \ Closed : \E e \in Due[g] \ Given[g] :
          /\ \A d \in Due[g] \ Given[g] : e <= d
          /\ Given' = [Given EXCEPT ![g] = @ \cup {e}]
    BY <2>1, <2>2, <2>3, <2>4
  <2>6. UNCHANGED <<bs_status, blocking, published, Due, Closed>>
    BY <1>0, <1>11, <2>3
  <2>7. Seen!Give
    BY <1>13, <2>5, <2>6 DEF Seen!Give
  <2> QED
    BY <2>7
<1>15. CASE head.status # "VALID_ENTRY"
  <2>1. b = 0 /\ {b} \ {0} = {}
    BY <1>4, <1>15
  <2>2. Given' = Given /\ Closed' = Closed \cup {f}
    BY <1>9, <1>10, <2>1 DEF Given
  <2>3. Given[f] = Due[f]
    BY <1>4, <1>12, <1>15, <2>1
  <2>4. Seen!Close
    BY <1>0, <1>2, <1>8, <1>11, <1>13, <2>2, <2>3 DEF Seen!Close, Seen!Exhausted
  <2> QED
    BY <2>4
<1> QED
  BY <1>14, <1>15

\* The end is the end.
LEMMA StreamEndIsSeen ==
  ASSUME MInv, KeepInv, PublishedInv, QueryEnds
  PROVE  Seen!Next \/ UNCHANGED Seen!promise_vars
<1>1. /\ UNCHANGED <<bs_status, blocking, published, dumps, exported>> /\ pc = "query"
      /\ [Next]_vars
  BY DEF QueryEnds, reader_vars, Next, Step
<1>2. UNCHANGED <<Due, Given, Closed>>
  BY <1>1, SameIsSeen
<1>3. CASE pc' # "idle"
  <2>1. pc' = "loop" /\ ret' = ret
    BY <1>3 DEF QueryEnds, Return
  <2> QED
    BY <1>1, <1>2, <2>1 DEF Seen!promise_vars
<1>4. CASE pc' = "idle"
  <2>1. ~ blocking /\ ret' = [call |-> "get", value |-> 0]
    BY <1>4 DEF QueryEnds, Return
  <2>2. CompleteEnd
    BY <1>1, EndIsComplete
  <2>3. ASSUME NEW f \in published
        PROVE  /\ PeriodApplies(f) \/ \E g \in published : SameFile(g, f) /\ Seen!Touched(g)
               /\ Seen!Touched(f) => Seen!Exhausted(f)
    <3>1. /\ ~ PeriodApplies(f) =>
               \E g \in Files : SameFile(g, f) /\ exported[g] # <<>>
          /\ exported[f] # <<>> => DeliveredFrom(f) = Deliverable(f)
      BY <1>1, <1>4, <2>1, <2>2 DEF CompleteEnd
    <3>2. f \in Files
      BY DEF KeepInv
    <3>3. ASSUME NEW g \in Files, exported[g] # <<>>
          PROVE  g \in published /\ Seen!Touched(g)
      <4>1. g \in offered
        BY <3>3 DEF MInv, Places
      <4>2. g \in published
        BY <4>1 DEF MInv, BInv, RoundsInv, PublishedInv, Delivered
      <4>3. exported[g] \in Seq(ExportedRecords) /\ Len(exported[g]) \in Nat
        BY LenProperties DEF MInv, Places
      <4>4. Len(exported[g]) # 0
        BY <3>3, <4>3, EmptySeq
      <4>5. 1 \in DOMAIN exported[g]
        BY <4>3, <4>4, LenProperties
      <4>6. CASE exported[g][1].bd_entry = 0
        <5>1. g \in Closed
          BY <4>5, <4>6 DEF Closed
        <5> QED
          BY <4>2, <5>1 DEF Seen!Touched
      <4>7. CASE exported[g][1].bd_entry # 0
        <5>1. exported[g][1].bd_entry \in DeliveredFrom(g)
          BY <4>5, <4>7 DEF DeliveredFrom
        <5>2. Given[g] # {}
          BY <5>1 DEF Given
        <5> QED
          BY <4>2, <5>2 DEF Seen!Touched
      <4> QED
        BY <4>6, <4>7
    <3>4. ASSUME Seen!Touched(f) PROVE exported[f] # <<>>
      <4>1. \E k \in DOMAIN exported[f] : TRUE
        BY <3>2, <3>4 DEF Seen!Touched, Given, Closed, DeliveredFrom
      <4> QED
        BY <4>1
    <3>5. Given[f] = DeliveredFrom(f) /\ Due[f] = Deliverable(f)
      BY <3>2 DEF Given, Due
    <3> QED
      BY <3>1, <3>3, <3>4, <3>5 DEF Seen!Exhausted
  <2>4. Seen!End
    BY <1>1, <1>2, <1>4, <2>1, <2>3 DEF Seen!End, Seen!Answer
  <2> QED
    BY <2>4 DEF Seen!Next
<1> QED
  BY <1>3, <1>4

\* Every step is one that was promised, or none that the caller sees.
LEMMA StepIsSeen ==
  ASSUME MInv, MInv', KeepInv, PublishedInv, [Next]_vars
  PROVE  Seen!Next \/ UNCHANGED Seen!promise_vars
<1>1. CASE Export
  <2>1. Seen!Give \/ Seen!Close
    BY <1>1, ExportIsSeen
  <2> QED
    BY <2>1 DEF Seen!Next
<1>2. CASE QueryEnds
  BY <1>2, StreamEndIsSeen
<1>3. CASE TakeBatch \/ AddReader \/ EndAdd \/ Query \/ (\E in \in Files : PushFile(in))
             \/ QuerySleeps \/ SleepEnds \/ UNCHANGED vars
  <2>1. UNCHANGED <<bs_status, blocking, ret, published>>
    BY <1>3 DEF TakeBatch, AddReader, EndAdd, Query, PushFile, QuerySleeps, SleepEnds,
       vars, own_vars
  <2>2. (pc # "idle") = (pc' # "idle")
    BY <1>3 DEF TakeBatch, AddReader, EndAdd, Query, PushFile, QuerySleeps, SleepEnds,
       vars, own_vars
  <2>3. UNCHANGED <<dumps, exported>>
    BY <1>3 DEF TakeBatch, Add, AddReader, CreateNext, InsertNext, EndAdd, Query, PushFile,
       QuerySleeps, SleepEnds, vars, reader_vars
  <2>4. UNCHANGED <<Due, Given, Closed>>
    BY <2>3, SameIsSeen
  <2> QED
    BY <2>1, <2>2, <2>4 DEF Seen!promise_vars
<1>4. CASE QueryFails
  <2>1. UNCHANGED <<dumps, exported>>
    BY <1>4 DEF QueryFails, reader_vars
  <2>2. UNCHANGED <<Due, Given, Closed>>
    BY <2>1, SameIsSeen
  <2>3. Seen!Fail
    BY <1>4, <2>2 DEF QueryFails, Return, Seen!Fail, Seen!Answer
  <2> QED
    BY <2>3 DEF Seen!Next
<1>5. CASE SetLiveMode \/ Start \/ Stop
  <2>1. UNCHANGED <<dumps, exported>>
    BY <1>5 DEF SetLiveMode, Start, Stop, reader_vars
  <2>2. UNCHANGED <<Due, Given, Closed>>
    BY <2>1, SameIsSeen
  <2>3. CASE SetLiveMode
    <3>1. Seen!GoLive
      BY <2>2, <2>3 DEF SetLiveMode, Return, Seen!GoLive, Seen!Quiet
    <3> QED
      BY <3>1 DEF Seen!Next
  <2>4. CASE Start
    <3>1. Seen!Start
      BY <2>2, <2>4 DEF Start, Return, Seen!Start, Seen!Quiet
    <3> QED
      BY <3>1 DEF Seen!Next
  <2>5. CASE Stop
    <3>1. Seen!Stop
      BY <2>2, <2>5 DEF Stop, Return, Seen!Stop, Seen!Quiet
    <3> QED
      BY <3>1 DEF Seen!Next
  <2> QED
    BY <1>5, <2>3, <2>4, <2>5
<1>6. CASE Destroy
  <2>1. UNCHANGED <<dumps, exported>>
    BY <1>6 DEF Destroy, ReaderMgrDestroy
  <2>2. UNCHANGED <<Due, Given, Closed>>
    BY <2>1, SameIsSeen
  <2>3. Seen!Destroy
    BY <1>6, <2>2 DEF Destroy, Return, Seen!Destroy, Seen!Quiet
  <2> QED
    BY <2>3 DEF Seen!Next
<1>7. CASE GetNextRecord
  <2>1. UNCHANGED <<dumps, exported>>
    BY <1>7 DEF GetNextRecord, RecordClear, reader_vars
  <2>2. UNCHANGED <<Due, Given, Closed>>
    BY <2>1, SameIsSeen
  <2>3. Seen!Call
    BY <1>7, <2>2 DEF GetNextRecord, Return, Seen!Call, Seen!Quiet
  <2> QED
    BY <2>3 DEF Seen!Next
<1>8. CASE \E in \in Files : Publish(in)
  <2>1. UNCHANGED <<dumps, exported>>
    BY <1>8 DEF Publish, reader_vars
  <2>2. UNCHANGED <<Due, Given, Closed>>
    BY <2>1, SameIsSeen
  <2>3. Seen!Publish
    BY <1>8, <2>2 DEF Publish, own_vars, Seen!Publish
  <2> QED
    BY <2>3 DEF Seen!Next
<1> QED
  BY <1>1, <1>2, <1>3, <1>4, <1>5, <1>6, <1>7, <1>8 DEF Next, Step, Call

\* The stream implements its promise.
THEOREM PromiseKept == Spec => KeepsItsPromise
<1>1. ASSUME Init PROVE Seen!Init
  <2>1. dumps \in Dumps /\ exported = [in \in Files |-> <<>>]
    BY <1>1 DEF Init, ReaderMgrInit
  <2>2. Given = [in \in Files |-> {}] /\ Closed = {}
    BY <2>1 DEF Given, Closed, DeliveredFrom
  <2>3. Due \in [Files -> SUBSET (Nat \ {0})]
    BY <2>1, DueType
  <2> QED
    BY <1>1, <2>2, <2>3 DEF Init, Seen!Init
<1>2. ASSUME MInv, MInv', KeepInv, PublishedInv, [Next]_vars
      PROVE  [Seen!Next]_(Seen!promise_vars)
  BY <1>2, StepIsSeen
<1> QED
  BY <1>1, <1>2, MInvInductive, KeepInductive, PublishedInductive, PTL
     DEF Spec, KeepsItsPromise, Seen!Spec

=============================================================================
