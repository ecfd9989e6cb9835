--------------------------- MODULE ReaderOpenProofs ---------------------------
(***************************************************************************)
(* Proofs about ReaderOpen: no interleaving of the producers with the      *)
(* user's thread reads through a dump that is not open or touches a freed  *)
(* reader, and the threads implement OpenDumps, for any number of dumps    *)
(* and attempts.                                                           *)
(***************************************************************************)
EXTENDS ReaderOpen, TLAPS

-----------------------------------------------------------------------------
(* The inductive invariant                                                 *)

\* How far a producer has come tells what it has written.
ProducerAt(r) ==
  /\ ppc[r] \in {"none", "open", "sleep"} => bd_mgr[r] = "null" /\ retries[r] < MaxRetries
  /\ bd_mgr[r] = "null" /\ ppc[r] \notin {"none", "open", "sleep"} => retries[r] = MaxRetries
  /\ ppc[r] \in {"ready", "signal", "unlock", "exited"} =>
       (status[r] = "CANT_OPEN_DUMP" <=> bd_mgr[r] = "null")
  /\ ppc[r] \notin {"ready", "signal", "unlock", "exited"} => status[r] = "VALID_ENTRY"
  /\ dump_ready[r] => ppc[r] \in {"signal", "unlock", "exited"}

ProducerInv == \A r \in Readers : ProducerAt(r)

\* A reader lives from its creation until it is freed, behind its producer.
ObjectInv ==
  /\ \A r \in Readers :
       /\ ppc[r] \notin {"none", "exited"} => object[r] = "live"
       /\ bd_mgr[r] = "closed" => object[r] = "freed"
       /\ result[r] = "none" /\ upc # "create" => object[r] = "live"
       /\ upc = "create" => (ppc[r] = "none" <=> r >= cur)
       /\ upc = "create" => (object[r] = "live" <=> r < cur)
       /\ upc # "create" => ppc[r] # "none"
  /\ upc \notin {"create", "idle"} => object[cur] = "live"
  /\ upc = "free" => ppc[cur] = "exited"

\* What the user's thread knows of its reader.
UserInv ==
  /\ \A r \in Readers : skip_dump_check[r] => dump_ready[r] /\ status[r] = "VALID_ENTRY"
  /\ upc \in {"unlock", "verdict", "read"} => dump_ready[cur]
  /\ upc = "read" => status[cur] = "VALID_ENTRY"

\* The batch is read in its order; afterwards every reader has its result.
OrderInv ==
  \/ /\ upc = "create"
     /\ \A r \in Readers : result[r] = "none"
  \/ /\ upc \notin {"create", "idle", "free"}
     /\ \A r \in Readers : result[r] = "none" <=> r >= cur
  \/ /\ upc # "create"
     /\ \A r \in Readers : result[r] # "none"

IInv == TypeOK /\ ProducerInv /\ ObjectInv /\ UserInv /\ OrderInv

LEMMA IInvInit == Init => IInv
  BY ReaderOpenAssumption
  DEF Init, IInv, TypeOK, ProducerInv, ProducerAt, ObjectInv, UserInv, OrderInv, Readers

-----------------------------------------------------------------------------
(* The steps of a producer                                                 *)

LEMMA ProducerKeeps ==
  ASSUME IInv, NEW r \in Readers, Producer(r)
  PROVE  IInv'
<1> USE DEF Readers
<1>1. CASE OpenDump(r)
  <2>1. /\ ppc[r] = "open" /\ bd_mgr[r] = "null" /\ status[r] = "VALID_ENTRY"
        /\ ~ dump_ready[r]
        /\ retries[r] \in Nat /\ retries[r] + 1 \in 0..MaxRetries
    <3>1. ppc[r] = "open" /\ ProducerAt(r)
      BY <1>1 DEF OpenDump, IInv, ProducerInv
    <3>2. retries[r] \in 0..MaxRetries
      BY DEF IInv, TypeOK
    <3> QED
      BY <3>1, <3>2, ReaderOpenAssumption DEF ProducerAt
  <2>2. PICK mgr \in {"null", "open"}, n \in 0..MaxRetries, next \in {"sleep", "lock"} :
          /\ bd_mgr' = [bd_mgr EXCEPT ![r] = mgr]
          /\ retries' = [retries EXCEPT ![r] = n]
          /\ ppc' = [ppc EXCEPT ![r] = next]
          /\ next = "sleep" => mgr = "null" /\ n < MaxRetries
          /\ next = "lock" /\ mgr = "null" => n = MaxRetries
    <3>1. CASE UNCHANGED retries
      <4>1. /\ bd_mgr' = [bd_mgr EXCEPT ![r] = "open"]
            /\ retries' = [retries EXCEPT ![r] = retries[r]]
            /\ ppc' = [ppc EXCEPT ![r] = "lock"]
        BY <1>1, <3>1, <2>1 DEF OpenDump, IInv, TypeOK
      <4>2. retries[r] \in 0..MaxRetries
        BY <2>1, ReaderOpenAssumption
      <4> QED
        BY <4>1, <4>2
    <3>2. CASE ~ UNCHANGED retries
      <4> DEFINE next == IF retries[r] + 1 < MaxRetries THEN "sleep" ELSE "lock"
      <4>1. /\ bd_mgr' = [bd_mgr EXCEPT ![r] = "null"]
            /\ retries' = [retries EXCEPT ![r] = retries[r] + 1]
            /\ ppc' = [ppc EXCEPT ![r] = next]
        BY <1>1, <3>2, <2>1 DEF OpenDump, IInv, TypeOK
      <4>2. /\ next = "sleep" => retries[r] + 1 < MaxRetries
            /\ next = "lock" => retries[r] + 1 = MaxRetries
            /\ next \in {"sleep", "lock"}
        BY <2>1, ReaderOpenAssumption
      <4> HIDE DEF next
      <4> QED
        BY <4>1, <4>2, <2>1
    <3> QED
      BY <3>1, <3>2
  <2>3. UNCHANGED <<status, dump_ready, skip_dump_check, mutex, object, upc, cur, result>>
    BY <1>1 DEF OpenDump
  <2>4. TypeOK'
    BY <2>2, <2>3 DEF IInv, TypeOK
  <2>5. ProducerAt(r)'
    BY <2>1, <2>2, <2>3 DEF IInv, TypeOK, ProducerAt
  <2>6. ASSUME NEW s \in Readers, s # r PROVE ProducerAt(s)'
    BY <2>2, <2>3, <2>6 DEF IInv, TypeOK, ProducerInv, ProducerAt
  <2>7. ObjectInv' /\ UserInv' /\ OrderInv'
    BY <2>1, <2>2, <2>3 DEF IInv, TypeOK, ObjectInv, UserInv, OrderInv
  <2> QED
    BY <2>4, <2>5, <2>6, <2>7 DEF IInv, ProducerInv
<1>2. CASE SleepEnds(r)
  BY <1>2 DEF SleepEnds, fields, IInv, TypeOK, ProducerInv, ProducerAt, ObjectInv, UserInv, OrderInv
<1>3. CASE ProducerLock(r)
  BY <1>3 DEF ProducerLock, IInv, TypeOK, ProducerInv, ProducerAt, ObjectInv, UserInv, OrderInv
<1>4. CASE PublishStatus(r)
  <2>1. TypeOK' /\ ProducerInv'
    BY <1>4 DEF PublishStatus, IInv, TypeOK, ProducerInv, ProducerAt
  <2>2. ObjectInv' /\ OrderInv'
    BY <1>4 DEF PublishStatus, IInv, TypeOK, ProducerInv, ProducerAt, ObjectInv, OrderInv
  <2>3. UserInv'
    BY <1>4 DEF PublishStatus, IInv, TypeOK, ProducerInv, ProducerAt, UserInv
  <2> QED
    BY <2>1, <2>2, <2>3 DEF IInv
<1>5. CASE SetReady(r)
  BY <1>5 DEF SetReady, IInv, TypeOK, ProducerInv, ProducerAt, ObjectInv, UserInv, OrderInv
<1>6. CASE Signal(r)
  BY <1>6 DEF Signal, fields, IInv, TypeOK, ProducerInv, ProducerAt, ObjectInv, UserInv, OrderInv
<1>7. CASE ProducerUnlock(r)
  BY <1>7 DEF ProducerUnlock, IInv, TypeOK, ProducerInv, ProducerAt, ObjectInv, UserInv, OrderInv
<1> QED
  BY <1>1, <1>2, <1>3, <1>4, <1>5, <1>6, <1>7 DEF Producer

-----------------------------------------------------------------------------
(* The steps of the user's thread                                          *)

\* A read that has a result to give moves on in the batch, or is the last.
LEMMA ReadReturnsKeeps ==
  ASSUME IInv, NEW how \in {"open", "cant_open"}, ReadReturns(how),
         upc \notin {"create", "idle", "free"},
         UNCHANGED <<fields, ppc, retries>>
  PROVE  IInv'
<1> USE DEF Readers
<1>1. UNCHANGED <<status, bd_mgr, dump_ready, skip_dump_check, mutex, object>>
  BY DEF fields
<1>2. CASE \A r \in Readers : result[r] # "none"
  <2>1. result' = result /\ cur' = cur /\ upc' = "idle"
    BY <1>2 DEF ReadReturns, IInv, TypeOK
  <2> QED
    BY <1>1, <1>2, <2>1 DEF IInv, TypeOK, ProducerInv, ProducerAt, ObjectInv, UserInv, OrderInv
<1>3. CASE \A r \in Readers : result[r] = "none" <=> r >= cur
  <2>1. result' = [result EXCEPT ![cur] = how] /\ result[cur] = "none"
    BY <1>3 DEF ReadReturns, IInv, TypeOK
  <2>2. CASE cur < N
    <3>1. cur' = cur + 1 /\ upc' = "check" /\ cur + 1 \in Readers
      BY <1>3, <2>2, ReaderOpenAssumption DEF ReadReturns, IInv, TypeOK
    <3>2. object[cur + 1] = "live"
      BY <1>3, <3>1 DEF IInv, TypeOK, ObjectInv
    <3> QED
      BY <1>1, <1>3, <2>1, <3>1, <3>2
      DEF IInv, TypeOK, ProducerInv, ProducerAt, ObjectInv, UserInv, OrderInv
  <2>3. CASE ~ (cur < N)
    <3>1. cur = N /\ cur' = cur /\ upc' = "idle"
      BY <1>3, <2>3, ReaderOpenAssumption DEF ReadReturns, IInv, TypeOK
    <3> QED
      BY <1>1, <1>3, <2>1, <3>1
      DEF IInv, TypeOK, ProducerInv, ProducerAt, ObjectInv, UserInv, OrderInv
  <2> QED
    BY <2>2, <2>3
<1> QED
  BY <1>2, <1>3 DEF IInv, OrderInv

LEMMA CreateReaderKeeps == ASSUME IInv, CreateReader PROVE IInv'
<1> USE DEF Readers
<1>1. TypeOK' /\ ProducerInv'
  BY ReaderOpenAssumption DEF CreateReader, IInv, TypeOK, ProducerInv, ProducerAt, ObjectInv
<1>2. ObjectInv'
  BY ReaderOpenAssumption DEF CreateReader, IInv, TypeOK, ProducerInv, ProducerAt, ObjectInv
<1>3. UserInv' /\ OrderInv'
  BY ReaderOpenAssumption DEF CreateReader, IInv, TypeOK, UserInv, OrderInv
<1> QED
  BY <1>1, <1>2, <1>3 DEF IInv

LEMMA UserKeeps == ASSUME IInv, User PROVE IInv'
<1> USE DEF Readers
<1>1. CASE CreateReader
  BY <1>1, CreateReaderKeeps
<1>2. CASE CheckStatus
  <2>1. CASE status[cur] # "VALID_ENTRY"
    BY <1>2, <2>1, ReadReturnsKeeps DEF CheckStatus
  <2>2. CASE status[cur] = "VALID_ENTRY"
    BY <1>2, <2>2
    DEF CheckStatus, fields, IInv, TypeOK, ProducerInv, ProducerAt, ObjectInv, UserInv, OrderInv
  <2> QED
    BY <2>1, <2>2
<1>3. CASE UserLock
  BY <1>3 DEF UserLock, IInv, TypeOK, ProducerInv, ProducerAt, ObjectInv, UserInv, OrderInv
<1>4. CASE TestReady
  BY <1>4 DEF TestReady, IInv, TypeOK, ProducerInv, ProducerAt, ObjectInv, UserInv, OrderInv
<1>5. CASE UserUnlock
  BY <1>5 DEF UserUnlock, IInv, TypeOK, ProducerInv, ProducerAt, ObjectInv, UserInv, OrderInv
<1>6. CASE CheckVerdict
  <2>1. CASE status[cur] = "CANT_OPEN_DUMP"
    BY <1>6, <2>1, ReadReturnsKeeps DEF CheckVerdict, fields
  <2>2. CASE status[cur] # "CANT_OPEN_DUMP"
    <3>1. /\ skip_dump_check' = [skip_dump_check EXCEPT ![cur] = TRUE]
          /\ upc = "verdict" /\ upc' = "read"
          /\ UNCHANGED <<status, bd_mgr, dump_ready, mutex, object, ppc, retries, cur, result>>
      BY <1>6, <2>2 DEF CheckVerdict
    <3>2. TypeOK' /\ ProducerInv' /\ ObjectInv' /\ OrderInv'
      BY <3>1 DEF IInv, TypeOK, ProducerInv, ProducerAt, ObjectInv, OrderInv
    <3>3. UserInv'
      BY <2>2, <3>1 DEF IInv, TypeOK, UserInv
    <3> QED
      BY <3>2, <3>3 DEF IInv
  <2> QED
    BY <2>1, <2>2
<1>7. CASE ReadNext
  <2>1. CASE ReadReturns("open")
    BY <1>7, <2>1, ReadReturnsKeeps DEF ReadNext
  <2>2. CASE UNCHANGED <<upc, cur, result>>
    BY <1>7, <2>2
    DEF ReadNext, fields, IInv, TypeOK, ProducerInv, ProducerAt, ObjectInv, UserInv, OrderInv
  <2> QED
    BY <1>7, <2>1, <2>2 DEF ReadNext
<1>8. ASSUME NEW r \in Readers, ReadOn(r) PROVE IInv'
  BY <1>8 DEF ReadOn, fields, IInv, TypeOK, ProducerInv, ProducerAt, ObjectInv, UserInv, OrderInv
<1>9. ASSUME NEW r \in Readers, JoinProducer(r) PROVE IInv'
  BY <1>9 DEF JoinProducer, fields, IInv, TypeOK, ProducerInv, ProducerAt, ObjectInv, UserInv, OrderInv
<1>10. CASE FreeReader
  <2>1. TypeOK' /\ ProducerInv' /\ UserInv' /\ OrderInv'
    BY <1>10 DEF FreeReader, IInv, TypeOK, ProducerInv, ProducerAt, ObjectInv, UserInv, OrderInv
  <2>2. ObjectInv'
    BY <1>10 DEF FreeReader, IInv, TypeOK, ObjectInv, OrderInv
  <2> QED
    BY <2>1, <2>2 DEF IInv
<1> QED
  BY <1>1, <1>2, <1>3, <1>4, <1>5, <1>6, <1>7, <1>8, <1>9, <1>10 DEF User

LEMMA IInvNext == IInv /\ [Next]_vars => IInv'
<1> SUFFICES ASSUME IInv, [Next]_vars PROVE IInv'
  OBVIOUS
<1>1. CASE SpuriousWakeup
  BY <1>1 DEF SpuriousWakeup, fields, IInv, TypeOK, ProducerInv, ProducerAt, ObjectInv, UserInv, OrderInv
<1>2. CASE Finished \/ UNCHANGED vars
  BY <1>2 DEF Finished, vars, fields, IInv, TypeOK, ProducerInv, ProducerAt, ObjectInv, UserInv, OrderInv
<1> QED
  BY <1>1, <1>2, ProducerKeeps, UserKeeps DEF Next

-----------------------------------------------------------------------------

THEOREM Inductive == Spec => []IInv
  BY IInvInit, IInvNext, PTL DEF Spec

\* The fields of the readers and the places of all threads have their types,
\* for any number of dumps: no reader beyond the batch is worked on and no
\* attempt is made beyond DUMP_OPEN_MAX_RETRIES.
THEOREM TypeCorrect == Spec => []TypeOK
<1>1. IInv => TypeOK
  BY DEF IInv
<1> QED
  BY <1>1, Inductive, PTL

LEMMA InvReads == IInv => ReadsOnlyOpenDumps
  BY DEF IInv, TypeOK, ProducerInv, ProducerAt, ObjectInv, UserInv, ReadsOnlyOpenDumps, Readers

\* bgpdump_read_next is called with an open dump only, although status and
\* bd_mgr are read without the lock.
THEOREM OnlyOpenDumps == Spec => []ReadsOnlyOpenDumps
  BY InvReads, Inductive, PTL

\* Neither thread touches a reader that bgpstream_reader_destroy has freed.
THEOREM NothingFreedUsed == Spec => []NoUseAfterFree
<1>1. IInv => NoUseAfterFree
  BY DEF IInv, ObjectInv, NoUseAfterFree
<1> QED
  BY <1>1, Inductive, PTL

\* A dump is given up after DUMP_OPEN_MAX_RETRIES failures and not before.
THEOREM GivenUpLast == Spec => []GivesUpLast
<1>1. IInv => GivesUpLast
  BY DEF IInv, TypeOK, ProducerInv, ProducerAt, GivesUpLast
<1> QED
  BY <1>1, Inductive, PTL

-----------------------------------------------------------------------------
(* ReaderOpen implements OpenDumps                                         *)

\* The refinement mapping of Abstract.
outcomeOf(r) == CASE status[r] = "CANT_OPEN_DUMP" -> "cant_open"
                  [] bd_mgr[r] # "null" -> "open"
                  [] OTHER -> "pending"

outcome == [r \in Readers |-> outcomeOf(r)]

\* The cases of outcomeOf exclude each other.
LEMMA CantOpenIsNull ==
  ASSUME IInv, NEW r \in Readers, status[r] = "CANT_OPEN_DUMP"
  PROVE  bd_mgr[r] = "null" /\ outcomeOf(r) = "cant_open"
<1>1. bd_mgr[r] = "null"
  BY DEF IInv, ProducerInv, ProducerAt
<1> QED
  BY <1>1 DEF outcomeOf

LEMMA RefinedInit == Init => Abstract!Init
  BY DEF Init, Abstract!Init, Abstract!Dumps, Readers

\* A read that returns tells the verdict on its dump, in the order of the batch,
\* or tells nothing new.
LEMMA RefinedReadReturns ==
  ASSUME IInv, NEW how \in {"open", "cant_open"}, ReadReturns(how),
         upc \notin {"create", "idle", "free"},
         UNCHANGED <<status, bd_mgr>>,
         how = outcomeOf(cur)
  PROVE  [Abstract!Next]_(Abstract!vars)
<1>1. outcome' = outcome
  BY DEF outcome, outcomeOf
<1>2. CASE result[cur] # "none"
  BY <1>1, <1>2 DEF ReadReturns, Abstract!vars, outcome, outcomeOf
<1>3. CASE result[cur] = "none"
  <2>1. cur \in Readers
    BY DEF IInv, TypeOK
  <2>2. \A e \in Readers : e < cur => result[e] # "none"
    BY <1>3, <2>1 DEF IInv, OrderInv, Readers
  <2>3. result' = [result EXCEPT ![cur] = outcome[cur]]
    BY <1>3, <2>1 DEF ReadReturns, outcome
  <2>4. outcome[cur] # "pending"
    BY <2>1 DEF outcome
  <2>5. Abstract!Tell(cur)
    BY <1>1, <1>3, <2>1, <2>2, <2>3, <2>4
    DEF Abstract!Tell, Abstract!Dumps, Readers, outcome, outcomeOf
  <2> QED
    BY <2>1, <2>5 DEF Abstract!Next, Abstract!Dumps, Readers
<1> QED
  BY <1>2, <1>3

\* A step that changes no outcome and no result does not show.
LEMMA RefinedStutter ==
  ASSUME \A r \in Readers : outcomeOf(r)' = outcomeOf(r), UNCHANGED result
  PROVE  UNCHANGED Abstract!vars
  BY DEF Abstract!vars, outcomeOf

LEMMA RefinedNext == IInv /\ [Next]_vars => [Abstract!Next]_(Abstract!vars)
<1> SUFFICES ASSUME IInv, [Next]_vars PROVE [Abstract!Next]_(Abstract!vars)
  OBVIOUS
<1>1. ASSUME NEW r \in Readers, OpenDump(r) PROVE [Abstract!Next]_(Abstract!vars)
  <2>1. bd_mgr[r] = "null" /\ status[r] = "VALID_ENTRY"
    BY <1>1 DEF OpenDump, IInv, ProducerInv, ProducerAt
  <2>2. UNCHANGED <<status, result>>
    BY <1>1 DEF OpenDump
  <2>3. CASE UNCHANGED bd_mgr
    BY <2>2, <2>3, RefinedStutter DEF outcomeOf
  <2>4. CASE bd_mgr' = [bd_mgr EXCEPT ![r] = "open"]
    <3>1. outcome[r] = "pending"
      BY <2>1 DEF outcome, outcomeOf
    <3>2. outcomeOf(r)' = "open"
      BY <2>1, <2>2, <2>4 DEF IInv, TypeOK, outcomeOf
    <3>3. \A s \in Readers : s # r => outcomeOf(s)' = outcomeOf(s)
      BY <2>2, <2>4 DEF IInv, TypeOK, outcomeOf
    <3>4. outcome' = [outcome EXCEPT ![r] = "open"]
      BY <3>2, <3>3 DEF outcome
    <3>5. Abstract!Resolve(r)
      BY <2>2, <3>1, <3>4 DEF Abstract!Resolve, outcome, outcomeOf
    <3> QED
      BY <3>5 DEF Abstract!Next, Abstract!Dumps, Readers
  <2> QED
    BY <1>1, <2>3, <2>4 DEF OpenDump
<1>2. ASSUME NEW r \in Readers, PublishStatus(r) PROVE [Abstract!Next]_(Abstract!vars)
  <2>1. UNCHANGED <<bd_mgr, result>> /\ status[r] = "VALID_ENTRY"
    BY <1>2 DEF PublishStatus, IInv, ProducerInv, ProducerAt
  <2>2. CASE bd_mgr[r] # "null"
    <3>1. status' = status
      BY <1>2, <2>2 DEF PublishStatus, IInv, TypeOK
    <3> QED
      BY <2>1, <3>1, RefinedStutter DEF outcomeOf
  <2>3. CASE bd_mgr[r] = "null"
    <3>1. outcome[r] = "pending"
      BY <2>1, <2>3 DEF outcome, outcomeOf
    <3>2. status' = [status EXCEPT ![r] = "CANT_OPEN_DUMP"]
      BY <1>2, <2>3 DEF PublishStatus
    <3>3. outcomeOf(r)' = "cant_open"
      BY <2>1, <2>3, <3>2 DEF IInv, TypeOK, outcomeOf
    <3>4. \A s \in Readers : s # r => outcomeOf(s)' = outcomeOf(s)
      BY <2>1, <3>2 DEF IInv, TypeOK, outcomeOf
    <3>5. outcome' = [outcome EXCEPT ![r] = "cant_open"]
      BY <3>3, <3>4 DEF outcome
    <3>6. Abstract!Resolve(r)
      BY <2>1, <3>1, <3>5 DEF Abstract!Resolve, outcome, outcomeOf
    <3> QED
      BY <3>6 DEF Abstract!Next, Abstract!Dumps, Readers
  <2> QED
    BY <2>2, <2>3
<1>3. ASSUME NEW r \in Readers,
             SleepEnds(r) \/ ProducerLock(r) \/ SetReady(r) \/ Signal(r) \/ ProducerUnlock(r)
      PROVE  [Abstract!Next]_(Abstract!vars)
  <2>1. UNCHANGED <<status, bd_mgr, result>>
    BY <1>3 DEF SleepEnds, ProducerLock, SetReady, Signal, ProducerUnlock, fields
  <2> QED
    BY <2>1, RefinedStutter DEF outcomeOf
<1>4. CASE CheckStatus
  <2>1. CASE status[cur] # "VALID_ENTRY"
    <3>1. outcomeOf(cur) = "cant_open"
      BY <2>1, CantOpenIsNull DEF IInv, TypeOK
    <3> QED
      BY <1>4, <2>1, <3>1, RefinedReadReturns DEF CheckStatus, fields
  <2>2. CASE status[cur] = "VALID_ENTRY"
    BY <1>4, <2>2, RefinedStutter DEF CheckStatus, fields, outcomeOf
  <2> QED
    BY <2>1, <2>2
<1>5. CASE CheckVerdict
  <2>1. CASE status[cur] = "CANT_OPEN_DUMP"
    <3>1. outcomeOf(cur) = "cant_open"
      BY <2>1, CantOpenIsNull DEF IInv, TypeOK
    <3> QED
      BY <1>5, <2>1, <3>1, RefinedReadReturns DEF CheckVerdict
  <2>2. CASE status[cur] # "CANT_OPEN_DUMP"
    BY <1>5, <2>2, RefinedStutter DEF CheckVerdict, outcomeOf
  <2> QED
    BY <2>1, <2>2
<1>6. CASE ReadNext
  <2>1. CASE ReadReturns("open")
    <3>1. ReadsOnlyOpenDumps
      BY InvReads
    <3>2. outcomeOf(cur) = "open"
      BY <1>6, <3>1 DEF ReadNext, ReadsOnlyOpenDumps, IInv, UserInv, outcomeOf
    <3> QED
      BY <1>6, <2>1, <3>2, RefinedReadReturns DEF ReadNext, fields
  <2>2. CASE UNCHANGED <<upc, cur, result>>
    BY <1>6, <2>2, RefinedStutter DEF ReadNext, fields, outcomeOf
  <2> QED
    BY <1>6, <2>1, <2>2 DEF ReadNext
<1>7. CASE \/ CreateReader \/ UserLock \/ TestReady \/ UserUnlock \/ SpuriousWakeup \/ Finished
           \/ (\E r \in Readers : ReadOn(r) \/ JoinProducer(r)) \/ UNCHANGED vars
  <2>1. UNCHANGED <<status, bd_mgr, result>>
    BY <1>7 DEF CreateReader, UserLock, TestReady, UserUnlock, SpuriousWakeup, Finished, ReadOn,
                JoinProducer, fields, vars
  <2> QED
    BY <2>1, RefinedStutter DEF outcomeOf
<1>8. CASE FreeReader
  <2>1. \A r \in Readers : bd_mgr'[r] = "null" <=> bd_mgr[r] = "null"
    BY <1>8 DEF FreeReader, IInv, TypeOK
  <2> QED
    BY <1>8, <2>1, RefinedStutter DEF FreeReader, outcomeOf
<1> QED
  BY <1>1, <1>2, <1>3, <1>4, <1>5, <1>6, <1>7, <1>8 DEF Next, Producer, User

\* The threads, their races and retries implement OpenDumps: one verdict per
\* dump, told to the merge in the order of the batch.
THEOREM Refines == Spec => OpensDumps
<1>1. Init /\ [][Next]_vars /\ []IInv => Abstract!Init /\ [][Abstract!Next]_(Abstract!vars)
  BY RefinedInit, RefinedNext, PTL
<1> QED
  BY <1>1, Inductive, PTL DEF Spec, OpensDumps, Abstract!Spec

=============================================================================
