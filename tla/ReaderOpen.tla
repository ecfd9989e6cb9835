------------------------------ MODULE ReaderOpen ------------------------------
(***************************************************************************)
(* The two threads behind every bgpstream_reader_t (lib/bgpstream_reader.c).*)
(* bgpstream_reader_mgr_add starts one thread_producer per dump of the     *)
(* batch, which opens the dump and retries a few times; the user's thread  *)
(* then takes the first entry of each reader in turn, waiting for its      *)
(* producer on dump_ready_cond.  Later calls read on, and destroy readers. *)
(* What the entries contain is the business of ReaderMgr.                  *)
(***************************************************************************)
EXTENDS Integers

CONSTANTS
  N,             \* dumps of the batch
  MaxRetries     \* DUMP_OPEN_MAX_RETRIES

ASSUME ReaderOpenAssumption == N \in Nat \ {0} /\ MaxRetries \in Nat \ {0}

Readers == 1..N

VARIABLES
  \* fields of the readers
  status,          \* "VALID_ENTRY" or "CANT_OPEN_DUMP"
  bd_mgr,          \* "null", "open", or "closed" by bgpdump_close_dump
  dump_ready,
  skip_dump_check,
  mutex,           \* "free", or its owner "producer" or "user"
  object,          \* the memory: "none", "live" or "freed"
  \* the producers
  ppc,             \* next step of thread_producer
  retries,
  \* the user's thread
  upc,             \* next step
  cur,             \* the reader it works on
  result           \* how the first bgpstream_reader_read_new_data ended

fields == <<status, bd_mgr, dump_ready, skip_dump_check, mutex, object>>
vars == <<fields, ppc, retries, upc, cur, result>>

Init ==
  /\ status = [r \in Readers |-> "VALID_ENTRY"]
  /\ bd_mgr = [r \in Readers |-> "null"]
  /\ dump_ready = [r \in Readers |-> FALSE]
  /\ skip_dump_check = [r \in Readers |-> FALSE]
  /\ mutex = [r \in Readers |-> "free"]
  /\ object = [r \in Readers |-> "none"]
  /\ ppc = [r \in Readers |-> "none"]
  /\ retries = [r \in Readers |-> 0]
  /\ upc = "create"
  /\ cur = 1
  /\ result = [r \in Readers |-> "none"]

-----------------------------------------------------------------------------
(* thread_producer                                                         *)

\* Mutant of OpenDump: one attempt too few.
OpenDumpOnceLess(r) ==
  /\ ppc[r] = "open"
  /\ \/ /\ bd_mgr' = [bd_mgr EXCEPT ![r] = "open"]
        /\ ppc' = [ppc EXCEPT ![r] = "lock"]
        /\ UNCHANGED retries
     \/ /\ retries' = [retries EXCEPT ![r] = @ + 1]
        /\ ppc' = [ppc EXCEPT ![r] =
                     IF retries[r] + 2 < MaxRetries THEN "sleep" ELSE "lock"]
        /\ UNCHANGED bd_mgr
  /\ UNCHANGED <<status, dump_ready, skip_dump_check, mutex, object, upc, cur, result>>

\* Mutant of OpenDump: the attempts are not counted.
OpenDumpUncounted(r) ==
  /\ ppc[r] = "open"
  /\ \/ /\ bd_mgr' = [bd_mgr EXCEPT ![r] = "open"]
        /\ ppc' = [ppc EXCEPT ![r] = "lock"]
     \/ /\ ppc' = [ppc EXCEPT ![r] = "sleep"]
        /\ UNCHANGED bd_mgr
  /\ UNCHANGED <<status, dump_ready, skip_dump_check, mutex, object, retries,
                 upc, cur, result>>

\* One bgpdump_open_dump, run without the lock.  A failure sleeps before the
\* next attempt, except after the last one.
OpenDump(r) ==
  /\ ppc[r] = "open"
  /\ \/ /\ bd_mgr' = [bd_mgr EXCEPT ![r] = "open"]
        /\ ppc' = [ppc EXCEPT ![r] = "lock"]
        /\ UNCHANGED retries
     \/ /\ retries' = [retries EXCEPT ![r] = @ + 1]
        /\ ppc' = [ppc EXCEPT ![r] =
                     IF retries[r] + 1 < MaxRetries THEN "sleep" ELSE "lock"]
        /\ UNCHANGED bd_mgr
  /\ UNCHANGED <<status, dump_ready, skip_dump_check, mutex, object, upc, cur, result>>

SleepEnds(r) ==
  /\ ppc[r] = "sleep"
  /\ ppc' = [ppc EXCEPT ![r] = "open"]
  /\ UNCHANGED <<fields, retries, upc, cur, result>>

ProducerLock(r) ==
  /\ ppc[r] = "lock"
  /\ mutex[r] = "free"
  /\ mutex' = [mutex EXCEPT ![r] = "producer"]
  /\ ppc' = [ppc EXCEPT ![r] = "publish"]
  /\ UNCHANGED <<status, bd_mgr, dump_ready, skip_dump_check, object,
                 retries, upc, cur, result>>

\* The write of status that the user's thread may read without the lock.
PublishStatus(r) ==
  /\ ppc[r] = "publish"
  /\ status' = [status EXCEPT ![r] =
                  IF bd_mgr[r] = "null" THEN "CANT_OPEN_DUMP" ELSE @]
  /\ ppc' = [ppc EXCEPT ![r] = "ready"]
  /\ UNCHANGED <<bd_mgr, dump_ready, skip_dump_check, mutex, object,
                 retries, upc, cur, result>>

SetReady(r) ==
  /\ ppc[r] = "ready"
  /\ dump_ready' = [dump_ready EXCEPT ![r] = TRUE]
  /\ ppc' = [ppc EXCEPT ![r] = "signal"]
  /\ UNCHANGED <<status, bd_mgr, skip_dump_check, mutex, object,
                 retries, upc, cur, result>>

\* pthread_cond_signal: nobody waiting, nobody woken.
Signal(r) ==
  /\ ppc[r] = "signal"
  /\ upc' = IF upc = "waiting" /\ cur = r THEN "relock" ELSE upc
  /\ ppc' = [ppc EXCEPT ![r] = "unlock"]
  /\ UNCHANGED <<fields, retries, cur, result>>

ProducerUnlock(r) ==
  /\ ppc[r] = "unlock"
  /\ mutex' = [mutex EXCEPT ![r] = "free"]
  /\ ppc' = [ppc EXCEPT ![r] = "exited"]
  /\ UNCHANGED <<status, bd_mgr, dump_ready, skip_dump_check, object,
                 retries, upc, cur, result>>

Producer(r) ==
  \/ OpenDump(r)
  \/ SleepEnds(r)
  \/ ProducerLock(r)
  \/ PublishStatus(r)
  \/ SetReady(r)
  \/ Signal(r)
  \/ ProducerUnlock(r)

-----------------------------------------------------------------------------
(* The user's thread: bgpstream_reader_mgr_add                             *)

\* bgpstream_reader_create, up to pthread_create.
CreateReader ==
  /\ upc = "create"
  /\ object' = [object EXCEPT ![cur] = "live"]
  /\ ppc' = [ppc EXCEPT ![cur] = "open"]
  /\ IF cur < N THEN cur' = cur + 1 /\ UNCHANGED upc
                ELSE cur' = 1 /\ upc' = "check"
  /\ UNCHANGED <<status, bd_mgr, dump_ready, skip_dump_check, mutex, retries, result>>

\* Back from bgpstream_reader_read_new_data: sorted_insert, and the next
\* reader of the batch; after the batch, and after the reads of later calls,
\* the thread is back with its caller.
ReadReturns(how) ==
  /\ result' = IF result[cur] = "none" THEN [result EXCEPT ![cur] = how] ELSE result
  /\ IF \E r \in Readers : r > cur /\ result[r] = "none"
     THEN cur' = cur + 1 /\ upc' = "check"
     ELSE UNCHANGED cur /\ upc' = "idle"

\* Mutant of CheckStatus: it looks at bd_mgr, which is NULL while the producer
\* is still trying.
CheckStatusByDump ==
  /\ upc = "check"
  /\ IF bd_mgr[cur] = "null"
     THEN ReadReturns("cant_open")
     ELSE /\ upc' = IF skip_dump_check[cur] THEN "read" ELSE "lock"
          /\ UNCHANGED <<cur, result>>
  /\ UNCHANGED <<fields, ppc, retries>>

\* read_new_data first looks at status without the lock: the producer may
\* be writing it.
CheckStatus ==
  /\ upc = "check"
  /\ IF status[cur] # "VALID_ENTRY"
     THEN ReadReturns("cant_open")
     ELSE /\ upc' = IF skip_dump_check[cur] THEN "read" ELSE "lock"
          /\ UNCHANGED <<cur, result>>
  /\ UNCHANGED <<fields, ppc, retries>>

\* Mutant of UserLock: it waits first and looks at dump_ready afterwards.
UserLockThenWaits ==
  /\ mutex[cur] = "free"
  /\ \/ /\ upc = "lock" /\ upc' = "waiting"
        /\ UNCHANGED mutex
     \/ /\ upc = "relock" /\ upc' = "test"
        /\ mutex' = [mutex EXCEPT ![cur] = "user"]
  /\ UNCHANGED <<status, bd_mgr, dump_ready, skip_dump_check, object,
                 ppc, retries, cur, result>>

UserLock ==
  /\ upc \in {"lock", "relock"}
  /\ mutex[cur] = "free"
  /\ mutex' = [mutex EXCEPT ![cur] = "user"]
  /\ upc' = "test"
  /\ UNCHANGED <<status, bd_mgr, dump_ready, skip_dump_check, object,
                 ppc, retries, cur, result>>

\* The loop around pthread_cond_wait, which releases the lock and waits in
\* one step.
TestReady ==
  /\ upc = "test"
  /\ upc' = IF dump_ready[cur] THEN "unlock" ELSE "waiting"
  /\ mutex' = IF dump_ready[cur] THEN mutex ELSE [mutex EXCEPT ![cur] = "free"]
  /\ UNCHANGED <<status, bd_mgr, dump_ready, skip_dump_check, object,
                 ppc, retries, cur, result>>

\* pthread_cond_wait may return without a signal.
SpuriousWakeup ==
  /\ upc = "waiting"
  /\ upc' = "relock"
  /\ UNCHANGED <<fields, ppc, retries, cur, result>>

UserUnlock ==
  /\ upc = "unlock"
  /\ mutex' = [mutex EXCEPT ![cur] = "free"]
  /\ upc' = "verdict"
  /\ UNCHANGED <<status, bd_mgr, dump_ready, skip_dump_check, object,
                 ppc, retries, cur, result>>

\* Mutant of CheckVerdict: the handshake is taken for success.
CheckVerdictTrusting ==
  /\ upc = "verdict"
  /\ skip_dump_check' = [skip_dump_check EXCEPT ![cur] = TRUE]
  /\ upc' = "read"
  /\ UNCHANGED <<status, bd_mgr, dump_ready, mutex, object, ppc, retries, cur, result>>

\* status again, after the handshake and again without the lock.
CheckVerdict ==
  /\ upc = "verdict"
  /\ IF status[cur] = "CANT_OPEN_DUMP"
     THEN /\ ReadReturns("cant_open")
          /\ UNCHANGED skip_dump_check
     ELSE /\ skip_dump_check' = [skip_dump_check EXCEPT ![cur] = TRUE]
          /\ upc' = "read"
          /\ UNCHANGED <<cur, result>>
  /\ UNCHANGED <<status, bd_mgr, dump_ready, mutex, object, ppc, retries>>

\* bgpdump_read_next, through bd_mgr; an insignificant entry is followed by
\* another.
ReadNext ==
  /\ upc = "read"
  /\ \/ ReadReturns("open")
     \/ UNCHANGED <<upc, cur, result>>
  /\ UNCHANGED <<fields, ppc, retries>>

-----------------------------------------------------------------------------
(* The user's thread: later calls                                          *)

\* bgpstream_reader_mgr_get_next_record reads on from a reader whose last
\* read was fine.
ReadOn(r) ==
  /\ upc = "idle"
  /\ object[r] = "live"
  /\ status[r] = "VALID_ENTRY"
  /\ cur' = r
  /\ upc' = "check"
  /\ UNCHANGED <<fields, ppc, retries, result>>

\* Mutant of JoinProducer: the reader is destroyed without pthread_join.
JoinProducerNot(r) ==
  /\ upc = "idle"
  /\ object[r] = "live"
  /\ cur' = r
  /\ upc' = "free"
  /\ UNCHANGED <<fields, ppc, retries, result>>

\* bgpstream_reader_destroy: at the end of a dump or with the manager.
\* pthread_join waits for the producer.
JoinProducer(r) ==
  /\ upc = "idle"
  /\ object[r] = "live"
  /\ ppc[r] = "exited"
  /\ cur' = r
  /\ upc' = "free"
  /\ UNCHANGED <<fields, ppc, retries, result>>

FreeReader ==
  /\ upc = "free"
  /\ bd_mgr' = [bd_mgr EXCEPT ![cur] = IF @ = "null" THEN @ ELSE "closed"]
  /\ object' = [object EXCEPT ![cur] = "freed"]
  /\ upc' = "idle"
  /\ UNCHANGED <<status, dump_ready, skip_dump_check, mutex, ppc, retries, cur, result>>

\* Nothing left to do.
Finished ==
  /\ upc = "idle"
  /\ \A r \in Readers : object[r] = "freed"
  /\ UNCHANGED vars

User ==
  \/ CreateReader
  \/ CheckStatus
  \/ UserLock
  \/ TestReady
  \/ UserUnlock
  \/ CheckVerdict
  \/ ReadNext
  \/ \E r \in Readers : ReadOn(r) \/ JoinProducer(r)
  \/ FreeReader

Next ==
  \/ \E r \in Readers : Producer(r)
  \/ User
  \/ SpuriousWakeup
  \/ Finished

\* Each thread keeps running (a blocking open or sleep returns), the lock does
\* not starve a producer that contends for it again and again, and a read of a
\* finite dump ends; but nobody counts on a spurious wakeup.
Fairness ==
  /\ \A r \in Readers : WF_vars(Producer(r)) /\ SF_vars(ProducerLock(r))
  /\ WF_vars(User)
  /\ SF_vars(ReadNext /\ upc' # "read")

Spec == Init /\ [][Next]_vars /\ Fairness

-----------------------------------------------------------------------------

TypeOK ==
  /\ status \in [Readers -> {"VALID_ENTRY", "CANT_OPEN_DUMP"}]
  /\ bd_mgr \in [Readers -> {"null", "open", "closed"}]
  /\ dump_ready \in [Readers -> BOOLEAN]
  /\ skip_dump_check \in [Readers -> BOOLEAN]
  /\ mutex \in [Readers -> {"free", "producer", "user"}]
  /\ object \in [Readers -> {"none", "live", "freed"}]
  /\ ppc \in [Readers -> {"none", "open", "sleep", "lock", "publish", "ready",
                          "signal", "unlock", "exited"}]
  /\ retries \in [Readers -> 0..MaxRetries]
  /\ upc \in {"create", "check", "lock", "relock", "test", "waiting", "unlock",
              "verdict", "read", "idle", "free"}
  /\ cur \in Readers
  /\ result \in [Readers -> {"none", "open", "cant_open"}]

\* The user's thread reads entries only through a dump that is open: not one
\* whose producer is still trying or has given up, and not a closed one,
\* although it looks at status and bd_mgr outside the lock.
ReadsOnlyOpenDumps == upc = "read" => bd_mgr[cur] = "open"

\* No thread touches a reader that does not exist: neither a producer that
\* has not finished nor the user's thread within a read.
NoUseAfterFree ==
  /\ \A r \in Readers : ppc[r] \notin {"none", "exited"} => object[r] = "live"
  /\ upc \notin {"create", "idle"} => object[cur] = "live"

\* A dump is given up only after all its attempts failed, and a reader that
\* is ready is marked unreadable exactly when it has no open dump.
GivesUpLast ==
  \A r \in Readers :
    /\ status[r] = "CANT_OPEN_DUMP" => retries[r] = MaxRetries
    /\ dump_ready[r] => (status[r] = "CANT_OPEN_DUMP" <=> bd_mgr[r] = "null")

\* Opening a batch, retries and races included, looks to the merge like one
\* verdict per dump, told in order.
Abstract == INSTANCE OpenDumps WITH
  outcome <- [r \in Readers |->
                CASE status[r] = "CANT_OPEN_DUMP" -> "cant_open"
                  [] bd_mgr[r] # "null" -> "open"
                  [] OTHER -> "pending"],
  told <- result

OpensDumps == Abstract!Spec

\* bgpstream_reader_mgr_add returns: no wakeup is lost and no lock is kept,
\* whatever the order in which the producers finish.
AddReturns == (upc = "create") ~> (upc = "idle")

\* Every producer ends, so every pthread_join returns.
ProducersExit == \A r \in Readers : (ppc[r] = "open") ~> (ppc[r] = "exited")

\* Adding a batch and opening its dumps both come to an end: no wakeup is lost,
\* no lock is kept, and no pthread_join waits for ever.
OpeningEnds == AddReturns /\ ProducersExit

=============================================================================
