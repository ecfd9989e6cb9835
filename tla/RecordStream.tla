---------------------------- MODULE RecordStream ----------------------------
(***************************************************************************)
(* What a BGPStream instance promises its caller, lib/bgpstream.h, without *)
(* queues, readers, batches or rounds: an archive grows, and each call of  *)
(* bgpstream_get_next_record gives one record out of it, or says that      *)
(* there is nothing left, or fails.  Bgpstream implements it.              *)
(***************************************************************************)
EXTENDS Integers, FiniteSets

CONSTANTS
  Files,         \* the dump files there may be
  Alike(_, _),   \* one of them stands for the other
  Optional(_)    \* the stream may leave it out

VARIABLES
  life,          \* "ALLOCATED", "ON", "OFF", or "destroyed"
  live,          \* the stream goes on for ever
  calling,       \* the caller waits for get_next_record
  answer,        \* what the last call returned: 1, 0, or -1
  archive,       \* the files published so far
  due,           \* the entries in each file that are wanted, by position
  given,         \* those of them the caller got
  closed         \* the files that gave a record without an entry

promise_vars == <<life, live, calling, answer, archive, due, given, closed>>

Init ==
  /\ life = "ALLOCATED" /\ live = FALSE
  /\ calling = FALSE /\ answer = 0
  /\ archive = {}
  /\ due \in [Files -> SUBSET (Nat \ {0})]
  /\ given = [f \in Files |-> {}] /\ closed = {}

\* The outside world.
Publish ==
  /\ \E f \in Files \ archive : archive' = archive \cup {f}
  /\ UNCHANGED <<life, live, calling, answer, due, given, closed>>

-----------------------------------------------------------------------------
(* The calls that set a stream up and end it                               *)

Quiet == ~ calling /\ life # "destroyed"

GoLive ==
  /\ Quiet /\ life = "ALLOCATED"
  /\ live' = TRUE /\ answer' = 0
  /\ UNCHANGED <<life, calling, archive, due, given, closed>>

\* A stream starts once; until then it may fail to.
Start ==
  /\ Quiet
  /\ \/ life = "ALLOCATED" /\ life' = "ON" /\ answer' = 0
     \/ life = "ALLOCATED" /\ answer' = -1 /\ UNCHANGED life
     \/ life # "ALLOCATED" /\ answer' = 0 /\ UNCHANGED life
  /\ UNCHANGED <<live, calling, archive, due, given, closed>>

Stop ==
  /\ Quiet /\ life = "ON"
  /\ life' = "OFF" /\ answer' = 0
  /\ UNCHANGED <<live, calling, archive, due, given, closed>>

Destroy ==
  /\ Quiet
  /\ life' = "destroyed" /\ answer' = 0
  /\ UNCHANGED <<live, calling, archive, due, given, closed>>

-----------------------------------------------------------------------------
(* bgpstream_get_next_record                                               *)

Call ==
  /\ Quiet
  /\ IF life = "ON" THEN calling' = TRUE /\ UNCHANGED answer
     ELSE answer' = -1 /\ UNCHANGED calling
  /\ UNCHANGED <<life, live, archive, due, given, closed>>

Answer(a) == calling /\ calling' = FALSE /\ answer' = a

\* The caller has all of the file.
Exhausted(f) == given[f] = due[f]

\* A record with an entry: the first one of its file that was not given yet.
Give ==
  /\ Answer(1)
  /\ \E f \in archive \ closed : \E e \in due[f] \ given[f] :
       /\ \A d \in due[f] \ given[f] : e <= d
       /\ given' = [given EXCEPT ![f] = @ \cup {e}]
  /\ UNCHANGED <<life, live, archive, due, closed>>

\* A record without one, which says that a file is empty, damaged, or has
\* nothing that is wanted: it is the last of its file.
Close ==
  /\ Answer(1)
  /\ \E f \in archive \ closed : Exhausted(f) /\ closed' = closed \cup {f}
  /\ UNCHANGED <<life, live, archive, due, given>>

\* The caller got something out of the file.
Touched(f) == given[f] # {} \/ f \in closed

\* The end.  Every file, or one like it, was touched, unless it may be left out,
\* and what was touched is exhausted.
End ==
  /\ Answer(0)
  /\ ~ live
  /\ \A f \in archive :
       /\ Optional(f) \/ \E g \in archive : Alike(g, f) /\ Touched(g)
       /\ Touched(f) => Exhausted(f)
  /\ UNCHANGED <<life, live, archive, due, given, closed>>

\* A failure, behind which the stream goes on where it was.
Fail ==
  /\ Answer(-1)
  /\ UNCHANGED <<life, live, archive, due, given, closed>>

Next ==
  \/ Publish \/ GoLive \/ Start \/ Stop \/ Destroy
  \/ Call \/ Give \/ Close \/ End \/ Fail

Spec == Init /\ [][Next]_promise_vars

=============================================================================
