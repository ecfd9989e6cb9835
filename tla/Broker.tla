-------------------------------- MODULE Broker --------------------------------
(***************************************************************************)
(* The broker data source, lib/datasources/bgpstream_datasource_broker.c.  *)
(* A query asks a web service for the dump files that were added since its *)
(* last answer and reads the answer file by file, straight into the input  *)
(* queue.  The broker (external) may not answer, break off, or answer with *)
(* something the source cannot read; the source then asks the same again,  *)
(* or gives the query up.                                                  *)
(***************************************************************************)
EXTENDS InputQueue

CONSTANTS
  Files,        \* the dump files there are, as inputs
  UrlRoom,      \* parameters that fit into the URL buffer (URL_BUFLEN)
  CommonUrl,    \* the parameters of every query, in front of query_url_end:
                \*   an interval at least, or the broker refuses
  MaxTime,      \* bounds of the model: the clock of the broker,
  MaxTrouble    \*   and how often the broker does not answer well

BrokerAssumption ==
  /\ \A in \in Files : in.epoch_filetime \in Nat /\ in.time_span \in Nat
  /\ UrlRoom \in Nat /\ CommonUrl \in 1..UrlRoom
  /\ MaxTime \in Nat /\ MaxTrouble \in Nat

VARIABLES
  \* bgpstream_broker_datasource_t
  url,                 \* the parameters behind query_url_end
  room,                \* query_url_remaining, in parameters
  last_response_time, current_window_end,
  \* the input manager
  queue,
  \* the query
  pc,                  \* "idle", "ask" before a request, "read" an answer
  answer,              \* files of the answer still to be read
  good,                \*   whether it ends as it should
  time_set,            \*   its time was read
  num_results,
  result,              \* what the last query returned
  \* outside
  time,                \* the clock of the broker
  trouble,             \* how often the broker did not answer well
  \* history
  asked_from,          \* what the source knew when the query began
  broken,              \* an answer broke off behind a file
  fatal                \* a query was given up

buffer == <<url, room>>
query == <<pc, answer, good, time_set, num_results, result>>
history == <<asked_from, broken, fatal>>
vars == <<buffer, last_response_time, current_window_end, queue, query,
          time, trouble, history>>

Param(name, value) == [name |-> name, value |-> value]

Knows == [time |-> last_response_time, window_end |-> current_window_end]

Init ==
  /\ url = <<>>
  /\ room = UrlRoom - CommonUrl
  /\ last_response_time = 0
  /\ current_window_end = 0
  /\ queue = <<>>
  /\ pc = "idle"
  /\ answer = <<>> /\ good = FALSE /\ time_set = FALSE
  /\ num_results = 0
  /\ result = 0
  /\ time = 1
  /\ trouble = 0
  /\ asked_from = Knows
  /\ broken = FALSE
  /\ fatal = FALSE

-----------------------------------------------------------------------------
(* bgpstream_broker_datasource_update_input_queue                          *)

\* The parameters that say where the last answer ended.
VariableParams(k) ==
  (IF k.time > 0 THEN <<Param("dataAddedSince", k.time)>> ELSE <<>>)
    \o (IF k.window_end > 0 THEN <<Param("minInitialTime", k.window_end)>>
                            ELSE <<>>)

\* Mutant of BeginQuery: nobody looks whether the parameters fit.
BeginQueryUnchecked ==
  /\ pc = "idle"
  /\ queue = <<>>
  /\ url' = url \o VariableParams(Knows)
  /\ room' = room - Len(VariableParams(Knows))
  /\ asked_from' = Knows
  /\ pc' = "ask"
  /\ UNCHANGED <<last_response_time, current_window_end, queue, answer, good,
                 time_set, num_results, result, time, trouble, broken, fatal>>

\* The query is called when the input queue is empty.  Its parameters are
\* appended to what is in the buffer, as far as they fit.
BeginQuery ==
  /\ pc = "idle"
  /\ queue = <<>>
  /\ LET params == VariableParams(Knows)
         fit == IF Len(params) <= room THEN Len(params) ELSE room
     IN  /\ url' = url \o SubSeq(params, 1, fit)
         /\ room' = room - fit
         /\ IF fit = Len(params) THEN pc' = "ask" /\ UNCHANGED <<result, fatal>>
            ELSE result' = -1 /\ fatal' = TRUE /\ UNCHANGED pc
  /\ asked_from' = Knows
  /\ UNCHANGED <<last_response_time, current_window_end, queue, answer, good,
                 time_set, num_results, time, trouble, broken>>

\* The request is answered: with some files, in some order, and whole or not.
Answered ==
  /\ pc = "ask"
  /\ \E files \in SUBSET Files, whole \in BOOLEAN :
       /\ whole \/ trouble < MaxTrouble
       /\ trouble' = IF whole THEN trouble ELSE trouble + 1
       /\ answer' \in SetToSeqs(files)
       /\ good' = whole
  /\ time_set' = FALSE
  /\ num_results' = 0
  /\ pc' = "read"
  /\ UNCHANGED <<buffer, last_response_time, current_window_end, queue, result,
                 time, history>>

\* There is no answer: the source sleeps and asks again.
NotAnswered ==
  /\ pc = "ask"
  /\ trouble < MaxTrouble
  /\ trouble' = trouble + 1
  /\ UNCHANGED <<buffer, last_response_time, current_window_end, queue, query,
                 time, history>>

\* The answer cannot be read to its end, or is no JSON: the query is given up.
GiveUp ==
  /\ pc = "ask"
  /\ trouble < MaxTrouble
  /\ trouble' = trouble + 1
  /\ pc' = "idle"
  /\ result' = -1
  /\ fatal' = TRUE
  /\ UNCHANGED <<buffer, last_response_time, current_window_end, queue, answer,
                 good, time_set, num_results, time, asked_from, broken>>

-----------------------------------------------------------------------------
(* process_json                                                            *)

\* "time" may stand anywhere among the keys of the answer.
ReadTime ==
  /\ pc = "read"
  /\ ~ time_set
  /\ last_response_time' = time
  /\ time_set' = TRUE
  /\ UNCHANGED <<buffer, current_window_end, queue, pc, answer, good, num_results,
                 result, time, trouble, history>>

WindowEnd(in) ==
  IF in.epoch_filetime + in.time_span > current_window_end
  THEN in.epoch_filetime + in.time_span ELSE current_window_end

\* Mutant of ReadFile: the file is not counted.
ReadFileUncounted ==
  /\ pc = "read"
  /\ answer # <<>>
  /\ current_window_end' = WindowEnd(Head(answer))
  /\ queue' = PushSortedInput(queue, Head(answer))
  /\ answer' = Tail(answer)
  /\ UNCHANGED <<buffer, last_response_time, pc, good, time_set, num_results,
                 result, time, trouble, asked_from, broken, fatal>>

\* A file is read and pushed.  The input manager turns down a file it has in
\* its queue, and the source takes that for a broken answer.
ReadFile ==
  /\ pc = "read"
  /\ answer # <<>>
  /\ LET in == Head(answer) IN
       /\ current_window_end' = WindowEnd(in)
       /\ queue' = PushSortedInput(queue, in)
       /\ IF PushResult(queue, in) = 0
          THEN /\ pc' = "ask"
               /\ answer' = <<>>
               /\ UNCHANGED num_results
          ELSE /\ num_results' = num_results + 1
               /\ answer' = Tail(answer)
               /\ UNCHANGED pc
  /\ UNCHANGED <<buffer, last_response_time, good, time_set, result, time,
                 trouble, asked_from, broken, fatal>>

\* A record that is not complete, or a key or a value that is none: the same
\* request again.
BreaksOff ==
  /\ pc = "read"
  /\ answer = <<>>
  /\ ~ good
  /\ pc' = "ask"
  /\ broken' = (broken \/ num_results > 0)
  /\ UNCHANGED <<buffer, last_response_time, current_window_end, queue, answer,
                 good, time_set, num_results, result, time, trouble, asked_from,
                 fatal>>

\* Mutant of EndQuery: the parameters stay in the buffer.
EndQueryKeepsParams ==
  /\ pc = "read"
  /\ answer = <<>> /\ good /\ time_set
  /\ result' = num_results
  /\ pc' = "idle"
  /\ UNCHANGED <<buffer, last_response_time, current_window_end, queue,
                 answer, good, time_set, num_results, time, trouble, history>>

\* Mutant of EndQuery: an answer without a file counts as a failure.
EndQueryWithFiles ==
  /\ pc = "read"
  /\ answer = <<>> /\ good /\ time_set
  /\ result' = num_results
  /\ IF num_results = 0 THEN pc' = "ask" /\ UNCHANGED buffer
     ELSE pc' = "idle" /\ url' = <<>> /\ room' = UrlRoom
  /\ UNCHANGED <<last_response_time, current_window_end, queue, answer, good,
                 time_set, num_results, time, trouble, history>>

\* The answer was read, and the parameters of this query are cut off again.
\* The space they leave is measured from query_url_end.
EndQuery ==
  /\ pc = "read"
  /\ answer = <<>> /\ good /\ time_set
  /\ result' = num_results
  /\ url' = <<>>
  /\ room' = UrlRoom
  /\ pc' = "idle"
  /\ UNCHANGED <<last_response_time, current_window_end, queue, answer, good,
                 time_set, num_results, time, trouble, history>>

-----------------------------------------------------------------------------
(* Outside (external)                                                      *)

\* bgpstream_get_next_record takes what is queued.
TakeBatch ==
  /\ pc = "idle"
  /\ queue # <<>>
  /\ queue' = <<>>
  /\ UNCHANGED <<buffer, last_response_time, current_window_end, query, time,
                 trouble, history>>

Tick ==
  /\ time < MaxTime
  /\ time' = time + 1
  /\ UNCHANGED <<buffer, last_response_time, current_window_end, queue, query,
                 trouble, history>>

Step ==
  \/ Answered
  \/ NotAnswered
  \/ GiveUp
  \/ ReadTime
  \/ ReadFile
  \/ BreaksOff
  \/ EndQuery

Next ==
  \/ BeginQuery
  \/ Step
  \/ TakeBatch
  \/ Tick

\* The source runs on.  The broker is in trouble a limited number of times, so
\* that it keeps answering well from some time on.
Spec == Init /\ [][Next]_vars /\ WF_vars(Step)

-----------------------------------------------------------------------------

TypeOK ==
  /\ room \in 0..UrlRoom
  /\ url \in Seq([name : {"dataAddedSince", "minInitialTime"}, value : Nat])
  /\ last_response_time \in 0..MaxTime
  /\ current_window_end \in Nat
  /\ queue \in Seq(Files)
  /\ pc \in {"idle", "ask", "read"}
  /\ answer \in Seq(Files)
  /\ num_results \in 0..Cardinality(Files)
  /\ result \in -1..Cardinality(Files)

\* As long as no query was given up, the request, repeated or not, asks for
\* what the source had not seen when the query began, and for nothing else.
AsksFromWhereItStopped ==
  pc # "idle" /\ ~ fatal => url = VariableParams(asked_from)

\* A query that returns 0, which ends the stream, has not queued a file, unless
\* an answer broke off before.
EndMeansEmpty ==
  [][pc = "read" /\ pc' = "idle" /\ ~ broken => (result' = 0 <=> queue = <<>>)]_vars

\* A query returns, however often the broker was in trouble, unless an answer
\* broke off behind a file.
QueryReturns == (pc # "idle") ~> (pc = "idle" \/ broken)

\* A query returns once the broker answers well.
QueryAlwaysReturns == (pc # "idle") ~> (pc = "idle")

=============================================================================
