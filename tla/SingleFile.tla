------------------------------ MODULE SingleFile ------------------------------
(***************************************************************************)
(* The single file data source,                                            *)
(* lib/datasources/bgpstream_datasource_singlefile.c: one RIB and one      *)
(* updates file that some other process (external) replaces now and then.  *)
(* A query compares the first bytes of each file with those it remembers,  *)
(* unless it pushed the file a short time ago.                             *)
(***************************************************************************)
EXTENDS Integers, Sequences

CONSTANTS
  Frequency,       \* RIB_FREQUENCY_CHECK and UPDATE_FREQUENCY_CHECK
  HeaderLen,       \* MAX_HEADER_READ_BYTES
  Bytes,           \* the bytes a file may begin with, not 0
  MaxPoll          \* bound of the model: time

Kinds == {"ribs", "updates"}

SingleFileAssumption ==
  /\ Frequency \in [Kinds -> Nat]
  /\ HeaderLen \in Nat \ {0}
  /\ 0 \notin Bytes /\ Bytes # {}
  /\ MaxPoll \in Nat

VARIABLES
  \* outside
  clock,
  content,          \* the first bytes of each file
  \* bgpstream_singlefile_datasource_t, for both files
  header, last_filetime,
  \* the query
  step,             \* "idle", or the file it looks at
  taken_at,         \* its now
  \* history
  replaced,         \* the file was replaced since it was pushed
  looked,           \* the file was looked at since it was replaced
  short             \* a file with less than HeaderLen bytes was looked at

vars == <<clock, content, header, last_filetime, step, taken_at, replaced, looked,
          short>>

\* What wandio_read gives of a file.
Heads == UNION {[1..n -> Bytes] : n \in 0..HeaderLen}

\* What a new header holds behind its first byte is not initialised.
Init ==
  /\ clock = 1
  /\ content \in [Kinds -> Heads]
  /\ header \in [Kinds -> {h \in [1..HeaderLen -> Bytes \cup {0}] : h[1] = 0}]
  /\ last_filetime = [f \in Kinds |-> 0]
  /\ step = "idle"
  /\ taken_at = 0
  /\ replaced = [f \in Kinds |-> TRUE]
  /\ looked = [f \in Kinds |-> FALSE]
  /\ short = FALSE

-----------------------------------------------------------------------------
(* bgpstream_singlefile_datasource_update_input_queue                      *)

\* gettimeofday is called once, for both files.
BeginQuery ==
  /\ step = "idle"
  /\ taken_at' = clock
  /\ step' = "ribs"
  /\ UNCHANGED <<clock, content, header, last_filetime, replaced, looked, short>>

\* It is time to look at the file again.
IsDue(f) == taken_at - last_filetime[f] > Frequency[f]

\* Mutant of SameHeader: one byte in common is enough.
SameHeaderAnyByte(buffer, previous) ==
  buffer = <<>> \/ \E i \in DOMAIN buffer : buffer[i] = previous[i]

\* memcmp of the bytes that were read.
SameHeader(buffer, previous) ==
  \A i \in DOMAIN buffer : buffer[i] = previous[i]

\* Mutant of Remember: the header is not kept.
RememberNot(buffer, previous) == previous

\* memcpy of the bytes that were read, over those of longer files before.
Remember(buffer, previous) ==
  [i \in 1..HeaderLen |-> IF i \in DOMAIN buffer THEN buffer[i] ELSE previous[i]]

\* After the RIB, the updates; after those, the query returns.
NextStep == step' = IF step = "ribs" THEN "updates" ELSE "idle"

\* The file is due and can be read: it is pushed if its header is another one.
LookAt ==
  /\ step # "idle"
  /\ IsDue(step)
  /\ LET buffer == content[step]
         new == ~ SameHeader(buffer, header[step])
     IN  /\ short' = (short \/ Len(buffer) < HeaderLen)
         /\ IF new
            THEN /\ header' = [header EXCEPT ![step] = Remember(buffer, @)]
                 /\ last_filetime' = [last_filetime EXCEPT ![step] = taken_at]
                 /\ replaced' = [replaced EXCEPT ![step] = FALSE]
            ELSE UNCHANGED <<header, last_filetime, replaced>>
  /\ looked' = [looked EXCEPT ![step] = TRUE]
  /\ NextStep
  /\ UNCHANGED <<clock, content, taken_at>>

\* The file is not due, or cannot be read, which counts as no news.
PassOver ==
  /\ step # "idle"
  /\ NextStep
  /\ UNCHANGED <<clock, content, header, last_filetime, taken_at, replaced, looked,
                 short>>

-----------------------------------------------------------------------------
(* Outside (external)                                                      *)

Tick ==
  /\ clock < MaxPoll
  /\ clock' = clock + 1
  /\ UNCHANGED <<content, header, last_filetime, step, taken_at, replaced, looked,
                 short>>

\* A file is replaced by another one, or cut short.
Replace ==
  /\ \E f \in Kinds, h \in Heads :
       /\ h # content[f]
       /\ content' = [content EXCEPT ![f] = h]
       /\ replaced' = [replaced EXCEPT ![f] = TRUE]
       /\ looked' = [looked EXCEPT ![f] = FALSE]
  /\ UNCHANGED <<clock, header, last_filetime, step, taken_at, short>>

Next ==
  \/ BeginQuery
  \/ LookAt
  \/ PassOver
  \/ Tick
  \/ Replace

Spec == Init /\ [][Next]_vars

-----------------------------------------------------------------------------

TypeOK ==
  /\ clock \in 1..MaxPoll
  /\ content \in [Kinds -> Heads]
  /\ header \in [Kinds -> [1..HeaderLen -> Bytes \cup {0}]]
  /\ last_filetime \in [Kinds -> 0..MaxPoll]
  /\ step \in Kinds \cup {"idle"}
  /\ taken_at \in 0..MaxPoll
  /\ {replaced, looked} \subseteq [Kinds -> BOOLEAN]
  /\ short \in BOOLEAN

\* As long as files are not shorter than the header, a file that was looked at
\* since it was replaced was pushed, or is again the one pushed before: the
\* header is that of the file.
NothingSkipped ==
  ~ short => \A f \in Kinds : looked[f] => header[f] = content[f]

\* Every version of a file that is looked at is pushed, and once: a look leaves
\* nothing skipped, and a file that was not replaced since it was pushed is not
\* pushed again, short or not (a push takes last_filetime to the time of the
\* query).
PushedOnce ==
  [][/\ NothingSkipped'
     /\ \A f \in Kinds : last_filetime'[f] # last_filetime[f] => replaced[f]]_vars

=============================================================================
