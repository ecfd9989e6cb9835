------------------------------ MODULE Pacifier ------------------------------
(***************************************************************************)
(* The pacifier plugin, bgpcorsaro/lib/plugins/bgpcorsaro_pacifier.c: it   *)
(* sleeps at the end of an interval until wait seconds have passed, since  *)
(* the last end (the default) or, adaptive, per interval since the first   *)
(* start.  A SIGINT cuts a sleep short.  Output files: see Corsaro.        *)
(***************************************************************************)
EXTENDS Integers, Sequences

CONSTANTS
  Waits,         \* values of the option -w
  WAITS,         \* the number of values of wait, a uint8_t
  MaxNow,        \* bound: the clock
  MaxIntervals   \* bound: intervals

VARIABLES
  pace,          \* [wait, adaptive, tv_start, tv_first_time, intervals]: the plugin's state
  running,       \* an interval has started and not ended
  now,           \* the clock of the machine, in seconds; 1 at first
  asked,         \* the value of -w
  ends,          \* when the intervals ended
  cuts           \* how many of the sleeps up to each end a signal cut short

pacifier_vars == <<pace, running, now, asked, ends, cuts>>

\* catch_sigint of the program: the third signal exits.
HARD_SHUTDOWN == 3

\* init_output: the defaults, then parse_args with the value of -w and -a.
InitOutput(w, a) ==
  [wait |-> w % WAITS, adaptive |-> a, tv_start |-> 0, tv_first_time |-> 0, intervals |-> 0]

Init ==
  /\ \E w \in Waits, a \in BOOLEAN : pace = InitOutput(w, a) /\ asked = w
  /\ running = FALSE
  /\ now = 1
  /\ ends = <<>>
  /\ cuts = <<>>

\* start_interval: the first one reads the clock.
StartInterval ==
  /\ ~running /\ pace.intervals < MaxIntervals
  /\ pace' = IF pace.tv_start = 0
             THEN [pace EXCEPT !.tv_start = now, !.tv_first_time = now, !.intervals = @ + 1]
             ELSE [pace EXCEPT !.intervals = @ + 1]
  /\ running' = TRUE
  /\ UNCHANGED <<now, asked, ends, cuts>>

\* Mutant of SleepTime: only the intervals before this one count.
SleepTimeOffByOne(p, time) ==
  IF p.adaptive THEN p.tv_first_time + (p.intervals - 1) * p.wait - time
  ELSE p.wait - (time - p.tv_start)

\* The seconds left, of the interval or of all intervals so far.
SleepTime(p, time) ==
  IF p.adaptive THEN p.tv_first_time + p.intervals * p.wait - time
  ELSE p.wait - (time - p.tv_start)

\* The sleeps that were cut short up to the k-th end.
CutUpTo(k) == IF k = 0 THEN 0 ELSE cuts[k]

\* The rest of end_interval: the clock is read again after the sleep.
WakeUp(woken, more) ==
  /\ now' = woken
  /\ pace' = [pace EXCEPT !.tv_start = woken]
  /\ running' = FALSE
  /\ ends' = Append(ends, woken)
  /\ cuts' = Append(cuts, CutUpTo(Len(cuts)) + more)
  /\ UNCHANGED asked

\* end_interval: sleep returns before its time if a signal arrives, and nothing
\* sleeps on.
EndInterval ==
  LET diff == SleepTime(pace, now)
  IN  /\ running
      /\ \/ WakeUp(IF diff > 0 THEN now + diff ELSE now, 0)
         \/ /\ CutUpTo(Len(cuts)) < HARD_SHUTDOWN - 1
            /\ \E woken \in now..(now + diff - 1) : WakeUp(woken, 1)

\* Time passes while records are processed and between them.
Tick ==
  /\ now < MaxNow
  /\ now' = now + 1
  /\ UNCHANGED <<pace, running, asked, ends, cuts>>

Next == StartInterval \/ EndInterval \/ Tick

-----------------------------------------------------------------------------

Cut(k) == CutUpTo(k) # CutUpTo(k - 1)

\* However slow some intervals are, the k-th one never ends before k times wait
\* seconds have passed since the first start, and without -a no two ends are
\* closer than that: a late interval is followed by full ones, never by shorter
\* ones, while -a may catch up.  A signal costs the wait of its own interval
\* only, which -a makes up with the next one.  A wait that does not fit uint8_t
\* paces by its remainder.
IntervalsArePaced ==
  LET wait == asked % WAITS IN
  \A k \in 1..Len(ends) :
    /\ ends[k] >= pace.tv_first_time + (k - cuts[k]) * wait
    /\ ~Cut(k) => IF pace.adaptive THEN ends[k] >= pace.tv_first_time + k * wait
                  ELSE k > 1 => ends[k] - ends[k - 1] >= wait

=============================================================================
