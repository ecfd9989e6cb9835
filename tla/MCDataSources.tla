---------------------------- MODULE MCDataSources ----------------------------
(* Model checking of DataSources.                                          *)
EXTENDS DataSources

\* Two intervals; the first one begins later, as the list is filled at its head.
MCIntervals == <<[begin_time |-> 5, end_time |-> 6], [begin_time |-> 3, end_time |-> 3]>>

\* A long file and a short one that starts later.
MCFiles ==
  {[source |-> "s1", filetype |-> "updates", epoch_filetime |-> 1, time_span |-> 3],
   [source |-> "s2", filetype |-> "ribs", epoch_filetime |-> 2, time_span |-> 1]}

MCFrequency == [f \in {"ribs", "updates"} |-> IF f = "ribs" THEN 2 ELSE 1]

=============================================================================
