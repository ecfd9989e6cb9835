----------------------------- MODULE MCBgpstream -----------------------------
(* Model checking of Bgpstream: files of two collectors that overlap in    *)
(* time, with dumps that keep within the time of their file and dumps that *)
(* do not, that cannot be opened or are corrupted.                         *)
EXTENDS Bgpstream

CONSTANTS s1, s2

File(s, type, t, span) ==
  [source |-> s, filetype |-> type, epoch_filetime |-> t, time_span |-> span]

Entries(ts) == [opens |-> TRUE, items |-> [i \in DOMAIN ts |->
                                             [kind |-> "entry", time |-> ts[i]]]]

Unreadable == [opens |-> FALSE, items |-> <<>>]

\* Updates over a long and a short time, a RIB within the long one, and
\* updates that start where all of them end.
MCFiles ==
  {File(s1, "updates", 1, 5), File(s2, "updates", 2, 1),
   File(s1, "ribs", 4, 1), File(s2, "updates", 6, 1)}

Contents(in) ==
  CASE in.epoch_filetime = 1 -> {Entries(<<1, 5>>), Entries(<<7>>)}
    [] in.epoch_filetime = 2 -> {Entries(<<2>>), Unreadable}
    [] OTHER -> {Entries(<<in.epoch_filetime>>)}

MCDumps == {d \in [MCFiles -> UNION {Contents(in) : in \in MCFiles}] :
              \A in \in MCFiles : d[in] \in Contents(in)}

\* A file that covers no time, as a CSV file or a database may list it.
ZeroSpanFiles == {File(s1, "updates", 1, 0), File(s2, "updates", 1, 1)}

ZeroSpanDumps == [ZeroSpanFiles -> {Entries(<<1>>)}]

MCIntervals == {[begin_time |-> 1, end_time |-> 9]}

=============================================================================
