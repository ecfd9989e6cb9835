----------------------------- MODULE MCReaderMgr -----------------------------
(* Model checking of ReaderMgr in two worlds, chosen with the contents of   *)
(* the files: one has few files with all contents, the other more files of  *)
(* which only some can be opened.                                           *)
EXTENDS ReaderMgr

CONSTANTS s1, s2, EntryTimes, MaxItems, MaxTotal

File(s, type, t) ==
  [source |-> s, filetype |-> type, epoch_filetime |-> t, time_span |-> 2]

\* RIBs of one collector at several distances, its updates, and another one.
MCFiles ==
  {File(s1, "ribs", t) : t \in {4, 6, 7}}
    \cup {File(s1, "updates", 6), File(s2, "ribs", 6)}

\* One file of each kind.
MixedFiles == {f \in MCFiles : f.epoch_filetime = 6}

MCIntervals == {[begin_time |-> 6, end_time |-> 7], [begin_time |-> 14, end_time |-> 0]}

CannotOpen == [opens |-> FALSE, items |-> <<>>]
OneEntry == [opens |-> TRUE, items |-> <<[kind |-> "entry", time |-> 6]>>]

\* Up to MaxItems items each and MaxTotal between them.  A corrupted item is
\* the last thing read, so it may as well be the last item.
Contents ==
  {CannotOpen} \cup
  [opens : {TRUE},
   items : {d \in UNION {[1..n -> Items(EntryTimes)] : n \in 0..MaxItems} :
              \A i \in 1..(Len(d) - 1) : d[i].kind # "corrupted"}]

MixedDumps ==
  {d \in [MixedFiles -> Contents] :
     MapThenSumSet(LAMBDA f : Len(d[f].items), MixedFiles) <= MaxTotal}

RibDumps == [MCFiles -> {CannotOpen, OneEntry}]

\* A file of the other world only is not there, and never part of a batch.
Absent == [opens |-> FALSE, items |-> <<[kind |-> "unparsed", time |-> 0]>>]
World(d) == [f \in MCFiles |-> IF f \in DOMAIN d THEN d[f] ELSE Absent]
MCDumps == {World(d) : d \in MixedDumps \cup RibDumps}

MCNext == ReaderMgrNext /\ \A f \in offered' : dumps[f] # Absent

MCSpec == ReaderMgrInit /\ [][MCNext]_reader_vars

=============================================================================
