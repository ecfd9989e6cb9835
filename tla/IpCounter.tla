----------------------------- MODULE IpCounter -----------------------------
(***************************************************************************)
(* The counter of unique addresses, lib/utils/bgpstream_utils_ip_counter.c *)
(* two sorted lists of intervals that prefixes are merged into.  An IPv4   *)
(* address is a number of W4 bits; an IPv6 address has two halves of HALF  *)
(* bits, ms and ls, and compares like the number ms * 2^HALF + ls.  IPv6   *)
(* is counted in units of ms, the /64 networks.                            *)
(***************************************************************************)
EXTENDS Integers, Sequences, FiniteSets, SequencesExt, FiniteSetsExt

CONSTANTS
  W4,            \* bits of an IPv4 address
  HALF,          \* bits of a half of an IPv6 address
  Nets           \* the prefixes: [version, addr, len]

VARIABLES
  v4list,
  v6list,
  covered        \* the addresses of the prefixes added, per version

counter_vars == <<v4list, v6list, covered>>

Init ==
  /\ v4list = <<>>
  /\ v6list = <<>>
  /\ covered = [v \in {4, 6} |-> {}]

Width(v) == IF v = 4 THEN W4 ELSE 2 * HALF
Ms(a) == a \div 2^HALF
Ls(a) == a % 2^HALF

\* The interval of a prefix: the bits behind len are cleared and set.
Interval(addr, len, v) ==
  LET size == 2^(Width(v) - len)
      start == (addr \div size) * size
  IN  [start |-> start, end |-> start + size - 1]

\* A shift by the width of its operand is undefined: 1 << 64 in the mask of an
\* IPv6 /0, and the shifts by 32 of an overlap with an IPv4 /0.  It shifts by 0
\* or everything out.
LengthsAdded(net) == IF net.len = 0 /\ net.version = 6 THEN {0, HALF} ELSE {net.len}
LengthsAsked(net) ==
  IF net.len # 0 THEN {net.len} ELSE {0, IF net.version = 4 THEN W4 ELSE HALF}

\* Mutant of MergeInSortedQueue: one interval only is merged with.
MergeInSortedQueueOnce(list, new) ==
  LET before == SelectSeq(list, LAMBDA i : i.end < new.start)
      rest == SubSeq(list, Len(before) + 1, Len(list))
      grown == [start |-> Min({new.start, rest[1].start}), end |-> Max({new.end, rest[1].end})]
  IN  IF rest = <<>> \/ new.end < rest[1].start
      THEN before \o <<new>> \o rest
      ELSE before \o <<grown>> \o Tail(rest)

\* merge_in_sorted_queue4 and 6: behind the intervals that end before the new
\* one, which swallows those it meets (one_step_merge).
MergeInSortedQueue(list, new) ==
  LET before == SelectSeq(list, LAMBDA i : i.end < new.start)
      rest == SubSeq(list, Len(before) + 1, Len(list))
      \* the first interval not before the new one grows and takes in its successors
      Step(acc, i) ==
        IF acc.stop \/ i.start > acc.int.end
        THEN [acc EXCEPT !.stop = TRUE, !.after = Append(@, i)]
        ELSE [acc EXCEPT !.int.end = Max({@, i.end})]
      grown == [start |-> Min({new.start, rest[1].start}), end |-> Max({new.end, rest[1].end})]
      merged == FoldLeft(Step, [int |-> grown, stop |-> FALSE, after |-> <<>>], Tail(rest))
  IN  IF rest = <<>> \/ new.end < rest[1].start
      THEN before \o <<new>> \o rest
      ELSE before \o <<merged.int>> \o merged.after

Add(net) ==
  \E len \in LengthsAdded(net) :
    LET int == Interval(net.addr, len, net.version)
    IN  /\ IF net.version = 4
           THEN v4list' = MergeInSortedQueue(v4list, int) /\ UNCHANGED v6list
           ELSE v6list' = MergeInSortedQueue(v6list, int) /\ UNCHANGED v4list
        /\ covered' = [covered EXCEPT ![net.version] = @ \cup int.start..int.end]

Clear ==
  /\ v4list' = <<>>
  /\ v6list' = <<>>
  /\ covered' = [v \in {4, 6} |-> {}]

Next == (\E net \in Nets : Add(net)) \/ Clear

\* get_ipcount: the length of an IPv4 interval is taken in 32 bits, that of an
\* IPv6 one and the sum in 64; an IPv6 interval within the /64 of the one before
\* counts not.
IpCount4 == FoldLeft(LAMBDA n, i : n + ((i.end - i.start + 1) % 2^W4), 0, v4list)

SameNet(list, k) ==
  k > 1 /\ Ms(list[k].start) = Ms(list[k - 1].start) /\ Ms(list[k].end) = Ms(list[k - 1].end)

IpCount6 ==
  MapThenSumSet(LAMBDA k : Ms(v6list[k].end) - Ms(v6list[k].start) + 1,
                {k \in DOMAIN v6list : ~SameNet(v6list, k)}) % 2^HALF

\* is_overlapping4: the addresses shared with a prefix, and whether one
\* interval holds all of it.
Overlap4(p) ==
  LET met == {k \in DOMAIN v4list : v4list[k].start <= p.end /\ v4list[k].end >= p.start}
      Shared(k) == Min({v4list[k].end, p.end}) - Max({v4list[k].start, p.start}) + 1
  IN  [count |-> MapThenSumSet(Shared, met) % 2^W4,
       more_specific |-> \E k \in met : Shared(k) % 2^W4 = (p.end - p.start + 1) % 2^W4]

\* is_overlapping6: two comparisons take the upper half of an interval for its
\* lower half; the one that skips intervals tells.
Skipped6(i, p) ==
  \/ Ms(i.end) < Ms(p.start)
  \/ Ms(i.end) = Ms(p.start) /\ Ms(i.end) < Ls(p.start)

Overlap6(p) ==
  LET met == {k \in DOMAIN v6list : v6list[k].start <= p.end /\ ~Skipped6(v6list[k], p)}
      counted == {k \in met : ~SameNet(v6list, k)}
      IntStart(i) ==
        IF Ms(i.start) < Ms(p.start) \/ (Ms(i.start) = Ms(p.start) /\ Ms(i.start) < Ls(p.start))
        THEN Ms(p.start) ELSE Ms(i.start)
      IntEnd(i) == IF i.end > p.end THEN Ms(p.end) ELSE Ms(i.end)
      Shared(k) == (IntEnd(v6list[k]) - IntStart(v6list[k]) + 1) % 2^HALF
  IN  [count |-> MapThenSumSet(Shared, counted) % 2^HALF,
       more_specific |->
         \E k \in counted : Shared(k) = (Ms(p.end) - Ms(p.start) + 1) % 2^HALF]

-----------------------------------------------------------------------------

Addresses(list) == UNION {list[k].start..list[k].end : k \in DOMAIN list}

\* Whatever the order in which prefixes come, nested, equal or apart, the lists
\* are sorted without overlaps and hold the addresses of the prefixes.
ListsAreExact ==
  /\ covered[4] = Addresses(v4list)
  /\ covered[6] = Addresses(v6list)
  /\ \A list \in {v4list, v6list} :
       \A k \in DOMAIN list : k > 1 => list[k - 1].end < list[k].start

Whole4 == [start |-> 0, end |-> 2^W4 - 1]
Units(addrs) == {Ms(a) : a \in addrs}

\* The counts are those of unique addresses and /64 networks, for any mix of
\* longer and shorter prefixes, as far as they fit: a count of all the /64
\* networks is 2^64, and the length of the interval of all IPv4 addresses, which
\* stand in one interval only after a /0, is 2^32.  Both count as 0.
CountsAreRight ==
  /\ v4list # <<Whole4>> => IpCount4 = Cardinality(covered[4])
  /\ Cardinality(Units(covered[6])) < 2^HALF => IpCount6 = Cardinality(Units(covered[6]))

\* Overlaps are counted right, but for prefixes as long as a list's whole, and
\* for IPv6 prefixes longer than /64, where intervals can be missed or counted
\* although they only share the /64: an upper bound is what remains.
OverlapsAreRight ==
  \A net \in Nets : \A len \in LengthsAsked(net) :
    LET p == Interval(net.addr, len, net.version)
        common == covered[net.version] \cap p.start..p.end
    IN  len > 0 =>
          /\ net.version = 4 =>
               /\ Overlap4(p).count = Cardinality(common)
               /\ Overlap4(p).more_specific => common = p.start..p.end
          /\ net.version = 6 /\ len <= HALF =>
               Overlap6(p).count = Cardinality(Units(common))
          /\ net.version = 6 => Overlap6(p).count <= Cardinality(Units(p.start..p.end))

=============================================================================
