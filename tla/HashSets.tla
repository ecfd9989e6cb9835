------------------------------ MODULE HashSets ------------------------------
(***************************************************************************)
(* The sets of ids, strings, addresses and prefixes,                       *)
(* lib/utils/bgpstream_utils_{id,str,addr,pfx}_set.c: hash tables with, in *)
(* some of them, a cursor, copies of their members, or counters per        *)
(* address version.  A table is a row of buckets; where khash puts a key,  *)
(* and when it rearranges the table, is left open.                         *)
(***************************************************************************)
EXTENDS Integers, FiniteSets, SequencesExt

CONSTANTS
  Members,       \* what is put into the sets: <<version, number>>
  MaxBuckets     \* bound: buckets of a table

VARIABLES
  kind,          \* the kind of the two sets
  sets,          \* each: [buckets, k, ipv4_size, ipv6_size]
  strings,       \* strings allocated for a set and not freed
  meant,         \* what the sets should hold
  told,          \* what next returned since the last rewind, up to NULL
  disturbed      \* a member was inserted since

hashset_vars == <<kind, sets, strings, meant, told, disturbed>>

Names == {"dst", "src"}
NONE == <<>>

\* A kind of set has a cursor to iterate with, owns copies of its members, can
\* remove them, counts them per address version, or has none of these.
Plain == [cursor |-> FALSE, copies |-> FALSE, versions |-> FALSE]

IdSet == [Plain EXCEPT !.cursor = TRUE]
StrSet == [Plain EXCEPT !.cursor = TRUE, !.copies = TRUE]
AddrStorageSet == Plain
Ipv4AddrSet == Plain
Ipv6AddrSet == Plain
PfxStorageSet == [Plain EXCEPT !.versions = TRUE]
Ipv4PfxSet == Plain
Ipv6PfxSet == Plain

Kinds == {IdSet, StrSet, AddrStorageSet, Ipv4AddrSet, Ipv6AddrSet, PfxStorageSet,
          Ipv4PfxSet, Ipv6PfxSet}

Keys(set) == Range(set.buckets) \ {NONE}

\* khash: a new key takes a free bucket, or the table is made larger and
\* arranged anew; a free bucket always remains.
KhPut(set, x) ==
  LET free == {b \in DOMAIN set.buckets : set.buckets[b] = NONE}
      inplace == {[set.buckets EXCEPT ![b] = x] : b \in free}
      size == Min({2 * Len(set.buckets), MaxBuckets})
      grown == {t \in [1..size -> Keys(set) \cup {x, NONE}] :
                  \A y \in Keys(set) \cup {x} : Cardinality({b \in 1..size : t[b] = y}) = 1}
  IN  {[set EXCEPT !.buckets = t] :
         t \in IF Cardinality(free) > 1 THEN inplace ELSE grown}

SetCreate == [buckets |-> <<NONE, NONE>>, k |-> 1, ipv4_size |-> 0, ipv6_size |-> 0]

SetRewind(set) == IF kind.cursor THEN [set EXCEPT !.k = 1] ELSE set

SetExists(set, x) == x \in Keys(set)

SetSize(set) == Cardinality(Keys(set))

\* insert: the sets that may result.
SetInsert(set, x) ==
  LET counted == IF ~kind.versions THEN set
                 ELSE IF x[1] = 4 THEN [set EXCEPT !.ipv4_size = @ + 1]
                                  ELSE [set EXCEPT !.ipv6_size = @ + 1]
  IN  IF SetExists(set, x) THEN {set} ELSE KhPut(counted, x)

\* remove, of strings only, rewinds the set also if there is nothing to remove.
SetRemove(set, x) ==
  [SetRewind(set) EXCEPT !.buckets = [b \in DOMAIN @ |-> IF @[b] = x THEN NONE ELSE @[b]]]

\* next: the first full bucket from the cursor on.
SetNext(set) ==
  LET full == {b \in DOMAIN set.buckets : b >= set.k /\ set.buckets[b] # NONE}
  IN  IF full = {} THEN [set |-> [set EXCEPT !.k = Len(set.buckets) + 1], v |-> NONE]
      ELSE [set |-> [set EXCEPT !.k = Min(full) + 1], v |-> set.buckets[Min(full)]]

\* Mutant of SetClear: the counters of the versions stay.
SetClearKeepsSizes(set) == [SetRewind(set) EXCEPT !.buckets = [b \in DOMAIN @ |-> NONE]]

\* clear leaves the buckets, empty.
SetClear(set) ==
  [SetRewind(set) EXCEPT !.buckets = [b \in DOMAIN @ |-> NONE],
                         !.ipv4_size = 0, !.ipv6_size = 0]

\* The members of src, bucket by bucket, are inserted into dst.
SetMerge(dst, src) ==
  LET Add(some, x) == IF x = NONE THEN some ELSE UNION {SetInsert(set, x) : set \in some}
  IN  {SetRewind(set) : set \in FoldLeft(Add, {dst}, src.buckets)}

-----------------------------------------------------------------------------

Init ==
  /\ kind \in Kinds
  /\ sets = [n \in Names |-> SetCreate]
  /\ strings = [n \in Names |-> 0]
  /\ meant = [n \in Names |-> {}]
  /\ told = [n \in Names |-> <<>>]
  /\ disturbed = [n \in Names |-> FALSE]

\* Strings are copied and freed.
Strings(n, copied, freed) ==
  strings' = IF kind.copies THEN [strings EXCEPT ![n] = @ + copied - freed] ELSE strings

\* The copy of a string that is a member already is freed.
Freed(n, xs) == Cardinality(xs \cap Keys(sets[n]))

Rewound(ns) ==
  /\ told' = [n \in Names |-> IF n \in ns THEN <<>> ELSE told[n]]
  /\ disturbed' = [n \in Names |-> IF n \in ns THEN FALSE ELSE disturbed[n]]

InsertMember(n, x) ==
  /\ \E set \in SetInsert(sets[n], x) : sets' = [sets EXCEPT ![n] = set]
  /\ Strings(n, 1, Freed(n, {x}))
  /\ meant' = [meant EXCEPT ![n] = @ \cup {x}]
  /\ disturbed' = [disturbed EXCEPT ![n] = kind.cursor]
  /\ UNCHANGED <<kind, told>>

RemoveMember(n, x) ==
  /\ kind.copies
  /\ sets' = [sets EXCEPT ![n] = SetRemove(@, x)]
  /\ Strings(n, 0, Freed(n, {x}))
  /\ meant' = [meant EXCEPT ![n] = @ \ {x}]
  /\ Rewound({n})
  /\ UNCHANGED kind

MergeSets ==
  /\ \E set \in SetMerge(sets["dst"], sets["src"]) :
       sets' = [dst |-> set, src |-> SetRewind(sets["src"])]
  /\ Strings("dst", SetSize(sets["src"]), Freed("dst", Keys(sets["src"])))
  /\ meant' = [meant EXCEPT !["dst"] = @ \cup meant["src"]]
  /\ Rewound(Names)
  /\ UNCHANGED kind

RewindSet(n) ==
  /\ kind.cursor
  /\ sets' = [sets EXCEPT ![n] = SetRewind(@)]
  /\ Rewound({n})
  /\ UNCHANGED <<kind, strings, meant>>

NextMember(n) ==
  /\ kind.cursor
  /\ NONE \notin Range(told[n])
  /\ Len(told[n]) <= Cardinality(Members)
  /\ sets' = [sets EXCEPT ![n] = SetNext(@).set]
  /\ told' = [told EXCEPT ![n] = Append(@, SetNext(sets[n]).v)]
  /\ UNCHANGED <<kind, strings, meant, disturbed>>

ClearSet(n) ==
  /\ sets' = [sets EXCEPT ![n] = SetClear(@)]
  /\ Strings(n, 0, SetSize(sets[n]))
  /\ meant' = [meant EXCEPT ![n] = {}]
  /\ Rewound({n})
  /\ UNCHANGED kind

Next ==
  \/ \E n \in Names : \E x \in Members : InsertMember(n, x) \/ RemoveMember(n, x)
  \/ \E n \in Names : RewindSet(n) \/ NextMember(n) \/ ClearSet(n)
  \/ MergeSets

-----------------------------------------------------------------------------

\* Whatever khash does with its buckets: the sets hold what was inserted,
\* merged in and not removed, and own one string for each of their members.
\* The counters of a version are those of the prefixes.  A user who rewinds and
\* calls next until it returns NULL is told every member once, unless a member
\* is inserted meanwhile.
SetsAreRight ==
  \A n \in Names :
    LET set == sets[n]
        members == {x \in Range(told[n]) : x # NONE}
    IN  /\ Keys(set) = meant[n] /\ SetSize(set) = Cardinality(meant[n])
        /\ kind.copies => strings[n] = Cardinality(meant[n])
        /\ kind.versions =>
             /\ set.ipv4_size = Cardinality({x \in meant[n] : x[1] = 4})
             /\ set.ipv6_size = Cardinality({x \in meant[n] : x[1] = 6})
        /\ ~disturbed[n] =>
             /\ members \subseteq meant[n]
             /\ \A i, j \in DOMAIN told[n] : told[n][i] = told[n][j] => i = j
             /\ NONE \in Range(told[n]) => members = meant[n]

=============================================================================
