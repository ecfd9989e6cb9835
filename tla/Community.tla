----------------------------- MODULE Community -----------------------------
(***************************************************************************)
(* Sets of communities, lib/utils/bgpstream_utils_community.c: an array    *)
(* with its count, the room allocated and a hash that is the bitwise OR of *)
(* the communities.  A community has two halves, asn and value; a half is  *)
(* the set of its bits, so that OR is the union and & the intersection.    *)
(***************************************************************************)
EXTENDS Integers, Sequences, FiniteSets, SequencesExt, FiniteSetsExt

STAR == -1

\* BGPSTREAM_COMMUNITY_FILTER_*: the halves that have to agree.
FILTER_EXACT == {"asn", "value"}

\* The bits of a number of 16 bits, here of W bits; strtoul's result is cut.
Bits(n, W) == {i \in 0..(W - 1) : (n \div 2^i) % 2 = 1}

\* str2community: the halves of the text, a number or "*", which matches any.
Str2Community(str, W) ==
  LET Half(h) == IF h = STAR THEN {} ELSE Bits(h, W)
  IN  [com |-> [asn |-> Half(str.asn), value |-> Half(str.value)],
       mask |-> {half \in FILTER_EXACT : str[half] # STAR}]

NoBits == [asn |-> {}, value |-> {}]
Or(h, c) == [asn |-> h.asn \cup c.asn, value |-> h.value \cup c.value]
OrAll(array) ==
  [asn |-> UNION {array[i].asn : i \in DOMAIN array},
   value |-> UNION {array[i].value : i \in DOMAIN array}]

SetCreate == [array |-> <<>>, alloc |-> 0, hash |-> NoBits]

\* The memory is kept.
SetClear(set) == [set EXCEPT !.array = <<>>, !.hash = NoBits]

Room(set, n) == IF set.alloc < n THEN [set EXCEPT !.alloc = n] ELSE set

\* Mutant of SetCopy: the hash stays as it was.
SetCopyKeepsHash(dst, src) == [Room(dst, Len(src.array)) EXCEPT !.array = src.array]

SetCopy(dst, src) ==
  [Room(dst, Len(src.array)) EXCEPT !.array = src.array, !.hash = src.hash]

SetInsert(set, c) ==
  [set EXCEPT !.alloc = IF Len(set.array) = @ THEN @ + 1 ELSE @,
              !.array = Append(@, c),
              !.hash = Or(@, c)]

\* populate_from_array: a set that does not own its memory is copied.
SetPopulateFromArray(set, array) ==
  SetCopy(set, [array |-> array, alloc |-> -1, hash |-> OrAll(array)])

\* populate, with the communities of a message.
SetPopulate(set, bd_comms) ==
  [Room(SetClear(set), Len(bd_comms)) EXCEPT !.array = bd_comms, !.hash = OrAll(bd_comms)]

\* set_match: the hash is looked at first, then the communities.  A half whose
\* bits are 0 has no bit in common with any hash.
HashCompatible(set, c, mask) ==
  /\ "asn" \in mask => set.hash.asn \cap c.asn # {}
  /\ "value" \in mask => set.hash.value \cap c.value # {}

SetMatch(set, c, mask) ==
  /\ HashCompatible(set, c, mask)
  /\ \E i \in DOMAIN set.array :
       /\ "asn" \in mask => set.array[i].asn = c.asn
       /\ "value" \in mask => set.array[i].value = c.value

SetExists(set, c) == SetMatch(set, c, FILTER_EXACT)

\* set_equal, as it is written: equal hashes and counts, and arrays that differ.
SetEqual(a, b) ==
  a.hash = b.hash /\ Len(a.array) = Len(b.array) /\ a.array # b.array

=============================================================================
