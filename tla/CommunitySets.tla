--------------------------- MODULE CommunitySets ---------------------------
(***************************************************************************)
(* The community sets of two elems, filled, cleared, extended and copied   *)
(* over one another in any order.                                          *)
(***************************************************************************)
EXTENDS Community

CONSTANTS
  Halves,        \* the values of a half: sets of bits
  MaxComms       \* bound: communities of one message

VARIABLES
  comms,         \* the sets of two elems: [array, alloc, hash]
  meant          \* what each of them should hold

community_vars == <<comms, meant>>

Sets == {"elem", "copy"}
Communities == [asn : Halves, value : Halves]

Init ==
  /\ comms = [s \in Sets |-> SetCreate]
  /\ meant = [s \in Sets |-> <<>>]

Store(s, set, array) ==
  /\ comms' = [comms EXCEPT ![s] = set]
  /\ meant' = [meant EXCEPT ![s] = array]

Messages == UNION {[1..n -> Communities] : n \in 0..MaxComms}

Populate(s, m) == Store(s, SetPopulate(comms[s], m), m)

PopulateFromArray(s, m) == Store(s, SetPopulateFromArray(comms[s], m), m)

Insert(s, c) ==
  /\ Len(meant[s]) < MaxComms
  /\ Store(s, SetInsert(comms[s], c), Append(meant[s], c))

Copy(dst, src) == Store(dst, SetCopy(comms[dst], comms[src]), meant[src])

Clear(s) == Store(s, SetClear(comms[s]), <<>>)

Next ==
  \E s \in Sets :
    \/ \E m \in Messages : Populate(s, m) \/ PopulateFromArray(s, m)
    \/ \E c \in Communities : Insert(s, c)
    \/ \E t \in Sets \ {s} : Copy(s, t)
    \/ Clear(s)

-----------------------------------------------------------------------------

Agrees(c, d, mask) == \A half \in mask : c[half] = d[half]

\* Whatever a set held before it was cleared, filled again or copied over, a
\* match means that the set holds a community that agrees, and one that agrees
\* is found.  Known exception: if a half that has to agree is 0 the hash rules
\* it out, so that a community with such a half may be held and not be found.
\* The array has room for what it holds.
MatchIsRight ==
  \A s \in Sets :
    /\ Len(comms[s].array) <= comms[s].alloc
    /\ \A c \in Communities, mask \in SUBSET FILTER_EXACT :
         LET held == \E i \in DOMAIN meant[s] : Agrees(meant[s][i], c, mask)
         IN  /\ SetMatch(comms[s], c, mask) => held
             /\ held /\ (\A half \in mask : c[half] # {}) => SetMatch(comms[s], c, mask)

=============================================================================
