------------------------------ MODULE Patricia ------------------------------
(***************************************************************************)
(* The tree of PatriciaTree under any sequence of its operations, as the   *)
(* filters and the plugins use them: inserts, removals, lookups that       *)
(* insert and remove, user data, merges and walks that remove.             *)
(***************************************************************************)
EXTENDS PatriciaTree

CONSTANTS
  Pfxs,          \* the prefixes that callers use
  Other,         \* prefixes of the tree that is merged in, in the order of insertion
  Users,         \* user data that callers attach to nodes
  MaxStored,     \* bound: prefixes in the tree
  MaxActive      \* bound: the counter of active nodes

VARIABLES
  pt,            \* [heap, head, active]: the tree
  stored,        \* the prefixes the callers mean to be in the tree, masked
  live           \* user data handed over and not destroyed yet

patricia_vars == <<pt, stored, live>>

-----------------------------------------------------------------------------
(* Operations *)

Init ==
  /\ pt = Empty
  /\ stored = {}
  /\ live = {}

UsersOf(t, ps) == {t.heap[p].user : p \in ps} \ {NULL}

InBounds ==
  /\ \A v \in Versions : pt'.active[v] <= MaxActive
  /\ Cardinality(stored') <= MaxStored

InsertPfx(pfx) ==
  /\ pt' = Insert(pt, pfx).tree
  /\ stored' = stored \cup {Masked(pfx)}
  /\ InBounds
  /\ UNCHANGED live

\* Mutant of SetUser: the old user data is forgotten.
SetUserLeaks(pfx, u) ==
  LET p == SearchExact(pt, pfx)
  IN  /\ p # NULL
      /\ u \notin live \/ u = pt.heap[p].user
      /\ pt' = [pt EXCEPT !.heap[p].user = u]
      /\ live' = live \cup {u}
      /\ UNCHANGED stored

\* set_user: the old user data is destroyed, unless it is the new one.
SetUser(pfx, u) ==
  LET p == SearchExact(pt, pfx)
  IN  /\ p # NULL
      /\ u \notin live \/ u = pt.heap[p].user
      /\ pt' = [pt EXCEPT !.heap[p].user = u]
      /\ live' = (live \ UsersOf(pt, {p})) \cup {u}
      /\ UNCHANGED stored

\* remove: nothing happens if the prefix is not in the tree.
RemovePfx(pfx) ==
  LET p == SearchExact(pt, pfx)
  IN  /\ pt' = IF p = NULL THEN pt ELSE RemoveNode(pt, p)
      /\ live' = IF p = NULL THEN live ELSE live \ UsersOf(pt, {p})
      /\ stored' = stored \ {Masked(pfx)}

Overlap(pfx) ==
  /\ pt' = PfxOverlapInfo(pt, pfx).tree
  /\ UNCHANGED <<stored, live>>
  /\ InBounds

Merge ==
  /\ pt' = MergeTree(pt, Built(Other))
  /\ stored' = stored \cup {Masked(Other[i]) : i \in DOMAIN Other}
  /\ InBounds
  /\ UNCHANGED live

\* The nodes whose user data the callback of a walk finds old.
Old(t, old) == {p \in DOMAIN t.heap : t.heap[p].user \in old}

\* A walk that removes prefixes, as the AS monitor removes the ones it has not
\* seen for long.
Walk(v, old) ==
  LET gone == Old(pt, old)
      mine == {p \in gone : pt.heap[p].pfx.version = v}
  IN  /\ pt' = WalkRemoving(pt, v, gone)
      /\ stored' = stored \ {Masked(pt.heap[p].pfx) : p \in mine}
      /\ live' = live \ UsersOf(pt, mine)

Clear ==
  /\ pt' = Empty
  /\ stored' = {}
  /\ live' = live \ UsersOf(pt, DOMAIN pt.heap)

Next ==
  \/ \E pfx \in Pfxs : InsertPfx(pfx) \/ RemovePfx(pfx) \/ Overlap(pfx)
  \/ \E pfx \in Pfxs, u \in Users : SetUser(pfx, u)
  \/ \E v \in Versions, old \in SUBSET live : Walk(v, old)
  \/ Merge
  \/ Clear

-----------------------------------------------------------------------------
(* Properties *)

Children(node) == {node.l, node.r} \ {NULL}

\* The heads are nodes; every node that is allocated hangs below its parent, or below the head, on
\* the side its bits tell; a glue node has two children.  insert asserts the
\* free place of a child and reads the prefix of the node it stops at, remove
\* asserts the links it unhooks: all of them rest on this shape, which any
\* sequence of inserts, removals and simulated inserts has to keep.
TreeIsSound ==
  /\ \A v \in Versions : pt.head[v] # NULL =>
       pt.head[v] \in DOMAIN pt.heap /\ pt.heap[pt.head[v]].parent = NULL
  /\ \A p \in DOMAIN pt.heap :
       LET node == pt.heap[p]
       IN  /\ Children(node) \subseteq DOMAIN pt.heap
           /\ \A c \in Children(node) :
                /\ pt.heap[c].parent = p
                /\ pt.heap[c].bit > node.bit
                /\ \A q \in ToSet(AddMoreSpecifics(pt, c, MAXBITS + 1)) :
                     /\ ~node.glue => CompWithMask(pt.heap[q].pfx, node.pfx, node.bit)
                     /\ (c = node.r) = BitTest(pt.heap[q].pfx, node.bit)
           /\ node.glue => Cardinality(Children(node)) = 2 /\ node.user = NULL
           /\ ~node.glue => node.bit = node.pfx.len
           /\ IF node.parent = NULL THEN \E v \in Versions : pt.head[v] = p
                                    ELSE p \in Children(pt.heap[node.parent])

\* What a lookup may not change: all but the prefix of a glue node.
Shape(t) ==
  [p \in DOMAIN t.heap |->
     IF t.heap[p].glue THEN [t.heap[p] EXCEPT !.pfx = NoPfx] ELSE t.heap[p]]

Inside(a, b) ==
  a.version = b.version /\ a.len > b.len /\ CompWithMask(a, b, b.len)

PfxsOf(t, ps) == {Masked(t.heap[p].pfx) : p \in ps}

More(pfx) == {q \in stored : Inside(q, pfx)}
Less(pfx) == {q \in stored : Inside(pfx, q)}

\* A list of nodes names the prefixes of a set, each of them once.
Lists(t, s, pfxs) == Len(s) = Cardinality(pfxs) /\ PfxsOf(t, ToSet(s)) = pfxs

\* What the lookups answer is what the set of prefixes says: exact matches,
\* more and less specific prefixes, the nearest cover, overlaps (also of a
\* prefix that is not stored, which leaves the tree as it was), the minimum
\* coverage and the number of subnets, as far as it fits: all /64s are 2^64, and
\* their count is UINT64_MAX when ::/0 is stored and 0 when they add up to it.
\* The count of prefixes is never too small; it is too large once a node with
\* two children was removed.
AnswersAreRight ==
  /\ \A pfx \in Pfxs :
       LET m == Masked(pfx)
           p == SearchExact(pt, pfx)
           o == PfxOverlapInfo(pt, pfx)
       IN  /\ o.exact = (m \in stored) /\ (p # NULL) = (m \in stored)
           /\ Shape(o.tree) = Shape(pt)
           /\ o.info = [more |-> More(m) # {}, less |-> Less(m) # {}]
           /\ p # NULL =>
                /\ PfxsOf(pt, {p}) = {m}
                /\ Lists(pt, GetMoreSpecifics(pt, p), More(m))
                /\ Lists(pt, GetLessSpecifics(pt, p), Less(m))
                /\ Lists(pt, GetMincoveringPrefix(pt, p),
                         {q \in Less(m) : \A q2 \in Less(m) : q2.len <= q.len})
  /\ \A v \in Versions :
       LET all == {q \in stored : q.version = v}
       IN  /\ PrefixCount(pt, v) >= Cardinality(all)
           /\ Lists(pt, GetMinimumCoverage(pt, v), {q \in all : Less(q) = {}})
           /\ \A size \in 1..COUNTBITS :
                LET subnets == {s \in [1..size -> {0, 1}] :
                      \E q \in all : \A i \in 1..Min({size, q.len}) : s[i] = q.addr[i]}
                IN  Cardinality(subnets) < 2^COUNTBITS =>
                      CountSubnets(pt, v, size) = Cardinality(subnets)

\* User data handed to the tree is attached to one node or destroyed: neither
\* a removal, a replaced glue node nor a splice loses it.
UsersAreOwned ==
  /\ live = UsersOf(pt, DOMAIN pt.heap)
  /\ \A p, q \in DOMAIN pt.heap :
       pt.heap[p].user = pt.heap[q].user /\ p # q => pt.heap[p].user = NULL

=============================================================================
