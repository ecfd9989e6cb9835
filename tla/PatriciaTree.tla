---------------------------- MODULE PatriciaTree ----------------------------
(***************************************************************************)
(* The Patricia tree of prefixes, lib/utils/bgpstream_utils_patricia.c:    *)
(* a binary tree per address version whose inner nodes are prefixes or     *)
(* glue nodes that only branch.  Nodes are pointers into a heap, so that a *)
(* wrong link, a leaked node and a dangling pointer can be told.           *)
(*                                                                         *)
(* A prefix is [version, len, addr, allowed] with addr the bits of the     *)
(* address, which need not be 0 behind len, as the code does not mask      *)
(* them, and allowed its allowed_matches, see Filter.                      *)
(***************************************************************************)
EXTENDS Integers, FiniteSets, FiniteSetsExt, SequencesExt

CONSTANTS
  Versions,      \* address versions
  MAXBITS,       \* bits of an address
  COUNTBITS      \* bits of a count of subnets, a uint64_t

NULL == <<>>

\* Body of the value of x.
With(x, Body(_)) == CHOOSE y \in {Body(z) : z \in {x}} : TRUE

-----------------------------------------------------------------------------
(* Prefixes *)

\* BGPSTREAM_PREFIX_MATCH_ANY, which is 0.
MATCH_ANY == 0

BitTest(pfx, b) == b < MAXBITS /\ pfx.addr[b + 1] = 1

\* comp_with_mask: equal up to the length of the mask.
CompWithMask(a, b, mask) == \A i \in 1..mask : a.addr[i] = b.addr[i]

Masked(pfx) ==
  [pfx EXCEPT !.addr = [i \in 1..MAXBITS |-> IF i <= pfx.len THEN pfx.addr[i] ELSE 0],
              !.allowed = MATCH_ANY]

\* The first bit in which two addresses differ, check at most.
DifferBit(a, b, check) ==
  Min({i \in 0..(check - 1) : a.addr[i + 1] # b.addr[i + 1]} \cup {check})

-----------------------------------------------------------------------------
(* The tree *)

Empty == [heap |-> <<>>, head |-> [v \in Versions |-> NULL],
          active |-> [v \in Versions |-> 0]]

\* A new node is filled with 0 and gets the length and the address.
NodeCreate(pfx) ==
  [bit |-> pfx.len, glue |-> FALSE, pfx |-> [pfx EXCEPT !.allowed = MATCH_ANY], l |-> NULL, r |-> NULL,
   parent |-> NULL, user |-> NULL]

\* The prefix of a new glue node, which is never read.
NoPfx == [version |-> NULL, len |-> 0, addr |-> [i \in 1..MAXBITS |-> 0],
          allowed |-> MATCH_ANY]

\* malloc: a pointer that is not in use.  Pointers are only compared; one is
\* named after the bits its node is created for.
Fresh(heap, kind, pfx, len) ==
  LET name == <<kind, pfx.version, len>> \o SubSeq(pfx.addr, 1, len)
  IN  CHOOSE p \in {name} \cup {Append(name, i) : i \in 1..Cardinality(DOMAIN heap)} :
        p \notin DOMAIN heap

Free(heap, p) == [q \in DOMAIN heap \ {p} |-> heap[q]]

\* Attach new where old was: below old's parent, or as the head.
Relink(t, v, old, new) ==
  LET p == t.heap[old].parent
  IN  IF p = NULL THEN [t EXCEPT !.head[v] = new]
      ELSE IF t.heap[p].r = old THEN [t EXCEPT !.heap[p].r = new]
                                ELSE [t EXCEPT !.heap[p].l = new]

Towards(node, pfx) == IF BitTest(pfx, node.bit) THEN node.r ELSE node.l

\* The node at which the search for the place of pfx stops.
StopNode(t, pfx) ==
  LET Go[p \in DOMAIN t.heap] ==
        LET node == t.heap[p]
        IN  IF (node.bit < pfx.len \/ node.glue) /\ Towards(node, pfx) # NULL
            THEN Go[Towards(node, pfx)] ELSE p
  IN  Go[t.head[pfx.version]]

\* Back up to the node below the parent that branches before differ_bit.
BackUp(t, from, differ_bit) ==
  LET Up[p \in DOMAIN t.heap] ==
        LET q == t.heap[p].parent
        IN  IF q # NULL /\ t.heap[q].bit >= differ_bit THEN Up[q] ELSE p
  IN  Up[from]

\* insert: the tree and the node of pfx in it.
Insert(t, pfx) ==
  LET v == pfx.version
      new == Fresh(t.heap, 1, pfx, pfx.len)
      counted == [t EXCEPT !.active[v] = @ + 1]
      created == [counted EXCEPT !.heap = @ @@ (new :> NodeCreate(pfx))]
  IN  IF t.head[v] = NULL
      THEN [tree |-> [created EXCEPT !.head[v] = new], node |-> new]
      ELSE LET stop == StopNode(t, pfx)
               test == t.heap[stop].pfx
               differ_bit == DifferBit(pfx, test, Min({t.heap[stop].bit, pfx.len}))
               it == BackUp(t, stop, differ_bit)
               node == t.heap[it]
               glue == Fresh(created.heap, 0, pfx, differ_bit)
           IN  CASE differ_bit = pfx.len /\ node.bit = pfx.len /\ ~node.glue ->
                      [tree |-> t, node |-> it]
                 [] differ_bit = pfx.len /\ node.bit = pfx.len /\ node.glue ->
                      [tree |-> [counted EXCEPT !.heap[it].glue = FALSE,
                                                !.heap[it].pfx = pfx],
                       node |-> it]
                 [] node.bit = differ_bit /\ node.bit # pfx.len ->
                      [tree |-> IF BitTest(pfx, node.bit)
                                THEN [created EXCEPT !.heap[it].r = new,
                                                     !.heap[new].parent = it]
                                ELSE [created EXCEPT !.heap[it].l = new,
                                                     !.heap[new].parent = it],
                       node |-> new]
                 [] node.bit # differ_bit /\ pfx.len = differ_bit ->
                      [tree |->
                         [Relink(created, v, it, new) EXCEPT
                            !.heap[new] = [@ EXCEPT !.parent = node.parent,
                              !.r = IF BitTest(test, pfx.len) THEN it ELSE NULL,
                              !.l = IF BitTest(test, pfx.len) THEN NULL ELSE it],
                            !.heap[it].parent = new],
                       node |-> new]
                 [] OTHER ->
                      LET right == BitTest(pfx, differ_bit)
                          glued == [created EXCEPT !.heap = @ @@ (glue :>
                            [NodeCreate(NoPfx) EXCEPT !.bit = differ_bit, !.glue = TRUE,
                               !.parent = node.parent,
                               !.r = IF right THEN new ELSE it,
                               !.l = IF right THEN it ELSE new])]
                      IN  [tree |-> [Relink(glued, v, it, glue) EXCEPT
                                       !.heap[new].parent = glue,
                                       !.heap[it].parent = glue],
                           node |-> new]

\* remove_node of a node that is no glue node; its user data is destroyed first.
RemoveNode(t, p) ==
  LET node == t.heap[p]
      v == node.pfx.version
      parent == node.parent
      counted == [t EXCEPT !.active[v] = @ - 1]
      \* the node is freed and replaced by its only child or by nothing
      child == IF node.r # NULL THEN node.r ELSE node.l
      linked == Relink(counted, v, p, child)
      spliced == [linked EXCEPT
                    !.heap = Free(IF child = NULL THEN @
                                  ELSE [@ EXCEPT ![child].parent = parent], p)]
      \* a glue node with one child left is freed too
      up == spliced.heap[parent]
      other == IF up.r # NULL THEN up.r ELSE up.l
      grand == up.parent
      lifted == Relink(spliced, v, parent, other)
  IN  CASE node.l # NULL /\ node.r # NULL ->
             [t EXCEPT !.heap[p].glue = TRUE, !.heap[p].user = NULL]
        [] child = NULL /\ parent # NULL /\ t.heap[parent].glue ->
             [lifted EXCEPT !.heap = Free([@ EXCEPT ![other].parent = grand], parent)]
        [] OTHER -> spliced

SearchExact(t, pfx) ==
  LET Go[p \in DOMAIN t.heap \cup {NULL}] ==
        IF p # NULL /\ t.heap[p].bit < pfx.len THEN Go[Towards(t.heap[p], pfx)] ELSE p
      p == Go[t.head[pfx.version]]
  IN  IF /\ p # NULL
         /\ t.heap[p].bit <= pfx.len /\ ~t.heap[p].glue
         /\ CompWithMask(t.heap[p].pfx, pfx, pfx.len)
      THEN p ELSE NULL

-----------------------------------------------------------------------------
(* Queries *)

\* The nodes of a subtree in pre-order, depth prefixes deep.
AddMoreSpecifics(t, from, levels) ==
  LET Add[p \in DOMAIN t.heap \cup {NULL}, depth \in 0..levels] ==
        IF p = NULL \/ depth = 0 THEN <<>>
        ELSE LET node == t.heap[p]
                 d == IF node.glue THEN depth ELSE depth - 1
             IN  (IF node.glue THEN <<>> ELSE <<p>>) \o Add[node.l, d] \o Add[node.r, d]
  IN  Add[from, levels]

\* The prefixes on the way to the head, the nearest first.
AddLessSpecifics(t, from, levels) ==
  LET Add[p \in DOMAIN t.heap \cup {NULL}, depth \in 0..levels] ==
        IF p = NULL \/ depth = 0 THEN <<>>
        ELSE IF t.heap[p].glue THEN Add[t.heap[p].parent, depth]
             ELSE <<p>> \o Add[t.heap[p].parent, depth - 1]
  IN  Add[from, levels]

GetMoreSpecifics(t, p) ==
  AddMoreSpecifics(t, t.heap[p].l, MAXBITS + 1)
    \o AddMoreSpecifics(t, t.heap[p].r, MAXBITS + 1)

GetLessSpecifics(t, p) == AddLessSpecifics(t, t.heap[p].parent, MAXBITS + 1)

GetMincoveringPrefix(t, p) == AddLessSpecifics(t, t.heap[p].parent, 1)

GetMinimumCoverage(t, v) == AddMoreSpecifics(t, t.head[v], 1)

\* Mutant of FindMoreSpecific: it stops at glue nodes.
FindMoreSpecificAbove(t, from) == from # NULL /\ ~t.heap[from].glue

\* find_more_specific looks below glue nodes and stops at the first prefix.
FindMoreSpecific(t, from) ==
  LET Find[p \in DOMAIN t.heap \cup {NULL}] ==
        p # NULL /\ (t.heap[p].glue => Find[t.heap[p].l] \/ Find[t.heap[p].r])
  IN  Find[from]

NodeOverlapInfo(t, p) ==
  [more |-> FindMoreSpecific(t, t.heap[p].l) \/ FindMoreSpecific(t, t.heap[p].r),
   less |-> AddLessSpecifics(t, t.heap[p].parent, 1) # <<>>]

\* A prefix that is not in the tree is inserted and removed again.
PfxOverlapInfo(t, pfx) ==
  LET n == SearchExact(t, pfx)
      Simulated(i) == [tree |-> RemoveNode(i.tree, i.node), exact |-> FALSE,
                       info |-> NodeOverlapInfo(i.tree, i.node)]
  IN  IF n = NULL THEN With(Insert(t, pfx), Simulated)
      ELSE [tree |-> t, exact |-> TRUE, info |-> NodeOverlapInfo(t, n)]

\* count_subnets.  1 << 64 is replaced by UINT64_MAX; sums are taken as they
\* come.
SubnetsIn(len, size) ==
  IF len >= size THEN 1
  ELSE IF size - len = COUNTBITS THEN 2^COUNTBITS - 1 ELSE 2^(size - len)

CountSubnets(t, v, size) ==
  LET Count[p \in DOMAIN t.heap \cup {NULL}] ==
        IF p = NULL THEN 0
        ELSE LET node == t.heap[p]
             IN  IF node.glue /\ node.bit < size
                 THEN (Count[node.l] + Count[node.r]) % 2^COUNTBITS
                 ELSE SubnetsIn(node.bit, size)
  IN  Count[t.head[v]]

PrefixCount(t, v) == t.active[v]

\* merge: the prefixes of another tree in pre-order.
MergeTree(t, o) ==
  LET nodes == FlattenSeq([i \in 1..Cardinality(Versions) |->
                 AddMoreSpecifics(o, o.head[SetToSeq(Versions)[i]], MAXBITS + 1)])
  IN  FoldLeft(LAMBDA a, p : Insert(a, o.heap[p].pfx).tree, t, nodes)

Built(pfxs) == FoldLeft(LAMBDA a, pfx : Insert(a, pfx).tree, Empty, pfxs)

\* walk, with the callback that removes the nodes of a set: in order, by the
\* pointers l and r as they are when a node is entered, which no removal of a
\* node before it has changed.  A node that was freed meanwhile is a glue node
\* and has no user data: the callback does nothing with it, if it is called at
\* all.
WalkRemoving(tree, v, gone) ==
  LET Walk[p \in DOMAIN tree.heap \cup {NULL}] ==
        IF p = NULL THEN <<>>
        ELSE Walk[tree.heap[p].l] \o <<p>> \o Walk[tree.heap[p].r]
      Callback(t, p) ==
        IF p \in DOMAIN t.heap /\ ~t.heap[p].glue /\ p \in gone THEN RemoveNode(t, p) ELSE t
  IN  FoldLeft(Callback, tree, Walk[tree.head[v]])

=============================================================================
