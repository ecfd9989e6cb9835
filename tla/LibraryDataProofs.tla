-------------------------- MODULE LibraryDataProofs --------------------------
(***************************************************************************)
(* Proofs about the elems of a record and the hash sets, for any records,  *)
(* filters, members and sizes of tables.                                   *)
(***************************************************************************)
EXTENDS Library, QueueLemmas, FiniteSetTheorems

-----------------------------------------------------------------------------
(* The elem generator: its slots are used again for each record.  A slot   *)
(* holds the fields of a line and, in those that the line does not set,    *)
(* what may be left there; that shows in no elem, and by ElemsAssumption   *)
(* changes nothing for the filters.                                        *)

\* The elem that a line makes in a slot of its own, and those it makes in one
\* that was used before.
Fresh(line) == E!Set(E!ElemCreate, line)
Reused(line) == {E!Set(E!Set(E!ElemCreate, old), line) : old \in E!Leftovers}
Slots == {E!ElemCreate} \cup UNION {Reused(line) : line \in E!AllLines}

ElemFields ==
  {"type", "timestamp", "peer_address", "peer_asnumber", "prefix", "nexthop", "aspath",
   "communities", "old_state", "new_state"}
AlwaysSet == {"type", "timestamp", "peer_address", "peer_asnumber"}

\* A line sets what means something for its type, but for what is cleared.
IsLine(line) ==
  /\ AlwaysSet \subseteq DOMAIN line /\ DOMAIN line \subseteq ElemFields
  /\ E!Meaningful(line) \subseteq DOMAIN line \cup {"aspath", "communities"}
AreLines(s) == \E t : s \in Seq(t) /\ \A line \in t : IsLine(line)

LEMMA LinesOfRoute == \A entry, peer, attr : IsLine(E!Route(entry, peer, attr))
<1> TAKE entry, peer, attr
<1>1. PICK line : line = E!Route(entry, peer, attr)
  OBVIOUS
<1>2. /\ DOMAIN line = {"type", "timestamp", "peer_address", "peer_asnumber", "prefix",
                        "aspath", "communities", "nexthop"}
      /\ line.type = "RIB"
  BY <1>1 DEF E!Route
<1>3. E!Meaningful(line) = {"type", "timestamp", "peer_address", "peer_asnumber", "aspath",
                            "communities"} \cup {"prefix", "nexthop"}
  BY <1>2 DEF E!Meaningful
<1> QED
  BY <1>1, <1>2, <1>3 DEF IsLine, AlwaysSet, ElemFields

LEMMA LinesJoin == \A s, t : AreLines(s) /\ AreLines(t) => AreLines(s \o t)
<1> SUFFICES ASSUME NEW s, NEW t, AreLines(s), AreLines(t) PROVE AreLines(s \o t)
  OBVIOUS
<1>1. PICK a : s \in Seq(a) /\ \A line \in a : IsLine(line)
  BY DEF AreLines
<1>2. PICK b : t \in Seq(b) /\ \A line \in b : IsLine(line)
  BY DEF AreLines
<1>3. PICK u : u = a \cup b
  OBVIOUS
<1>4. s \in Seq(u) /\ t \in Seq(u)
  BY <1>1, <1>2, <1>3
<1>5. s \o t \in Seq(u)
  BY <1>4
<1> QED
  BY <1>1, <1>2, <1>3, <1>5 DEF AreLines

LEMMA LinesOfList ==
  ASSUME NEW list, E!IsList(list), NEW s, DOMAIN s = DOMAIN list,
         s = [i \in DOMAIN s |-> s[i]], \A i \in DOMAIN s : IsLine(s[i])
  PROVE  AreLines(s)
<1>1. Len(list) \in Nat /\ DOMAIN list = 1..Len(list)
  BY LenProperties DEF E!IsList
<1>2. PICK n \in Nat : DOMAIN s = 1..n
  BY <1>1
<1>3. PICK t : t = {s[i] : i \in 1..n}
  OBVIOUS
<1>4. s \in [1..n -> t]
  BY <1>2, <1>3
<1>5. s \in Seq(t)
  BY <1>4
<1> QED
  BY <1>2, <1>3, <1>5 DEF AreLines

LEMMA LinesOfWithdraw ==
  \A entry, prefixes, version : E!IsList(prefixes) => AreLines(E!Withdraw(entry, prefixes, version))
<1> SUFFICES ASSUME NEW entry, NEW prefixes, NEW version, E!IsList(prefixes)
             PROVE  AreLines(E!Withdraw(entry, prefixes, version))
  OBVIOUS
<1>1. PICK s : s = E!Withdraw(entry, prefixes, version)
  OBVIOUS
<1>2. DOMAIN s = DOMAIN prefixes /\ s = [i \in DOMAIN s |-> s[i]]
  BY <1>1 DEF E!Withdraw
<1>3. ASSUME NEW i \in DOMAIN s PROVE IsLine(s[i])
  <2>1. PICK line : line = s[i]
    OBVIOUS
  <2>2. /\ DOMAIN line = {"type", "timestamp", "peer_address", "peer_asnumber", "prefix"}
        /\ line.type = "WITHDRAWAL"
    BY <1>1, <1>2, <2>1 DEF E!Withdraw
  <2>3. E!Meaningful(line) = {"type", "timestamp", "peer_address", "peer_asnumber", "aspath",
                              "communities"} \cup {"prefix"}
    BY <2>2 DEF E!Meaningful
  <2> QED
    BY <2>1, <2>2, <2>3 DEF IsLine, AlwaysSet, ElemFields
<1> QED
  BY <1>1, <1>2, <1>3, LinesOfList

LEMMA LinesOfAnnounce ==
  \A entry, prefixes, version, nexthop :
    E!IsList(prefixes) => AreLines(E!Announce(entry, prefixes, version, nexthop))
<1> SUFFICES ASSUME NEW entry, NEW prefixes, NEW version, NEW nexthop, E!IsList(prefixes)
             PROVE  AreLines(E!Announce(entry, prefixes, version, nexthop))
  OBVIOUS
<1>1. PICK s : s = E!Announce(entry, prefixes, version, nexthop)
  OBVIOUS
<1>2. DOMAIN s = DOMAIN prefixes /\ s = [i \in DOMAIN s |-> s[i]]
  BY <1>1 DEF E!Announce
<1>3. ASSUME NEW i \in DOMAIN s PROVE IsLine(s[i])
  <2>1. PICK line : line = s[i]
    OBVIOUS
  <2>2. /\ DOMAIN line = {"type", "timestamp", "peer_address", "peer_asnumber", "prefix",
                          "nexthop", "aspath", "communities"}
        /\ line.type = "ANNOUNCEMENT"
    BY <1>1, <1>2, <2>1 DEF E!Announce
  <2>3. E!Meaningful(line) = {"type", "timestamp", "peer_address", "peer_asnumber", "aspath",
                              "communities"} \cup {"prefix", "nexthop"}
    BY <2>2 DEF E!Meaningful
  <2> QED
    BY <2>1, <2>2, <2>3 DEF IsLine, AlwaysSet, ElemFields
<1> QED
  BY <1>1, <1>2, <1>3, LinesOfList

LEMMA LinesOfStateChange == \A entry : AreLines(E!StateChange(entry))
<1> TAKE entry
<1>1. PICK line : <<line>> = E!StateChange(entry) /\
        line = [type |-> "PEERSTATE", timestamp |-> entry.time,
     peer_address |-> entry.peer.address, peer_asnumber |-> entry.peer.as,
     old_state |-> entry.old_state, new_state |-> entry.new_state]
  BY DEF E!StateChange
<1>2. /\ DOMAIN line = {"type", "timestamp", "peer_address", "peer_asnumber", "old_state",
                        "new_state"}
      /\ line.type = "PEERSTATE"
  BY <1>1
<1>3. E!Meaningful(line) = {"type", "timestamp", "peer_address", "peer_asnumber", "aspath",
                            "communities"} \cup {"old_state", "new_state"}
  BY <1>2 DEF E!Meaningful
<1>4. IsLine(line)
  BY <1>2, <1>3 DEF IsLine, AlwaysSet, ElemFields
<1>5. PICK t : t = {line}
  OBVIOUS
<1>6. <<line>> \in Seq(t) /\ \A l \in t : IsLine(l)
  BY <1>4, <1>5
<1>7. AreLines(<<line>>)
  BY <1>6, Zenon DEF AreLines
<1> QED
  BY <1>1, <1>7

LEMMA LinesOfUpdate ==
  \A rec \in Records : rec.entry.kind = "UPDATE" => AreLines(E!Update(rec.entry))
<1> SUFFICES ASSUME NEW rec \in Records, rec.entry.kind = "UPDATE" PROVE AreLines(E!Update(rec.entry))
  OBVIOUS
<1>1. PICK entry : entry = rec.entry
  OBVIOUS
<1>2. /\ E!IsList(entry.withdraw) /\ E!IsList(entry.announce)
      /\ \A afi \in {4, 6}, safi \in 1..3 :
           E!IsList(entry.mp_withdraw[afi][safi]) /\ E!IsList(entry.mp_announce[afi][safi])
  BY <1>1, ElemsAssumption DEF E!HasLists
<1>3. 1 \in 1..3 /\ 2 \in 1..3 /\ 3 \in 1..3
  OBVIOUS
<1>4. AreLines(E!MpWithdraw(entry, 4)) /\ AreLines(E!MpWithdraw(entry, 6))
  BY <1>2, <1>3, LinesOfWithdraw, LinesJoin, Zenon DEF E!MpWithdraw
<1>5. \A nexthop : AreLines(E!MpAnnounce(entry, 4, nexthop)) /\ AreLines(E!MpAnnounce(entry, 6, nexthop))
  BY <1>2, <1>3, LinesOfAnnounce, LinesJoin, Zenon DEF E!MpAnnounce
<1>6. AreLines(E!Withdraw(entry, entry.withdraw, 4))
      /\ AreLines(E!Announce(entry, entry.announce, 4, entry.attr.nexthop))
  BY <1>2, LinesOfWithdraw, LinesOfAnnounce
<1>7. AreLines(E!Update(entry))
  BY <1>4, <1>5, <1>6, LinesJoin, Zenon DEF E!Update
<1> QED
  BY <1>1, <1>7

LEMMA SameMaxOfElems == \A u : E!Max(u) = Max(u)
  BY DEF E!Max, Max

\* The routes of a prefix, entry by entry.
RoutesOf(entry) == {E!Route(entry, e.peer, e.attr[1]) : e \in E!Range(entry.entries)}
AddRoute(entry) ==
  [p \in Seq(RoutesOf(entry)) \X E!Range(entry.entries) |->
     IF p[2].attr = <<>> THEN p[1] ELSE Append(p[1], E!Route(entry, p[2].peer, p[2].attr[1]))]

LEMMA DumpV2IsFolded ==
  ASSUME NEW entry, E!IsList(entry.entries)
  PROVE  E!DumpV2Prefix(entry) \in Seq(RoutesOf(entry))
<1> DEFINE F == AddRoute(entry)
           W == Seq(RoutesOf(entry))
           D == E!Range(entry.entries)
<1>0. PICK s : s = entry.entries
  OBVIOUS
<1>1. /\ \A w \in W, d \in D : 
           F[<<w, d>>] = IF d.attr = <<>> THEN w ELSE Append(w, E!Route(entry, d.peer, d.attr[1]))
      /\ FoldType(W, D, <<>>, F)
  <2>1. \A d \in D : E!Route(entry, d.peer, d.attr[1]) \in RoutesOf(entry)
    BY DEF RoutesOf
  <2>2. \A w \in W, d \in D : Append(w, E!Route(entry, d.peer, d.attr[1])) \in W
    BY <2>1
  <2>3. <<>> \in W
    OBVIOUS
  <2> HIDE DEF W, D
  <2>4. F = [p \in W \X D |->
               IF p[2].attr = <<>> THEN p[1]
               ELSE Append(p[1], E!Route(entry, p[2].peer, p[2].attr[1]))]
    BY DEF AddRoute, W, D
  <2> HIDE DEF F
  <2>5. ASSUME NEW p \in W \X D
        PROVE  (IF p[2].attr = <<>> THEN p[1]
                ELSE Append(p[1], E!Route(entry, p[2].peer, p[2].attr[1]))) \in W
    BY <2>2
  <2>6. F \in [W \X D -> W]
    BY <2>4, <2>5
  <2>7. \A w \in W, d \in D : 
           F[<<w, d>>] = IF d.attr = <<>> THEN w ELSE Append(w, E!Route(entry, d.peer, d.attr[1]))
    BY <2>4
  <2> QED
    BY <2>3, <2>6, <2>7 DEF FoldType
<1>2. s \in Seq(D)
  BY <1>0 DEF E!IsList
<1> HIDE DEF F, W, D
<1>3. DOMAIN s = 1..Len(s) /\ Len(s) \in Nat /\ \A i \in 1..Len(s) : s[i] \in D
  BY <1>2, LenProperties
<1> DEFINE Eq(it) == it = [u \in SUBSET DOMAIN s |->
                             IF u = {} THEN <<>>
                             ELSE IF s[E!Max(u)].attr = <<>>
                                  THEN it[u \ {E!Max(u)}]
                                  ELSE Append(it[u \ {E!Max(u)}],
                                         E!Route(entry, s[E!Max(u)].peer, s[E!Max(u)].attr[1]))]
<1>4. E!DumpV2Prefix(entry) = (CHOOSE it : Eq(it))[DOMAIN s]
  BY <1>0, Zenon DEF E!DumpV2Prefix, E!FoldLeft, E!MapThenFoldSet
<1>5. \A u \in SUBSET DOMAIN s : u # {} => Max(u) \in DOMAIN s
  BY <1>3, MaxOfPositions
<1>6. \E it : Eq(it)
  <2>0. SetFolds(W, <<>>, F, s) # {}
    BY <1>1, <1>2, SetFoldsExist
  <2>1. PICK it \in [SUBSET DOMAIN s -> W] :
          \A u \in SUBSET DOMAIN s :
            it[u] = IF u = {} THEN <<>> ELSE F[<<it[u \ {Max(u)}], s[Max(u)]>>]
    BY <2>0 DEF SetFolds
  <2>2. ASSUME NEW u \in SUBSET DOMAIN s, u # {}
        PROVE  F[<<it[u \ {Max(u)}], s[Max(u)]>>] =
                 IF s[E!Max(u)].attr = <<>> THEN it[u \ {E!Max(u)}]
                 ELSE Append(it[u \ {E!Max(u)}],
                        E!Route(entry, s[E!Max(u)].peer, s[E!Max(u)].attr[1]))
    <3>1. s[Max(u)] \in D /\ it[u \ {Max(u)}] \in W
      BY <1>3, <1>5, <2>1, <2>2
    <3> QED
      BY <1>1, <3>1, SameMaxOfElems
  <2>3. Eq(it)
    BY <2>1, <2>2
  <2> QED
    BY <2>3
<1>7. PICK it : Eq(it) /\ E!DumpV2Prefix(entry) = it[DOMAIN s]
  BY <1>4, <1>6
<1>8. IsSetFold(it, W, <<>>, F, s)
  <2>1. it[{}] = <<>>
    BY <1>7
  <2>2. ASSUME NEW u \in SUBSET DOMAIN s, u # {}, it[u \ {Max(u)}] \in W
        PROVE  it[u] = F[<<it[u \ {Max(u)}], s[Max(u)]>>]
    <3>1. it[u] = IF s[Max(u)].attr = <<>> THEN it[u \ {Max(u)}]
                  ELSE Append(it[u \ {Max(u)}], E!Route(entry, s[Max(u)].peer, s[Max(u)].attr[1]))
      BY <1>7, <2>2, SameMaxOfElems
    <3>2. s[Max(u)] \in D
      BY <1>3, <1>5, <2>2
    <3> QED
      BY <1>1, <2>2, <3>1, <3>2
  <2> QED
    BY <2>1, <2>2 DEF IsSetFold
<1>9. it[DOMAIN s] = Folded(W, <<>>, F, s)
  BY <1>1, <1>2, <1>8, SetFoldIsFolded
<1>10. Folded(W, <<>>, F, s) \in W
  BY <1>1, <1>2, FoldedType
<1> QED
  BY <1>7, <1>9, <1>10 DEF W

\* The lines of a record are a sequence, and each sets what it has to.
LEMMA LinesAreLines ==
  ASSUME NEW rec \in Records
  PROVE  /\ E!Lines(rec) \in Seq(E!AllLines)
         /\ \A i \in 1..Len(E!Lines(rec)) : IsLine(E!Lines(rec)[i])
<1>1. AreLines(<<>>)
  <2>1. PICK t : t = {}
    OBVIOUS
  <2>2. <<>> \in Seq(t) /\ \A l \in t : IsLine(l)
    BY <2>1
  <2> QED
    BY <2>2, Zenon DEF AreLines
<1>2. AreLines(E!MrtdRoute(rec.entry))
  <2>1. PICK line : line = E!Route(rec.entry, rec.entry.peer, rec.entry.attr)
    OBVIOUS
  <2>2. PICK t : t = {line}
    OBVIOUS
  <2>3. <<line>> \in Seq(t) /\ \A l \in t : IsLine(l)
    BY <2>1, <2>2, LinesOfRoute
  <2>4. AreLines(<<line>>)
    BY <2>3, Zenon DEF AreLines
  <2> QED
    BY <2>1, <2>4 DEF E!MrtdRoute
<1>3. rec.entry.kind = "TABLE_DUMP_V2" => AreLines(E!DumpV2Prefix(rec.entry))
  <2>1. \A l \in RoutesOf(rec.entry) : IsLine(l)
    BY LinesOfRoute DEF RoutesOf
  <2>2. rec.entry.kind = "TABLE_DUMP_V2" => E!IsList(rec.entry.entries)
    BY ElemsAssumption DEF E!HasLists
  <2> QED
    BY <2>1, <2>2, DumpV2IsFolded DEF AreLines
<1>4. AreLines(E!Lines(rec))
  <2>1. rec.entry.kind = "UPDATE" => AreLines(E!Update(rec.entry))
    BY LinesOfUpdate
  <2>2. AreLines(E!StateChange(rec.entry))
    BY LinesOfStateChange
  <2>3. \/ E!Lines(rec) = <<>>
        \/ E!Lines(rec) = E!MrtdRoute(rec.entry)
        \/ (rec.entry.kind = "TABLE_DUMP_V2" /\ E!Lines(rec) = E!DumpV2Prefix(rec.entry))
        \/ (rec.entry.kind = "UPDATE" /\ E!Lines(rec) = E!Update(rec.entry))
        \/ E!Lines(rec) = E!StateChange(rec.entry)
    BY DEF E!Lines
  <2> QED
    BY <1>1, <1>2, <1>3, <2>1, <2>2, <2>3
<1>5. PICK s : s = E!Lines(rec)
  OBVIOUS
<1>6. PICK t : s \in Seq(t) /\ \A l \in t : IsLine(l)
  BY <1>4, <1>5 DEF AreLines
<1>7. DOMAIN s = 1..Len(s) /\ Len(s) \in Nat /\ \A i \in 1..Len(s) : s[i] \in t
  BY <1>6, LenProperties
<1>8. \A i \in 1..Len(s) : s[i] \in E!AllLines
  BY <1>5, <1>7 DEF E!AllLines, E!Range
<1>9. s \in Seq(E!AllLines)
  BY <1>6, <1>7, <1>8
<1> QED
  BY <1>5, <1>6, <1>7, <1>9

LEMMA AllAreLines == \A line \in E!AllLines : IsLine(line)
<1> SUFFICES ASSUME NEW line \in E!AllLines PROVE IsLine(line)
  OBVIOUS
<1>1. PICK rec \in Records : \E i \in DOMAIN E!Lines(rec) : line = E!Lines(rec)[i]
  BY DEF E!AllLines, E!Range
<1>2. DOMAIN E!Lines(rec) = 1..Len(E!Lines(rec))
  BY LinesAreLines, LenProperties
<1> QED
  BY <1>1, <1>2, LinesAreLines

LEMMA ElemCreated ==
  /\ DOMAIN E!ElemCreate = ElemFields
  /\ E!ElemCreate.aspath = <<>> /\ E!ElemCreate.communities = <<>>
  BY DEF E!ElemCreate, ElemFields

LEMMA OldFields ==
  ASSUME NEW old \in E!Leftovers
  PROVE  /\ DOMAIN old = {"prefix", "nexthop", "old_state", "new_state"}
         /\ \A f \in DOMAIN old : old[f] \in E!LeftIn(f)
<1>1. /\ DOMAIN old = {"prefix", "nexthop", "old_state", "new_state"}
      /\ old.prefix \in E!LeftIn("prefix") /\ old.nexthop \in E!LeftIn("nexthop")
      /\ old.old_state \in E!LeftIn("old_state") /\ old.new_state \in E!LeftIn("new_state")
  BY DEF E!Leftovers
<1> QED
  BY <1>1

\* An elem in a slot: fields of the line, and what may be left in the others.
LEMMA SlotFields ==
  ASSUME NEW line \in E!AllLines, NEW x \in Reused(line)
  PROVE  /\ DOMAIN x = ElemFields
         /\ \A f \in DOMAIN line : x[f] = line[f]
         /\ \A f \in {"aspath", "communities"} \ DOMAIN line : x[f] = E!ElemCreate[f]
         /\ \A f \in ElemFields \ AlwaysSet : f \notin {"aspath", "communities"} => x[f] \in E!LeftIn(f)
<1>1. PICK old \in E!Leftovers : x = E!Set(E!Set(E!ElemCreate, old), line)
  BY DEF Reused
<1>2. DOMAIN line \subseteq ElemFields
  BY AllAreLines DEF IsLine
<1>3. DOMAIN E!Set(E!ElemCreate, old) = ElemFields
      /\ \A f \in ElemFields : E!Set(E!ElemCreate, old)[f] =
            IF f \in DOMAIN old THEN old[f] ELSE E!ElemCreate[f]
  BY ElemCreated DEF E!Set
<1>4. PICK y : y = E!Set(E!ElemCreate, old)
  OBVIOUS
<1>5. DOMAIN x = ElemFields
      /\ \A f \in ElemFields : x[f] = IF f \in DOMAIN line THEN line[f] ELSE y[f]
  BY <1>1, <1>3, <1>4 DEF E!Set
<1>6. \A f \in DOMAIN line : line[f] \in E!LeftIn(f)
  BY DEF E!LeftIn
<1>7. \A f \in ElemFields \ AlwaysSet : f \notin {"aspath", "communities"} => f \in DOMAIN old
  BY OldFields DEF ElemFields, AlwaysSet
<1>8. \A f \in {"aspath", "communities"} : f \in ElemFields /\ f \notin DOMAIN old
  BY OldFields DEF ElemFields
<1>9. \A f \in DOMAIN old : f \in ElemFields /\ old[f] \in E!LeftIn(f)
  BY OldFields DEF ElemFields
<1> QED
  BY <1>2, <1>3, <1>4, <1>5, <1>6, <1>7, <1>8, <1>9

\* What is in any slot.
LEMMA SlotsHold ==
  ASSUME NEW x \in Slots
  PROVE  /\ DOMAIN x = ElemFields
         /\ \A f \in ElemFields \ AlwaysSet : f \notin {"aspath", "communities"} => x[f] \in E!LeftIn(f)
<1>1. CASE x = E!ElemCreate
  BY <1>1, ElemCreated DEF E!LeftIn
<1>2. CASE x # E!ElemCreate
  <2>1. PICK line \in E!AllLines : x \in Reused(line)
    BY <1>2 DEF Slots
  <2> QED
    BY <2>1, SlotFields
<1> QED
  BY <1>1, <1>2

\* A slot that is cleared and filled again.
LEMMA SlotRefilled ==
  ASSUME NEW x \in Slots, NEW line \in E!AllLines
  PROVE  E!Set(E!ElemClear(x), line) \in Reused(line)
<1>1. PICK old : old = [prefix |-> x.prefix, nexthop |-> x.nexthop,
                        old_state |-> x.old_state, new_state |-> x.new_state]
  OBVIOUS
<1>2. /\ x.prefix \in E!LeftIn("prefix") /\ x.nexthop \in E!LeftIn("nexthop")
      /\ x.old_state \in E!LeftIn("old_state") /\ x.new_state \in E!LeftIn("new_state")
  <2>1. "prefix" \in ElemFields \ AlwaysSet /\ "nexthop" \in ElemFields \ AlwaysSet
        /\ "old_state" \in ElemFields \ AlwaysSet /\ "new_state" \in ElemFields \ AlwaysSet
    BY DEF ElemFields, AlwaysSet
  <2> QED
    BY <2>1, SlotsHold
<1>3. old \in E!Leftovers
  BY <1>1, <1>2 DEF E!Leftovers
<1>4. DOMAIN x = ElemFields
  BY SlotsHold
<1>5. PICK c : c = E!ElemClear(x)
  OBVIOUS
<1>6. DOMAIN c = ElemFields /\ c.aspath = <<>> /\ c.communities = <<>>
      /\ \A f \in ElemFields : f \notin {"aspath", "communities"} => c[f] = x[f]
  BY <1>4, <1>5 DEF E!ElemClear, ElemFields
<1>7. PICK y : y = E!Set(E!ElemCreate, old)
  OBVIOUS
<1>8. DOMAIN y = ElemFields
      /\ \A f \in ElemFields : y[f] = IF f \in DOMAIN old THEN old[f] ELSE E!ElemCreate[f]
  BY <1>7, ElemCreated DEF E!Set
<1>9. /\ y.aspath = <<>> /\ y.communities = <<>>
      /\ y.prefix = x.prefix /\ y.nexthop = x.nexthop
      /\ y.old_state = x.old_state /\ y.new_state = x.new_state
  <2>1. DOMAIN old = {"prefix", "nexthop", "old_state", "new_state"}
    BY <1>1
  <2> QED
    BY <1>1, <1>8, <2>1, ElemCreated DEF ElemFields
<1>10. \A f \in ElemFields \ AlwaysSet : c[f] = y[f]
  BY <1>6, <1>9 DEF ElemFields, AlwaysSet
<1>11. AlwaysSet \subseteq DOMAIN line
  BY AllAreLines DEF IsLine
<1>12. \A f \in ElemFields : f \notin DOMAIN line => c[f] = y[f]
  BY <1>10, <1>11
<1>13. E!Set(c, line) = [f \in ElemFields |-> IF f \in DOMAIN line THEN line[f] ELSE c[f]]
       /\ E!Set(y, line) = [f \in ElemFields |-> IF f \in DOMAIN line THEN line[f] ELSE y[f]]
  BY <1>6, <1>8 DEF E!Set
<1>14. E!Set(c, line) = E!Set(y, line)
  BY <1>12, <1>13
<1> QED
  BY <1>3, <1>5, <1>7, <1>14 DEF Reused

\* A new slot is one that was not used.
LEMMA SlotOfLine ==
  ASSUME NEW line \in E!AllLines, NEW x \in Reused(line)
  PROVE  /\ x \in Slots
         /\ E!Shown(x) = E!Shown(Fresh(line))
         /\ Passes(x) = Passes(Fresh(line))
<1>1. x \in Slots
  BY DEF Slots
<1>2. PICK y : y = Fresh(line)
  OBVIOUS
<1>3. /\ DOMAIN line \subseteq ElemFields /\ AlwaysSet \subseteq DOMAIN line
      /\ E!Meaningful(line) \subseteq DOMAIN line \cup {"aspath", "communities"}
  BY AllAreLines DEF IsLine
<1>4. \A f \in ElemFields : y[f] = IF f \in DOMAIN line THEN line[f] ELSE E!ElemCreate[f]
  BY <1>2, ElemCreated DEF Fresh, E!Set
<1>5. /\ \A f \in DOMAIN line : x[f] = line[f]
      /\ \A f \in {"aspath", "communities"} \ DOMAIN line : x[f] = E!ElemCreate[f]
  BY SlotFields
<1>6. "aspath" \in ElemFields /\ "communities" \in ElemFields /\ "type" \in DOMAIN line
  BY <1>3 DEF ElemFields, AlwaysSet
<1>7. \A f \in E!Meaningful(line) : x[f] = y[f]
  BY <1>3, <1>4, <1>5, <1>6
<1>8. x.type = line.type /\ y.type = line.type
  BY <1>3, <1>4, <1>5, <1>6
<1>9. E!Meaningful(x) = E!Meaningful(line) /\ E!Meaningful(y) = E!Meaningful(line)
  BY <1>8 DEF E!Meaningful
<1>10. E!Shown(x) = E!Shown(y)
  BY <1>7, <1>9 DEF E!Shown
<1>11. Passes(x) = Passes(y)
  <2>1. PICK old \in E!Leftovers : x = E!Set(E!Set(E!ElemCreate, old), line)
    BY DEF Reused
  <2>2. Passes(E!Set(E!Set(E!ElemCreate, old), line)) = Passes(E!Set(E!ElemCreate, line))
    BY ElemsAssumption DEF E!PassesSetFields
  <2> QED
    BY <1>2, <2>1, <2>2 DEF Fresh
<1> QED
  BY <1>1, <1>2, <1>10, <1>11

Filling == {g \in [elems : Seq(Slots), cnt : Nat] : g.cnt <= Len(g.elems)}

LEMMA LineIsAdded ==
  ASSUME NEW g \in Filling, NEW line \in E!AllLines, NEW h, h = E!AddElem(g, line)
  PROVE  /\ h \in Filling /\ h.cnt = g.cnt + 1
         /\ h.elems[h.cnt] \in Reused(line)
         /\ \A i \in 1..g.cnt : h.elems[i] = g.elems[i]
<1>1. g.elems \in Seq(Slots) /\ g.cnt \in Nat /\ g.cnt <= Len(g.elems) /\ Len(g.elems) \in Nat
  BY LenProperties DEF Filling
<1>2. E!ElemCreate \in Slots
  BY DEF Slots
<1>3. PICK q : q = E!GetNewElem(g.elems, g.cnt)
  OBVIOUS
<1>4. /\ q \in Seq(Slots) /\ Len(q) >= g.cnt + 1 /\ Len(q) \in Nat
      /\ \A i \in 1..g.cnt : q[i] = g.elems[i]
  <2>1. CASE g.cnt + 1 >= Len(g.elems)
    <3>1. q = Append(g.elems, E!ElemCreate)
      BY <1>3, <2>1 DEF E!GetNewElem
    <3> QED
      BY <1>1, <1>2, <3>1
  <2>2. CASE ~(g.cnt + 1 >= Len(g.elems))
    <3>1. q = g.elems
      BY <1>3, <2>2 DEF E!GetNewElem
    <3> QED
      BY <1>1, <2>2, <3>1
  <2> QED
    BY <2>1, <2>2
<1>5. PICK k : k = g.cnt + 1
  OBVIOUS
<1>6. k \in 1..Len(q) /\ q[k] \in Slots
  BY <1>1, <1>4, <1>5
<1>7. PICK x : x = E!Set(E!ElemClear(q[k]), line)
  OBVIOUS
<1>8. x \in Reused(line) /\ x \in Slots
  BY <1>6, <1>7, SlotRefilled, SlotOfLine
<1>9. h = [elems |-> [q EXCEPT ![k] = x], cnt |-> k]
  BY <1>3, <1>5, <1>7 DEF E!AddElem
<1>10. PICK w : w = [q EXCEPT ![k] = x]
  OBVIOUS
<1>11. w \in Seq(Slots) /\ Len(w) = Len(q) /\ w[k] = x /\ \A i \in 1..g.cnt : w[i] = q[i]
  BY <1>1, <1>4, <1>5, <1>6, <1>8, <1>10
<1> QED
  BY <1>1, <1>4, <1>5, <1>8, <1>9, <1>10, <1>11 DEF Filling

AddElemTo == [p \in Filling \X E!AllLines |-> E!AddElem(p[1], p[2])]

\* The generator goes through the lines of the record.
LEMMA PopulateIsFolded ==
  ASSUME NEW rec, NEW slots \in Seq(Slots), E!Lines(rec) \in Seq(E!AllLines)
  PROVE  /\ FoldType(Filling, E!AllLines, [elems |-> slots, cnt |-> 0], AddElemTo)
         /\ E!Populate(slots, rec) =
              Folded(Filling, [elems |-> slots, cnt |-> 0], AddElemTo, E!Lines(rec))
<1> DEFINE F == AddElemTo
           L == E!AllLines
<1>0. PICK s, base : s = E!Lines(rec) /\ base = [elems |-> slots, cnt |-> 0]
  OBVIOUS
<1>1. /\ \A g \in Filling, l \in L : F[<<g, l>>] = E!AddElem(g, l)
      /\ FoldType(Filling, L, base, F)
  <2>1. \A g \in Filling, l \in L : E!AddElem(g, l) \in Filling
    BY LineIsAdded
  <2>2. base \in Filling
    BY <1>0, LenProperties DEF Filling
  <2> HIDE DEF L
  <2>3. F = [p \in Filling \X L |-> E!AddElem(p[1], p[2])]
    BY DEF AddElemTo, L
  <2> HIDE DEF F
  <2>4. \A p \in Filling \X L : E!AddElem(p[1], p[2]) \in Filling
    BY <2>1
  <2> QED
    BY <2>2, <2>3, <2>4 DEF FoldType
<1>2. s \in Seq(L)
  BY <1>0
<1> HIDE DEF F, L
<1>3. DOMAIN s = 1..Len(s) /\ Len(s) \in Nat /\ \A i \in 1..Len(s) : s[i] \in L
  BY <1>2, LenProperties
<1> DEFINE Eq(it) == it = [u \in SUBSET DOMAIN s |->
                             IF u = {} THEN base
                             ELSE E!AddElem(it[u \ {E!Max(u)}], s[E!Max(u)])]
<1>4. E!Populate(slots, rec) = (CHOOSE it : Eq(it))[DOMAIN s]
  BY <1>0, Zenon DEF E!Populate, E!FoldLeft, E!MapThenFoldSet
<1>5. \A u \in SUBSET DOMAIN s : u # {} => Max(u) \in DOMAIN s
  BY <1>3, MaxOfPositions
<1>6. \E it : Eq(it)
  <2>0. SetFolds(Filling, base, F, s) # {}
    BY <1>1, <1>2, SetFoldsExist
  <2>1. PICK it \in [SUBSET DOMAIN s -> Filling] :
          \A u \in SUBSET DOMAIN s :
            it[u] = IF u = {} THEN base ELSE F[<<it[u \ {Max(u)}], s[Max(u)]>>]
    BY <2>0 DEF SetFolds
  <2>2. ASSUME NEW u \in SUBSET DOMAIN s, u # {}
        PROVE  F[<<it[u \ {Max(u)}], s[Max(u)]>>] = E!AddElem(it[u \ {E!Max(u)}], s[E!Max(u)])
    <3>1. s[Max(u)] \in L /\ it[u \ {Max(u)}] \in Filling
      BY <1>3, <1>5, <2>1, <2>2
    <3> QED
      BY <1>1, <3>1, SameMaxOfElems
  <2>3. Eq(it)
    BY <2>1, <2>2
  <2> QED
    BY <2>3
<1>7. PICK it : Eq(it) /\ E!Populate(slots, rec) = it[DOMAIN s]
  BY <1>4, <1>6
<1>8. IsSetFold(it, Filling, base, F, s)
  <2>1. it[{}] = base
    BY <1>7
  <2>2. ASSUME NEW u \in SUBSET DOMAIN s, u # {}, it[u \ {Max(u)}] \in Filling
        PROVE  it[u] = F[<<it[u \ {Max(u)}], s[Max(u)]>>]
    <3>1. it[u] = E!AddElem(it[u \ {Max(u)}], s[Max(u)])
      BY <1>7, <2>2, SameMaxOfElems
    <3>2. s[Max(u)] \in L
      BY <1>3, <1>5, <2>2
    <3> QED
      BY <1>1, <2>2, <3>1, <3>2
  <2> QED
    BY <2>1, <2>2 DEF IsSetFold
<1>9. it[DOMAIN s] = Folded(Filling, base, F, s)
  BY <1>1, <1>2, <1>8, SetFoldIsFolded
<1> QED
  BY <1>0, <1>1, <1>7, <1>9 DEF F, L

\* After it, the slots in use hold the lines of the record.
LEMMA PopulateFills ==
  ASSUME NEW rec, NEW slots \in Seq(Slots), E!Lines(rec) \in Seq(E!AllLines), NEW h,
         h = E!Populate(slots, rec)
  PROVE  /\ h \in Filling /\ h.cnt = Len(E!Lines(rec))
         /\ \A i \in 1..h.cnt : h.elems[i] \in Reused(E!Lines(rec)[i])
<1>0. PICK s, base : s = E!Lines(rec) /\ base = [elems |-> slots, cnt |-> 0]
  OBVIOUS
<1>1. FoldType(Filling, E!AllLines, base, AddElemTo) /\ h = Folded(Filling, base, AddElemTo, s)
  BY <1>0, PopulateIsFolded
<1>2. s \in Seq(E!AllLines) /\ Len(s) \in Nat /\ \A i \in 1..Len(s) : s[i] \in E!AllLines
  BY <1>0, LenProperties
<1>3. PICK f \in Steps(Filling, base, AddElemTo, s) : h = f[Len(s)]
  BY <1>1, <1>2, StepsExist DEF Folded
<1>4. /\ f \in [0..Len(s) -> Filling] /\ f[0] = base
      /\ \A k \in 1..Len(s) : f[k] = AddElemTo[<<f[k - 1], s[k]>>]
  BY <1>3 DEF Steps
<1> DEFINE Q(k) == f[k].cnt = k /\ \A i \in 1..k : f[k].elems[i] \in Reused(s[i])
<1>5. Q(0)
  BY <1>0, <1>4
<1>6. ASSUME NEW k \in 1..Len(s), Q(k - 1) PROVE Q(k)
  <2>1. k \in Nat /\ k - 1 \in 0..Len(s) /\ f[k - 1] \in Filling /\ s[k] \in E!AllLines
    <3>1. k \in Nat /\ k - 1 \in 0..Len(s) /\ s[k] \in E!AllLines
      BY <1>2
    <3> QED
      BY <1>4, <3>1
  <2>2. f[k] = E!AddElem(f[k - 1], s[k])
    BY <1>4, <2>1 DEF AddElemTo
  <2>3. /\ f[k].cnt = f[k - 1].cnt + 1
        /\ f[k].elems[f[k].cnt] \in Reused(s[k])
        /\ \A i \in 1..f[k - 1].cnt : f[k].elems[i] = f[k - 1].elems[i]
    BY <2>1, <2>2, LineIsAdded
  <2>4. f[k - 1].cnt = k - 1 /\ \A i \in 1..(k - 1) : f[k - 1].elems[i] \in Reused(s[i])
    BY <1>6
  <2>5. f[k].cnt = k
    BY <2>1, <2>3, <2>4
  <2>6. ASSUME NEW i \in 1..k PROVE f[k].elems[i] \in Reused(s[i])
    <3>1. CASE i = k
      BY <2>3, <2>5, <3>1
    <3>2. CASE i # k
      <4>1. i \in 1..(k - 1)
        BY <2>1, <3>2
      <4> QED
        BY <2>3, <2>4, <4>1
    <3> QED
      BY <3>1, <3>2
  <2> QED
    BY <2>5, <2>6
<1> HIDE DEF Q
<1>7. PICK c : c = {k \in 0..Len(s) : Q(k)}
  OBVIOUS
<1>8. \A k \in 0..Len(s) : k \in c
  <2>1. 0 \in c /\ \A k \in 1..Len(s) : k - 1 \in c => k \in c
    BY <1>2, <1>5, <1>6, <1>7
  <2> QED
    BY <1>2, <2>1, CountingUp
<1>9. Len(s) \in 0..Len(s) /\ Q(Len(s))
  BY <1>2, <1>7, <1>8
<1> QED
  BY <1>0, <1>3, <1>4, <1>9 DEF Q

Made == {Fresh(line) : line \in E!AllLines}
AddPassing ==
  [p \in Seq(Made) \X E!AllLines |->
     IF Passes(Fresh(p[2])) THEN Append(p[1], Fresh(p[2])) ELSE p[1]]

\* The elems that pass among the first k lines.
PassedOf(s) == CHOOSE f \in Steps(Seq(Made), <<>>, AddPassing, s) : TRUE

LEMMA AddPassingType ==
  /\ FoldType(Seq(Made), E!AllLines, <<>>, AddPassing)
  /\ \A q \in Seq(Made), l \in E!AllLines :
       AddPassing[<<q, l>>] = IF Passes(Fresh(l)) THEN Append(q, Fresh(l)) ELSE q
<1> DEFINE L == E!AllLines
           W == Seq(Made)
<1>1. \A l \in L : Fresh(l) \in Made
  BY DEF Made
<1>2. \A q \in W, l \in L : Append(q, Fresh(l)) \in W
  BY <1>1
<1>3. <<>> \in W
  OBVIOUS
<1>4. AddPassing = [p \in W \X L |-> IF Passes(Fresh(p[2])) THEN Append(p[1], Fresh(p[2])) ELSE p[1]]
  BY DEF AddPassing
<1> HIDE DEF L, W
<1>5. \A p \in W \X L :
        (IF Passes(Fresh(p[2])) THEN Append(p[1], Fresh(p[2])) ELSE p[1]) \in W
  BY <1>2
<1>6. AddPassing \in [W \X L -> W]
  BY <1>4, <1>5
<1>7. \A q \in W, l \in L :
        AddPassing[<<q, l>>] = IF Passes(Fresh(l)) THEN Append(q, Fresh(l)) ELSE q
  BY <1>4
<1> QED
  BY <1>3, <1>6, <1>7 DEF FoldType, L, W

LEMMA PassedSteps ==
  ASSUME NEW s \in Seq(E!AllLines), NEW f, f = PassedOf(s)
  PROVE  /\ f \in [0..Len(s) -> Seq(Made)] /\ f[0] = <<>>
         /\ \A k \in 1..Len(s) :
              f[k] = IF Passes(Fresh(s[k])) THEN Append(f[k - 1], Fresh(s[k])) ELSE f[k - 1]
         /\ Folded(Seq(Made), <<>>, AddPassing, s) = f[Len(s)]
<1>1. Steps(Seq(Made), <<>>, AddPassing, s) # {}
  BY AddPassingType, StepsExist
<1>2. f \in Steps(Seq(Made), <<>>, AddPassing, s)
  BY <1>1 DEF PassedOf
<1>3. /\ f \in [0..Len(s) -> Seq(Made)] /\ f[0] = <<>>
      /\ \A k \in 1..Len(s) : f[k] = AddPassing[<<f[k - 1], s[k]>>]
  BY <1>2 DEF Steps
<1>4. Len(s) \in Nat /\ \A k \in 1..Len(s) : s[k] \in E!AllLines /\ k - 1 \in 0..Len(s)
  BY LenProperties
<1>5. ASSUME NEW k \in 1..Len(s)
      PROVE  f[k] = IF Passes(Fresh(s[k])) THEN Append(f[k - 1], Fresh(s[k])) ELSE f[k - 1]
  <2>1. f[k - 1] \in Seq(Made) /\ s[k] \in E!AllLines
    BY <1>3, <1>4
  <2> QED
    BY <1>3, <2>1, AddPassingType
<1> QED
  BY <1>3, <1>5 DEF Folded, PassedOf

Extends(q, p) == Len(p) <= Len(q) /\ \A i \in 1..Len(p) : q[i] = p[i]

\* What is passed on stays, and grows only where an elem passes.
LEMMA PassedGrows ==
  ASSUME NEW s \in Seq(E!AllLines), NEW f, f = PassedOf(s), NEW k \in 0..Len(s)
  PROVE  \A m \in k..Len(s) :
           /\ Extends(f[m], f[k])
           /\ (\A i \in (k + 1)..m : ~ Passes(Fresh(s[i]))) => f[m] = f[k]
<1>0. Len(s) \in Nat /\ \A i \in 1..Len(s) : s[i] \in E!AllLines
  BY LenProperties
<1>1. /\ f \in [0..Len(s) -> Seq(Made)]
      /\ \A j \in 1..Len(s) :
           f[j] = IF Passes(Fresh(s[j])) THEN Append(f[j - 1], Fresh(s[j])) ELSE f[j - 1]
  BY PassedSteps
<1> DEFINE Q(m) == /\ Extends(f[m], f[k])
                   /\ (\A i \in (k + 1)..m : ~ Passes(Fresh(s[i]))) => f[m] = f[k]
<1>2. Q(k)
  BY <1>1, LenProperties DEF Extends
<1>3. ASSUME NEW m \in (k + 1)..Len(s), Q(m - 1) PROVE Q(m)
  <2>0. k \in Nat /\ m \in 1..Len(s) /\ m - 1 \in 0..Len(s)
    BY <1>0
  <2>1. m \in 1..Len(s) /\ f[m - 1] \in Seq(Made) /\ f[k] \in Seq(Made)
    BY <1>1, <2>0
  <2>2. Fresh(s[m]) \in Made
    BY <1>0, <2>1 DEF Made
  <2>3. f[m] = IF Passes(Fresh(s[m])) THEN Append(f[m - 1], Fresh(s[m])) ELSE f[m - 1]
    BY <1>1, <2>1
  <2>4. Len(f[k]) \in Nat /\ Len(f[m - 1]) \in Nat
    BY <2>1
  <2>5. Len(f[k]) <= Len(f[m - 1]) /\ \A i \in 1..Len(f[k]) : f[m - 1][i] = f[k][i]
    BY <1>3 DEF Extends
  <2>6. Extends(f[m], f[k])
    BY <2>1, <2>2, <2>3, <2>4, <2>5 DEF Extends
  <2>7. (\A i \in (k + 1)..m : ~ Passes(Fresh(s[i]))) => f[m] = f[k]
    <3>1. m \in (k + 1)..m /\ \A i \in (k + 1)..(m - 1) : i \in (k + 1)..m
      BY <1>0
    <3> QED
      BY <1>3, <2>3, <3>1
  <2> QED
    BY <2>6, <2>7
<1> HIDE DEF Q
<1>4. PICK c : c = {j \in 0..(Len(s) - k) : Q(k + j)}
  OBVIOUS
<1>5. ASSUME NEW j \in 1..(Len(s) - k), j - 1 \in c PROVE j \in c
  <2>1. k + j \in (k + 1)..Len(s) /\ (k + j) - 1 = k + (j - 1)
    BY <1>0
  <2>2. Q((k + j) - 1)
    BY <1>4, <1>5, <2>1
  <2>3. Q(k + j)
    BY <1>3, <2>1, <2>2
  <2> QED
    BY <1>0, <1>4, <2>3
<1>6. \A j \in 0..(Len(s) - k) : j \in c
  <2>1. 0 \in c
    <3>1. k + 0 = k /\ 0 \in 0..(Len(s) - k)
      BY <1>0
    <3> QED
      BY <1>2, <1>4, <3>1
  <2>2. Len(s) - k \in Nat
    BY <1>0
  <2> QED
    BY <1>5, <2>1, <2>2, CountingUp
<1>7. ASSUME NEW m \in k..Len(s) PROVE Q(m)
  <2>1. m - k \in 0..(Len(s) - k) /\ k + (m - k) = m
    BY <1>0
  <2> QED
    BY <1>4, <1>6, <2>1
<1> QED
  BY <1>7 DEF Q

\* What the user is to be given.
LEMMA ExpectedIsPassed ==
  ASSUME E!Lines(record) \in Seq(E!AllLines)
  PROVE  E!Expected = PassedOf(E!Lines(record))[Len(E!Lines(record))]
<1> DEFINE F == AddPassing
           L == E!AllLines
           W == Seq(Made)
<1>0. PICK s : s = E!Lines(record)
  OBVIOUS
<1>1. /\ \A w \in W, l \in L : F[<<w, l>>] = IF Passes(Fresh(l)) THEN Append(w, Fresh(l)) ELSE w
      /\ FoldType(W, L, <<>>, F)
  BY AddPassingType
<1>2. s \in Seq(L)
  BY <1>0
<1> HIDE DEF F, L, W
<1>3. DOMAIN s = 1..Len(s) /\ Len(s) \in Nat /\ \A i \in 1..Len(s) : s[i] \in L
  BY <1>2, LenProperties
<1> DEFINE Eq(it) == it = [u \in SUBSET DOMAIN s |->
                             IF u = {} THEN <<>>
                             ELSE IF Passes(E!Set(E!ElemCreate, s[E!Max(u)]))
                                  THEN Append(it[u \ {E!Max(u)}],
                                         E!Set(E!ElemCreate, s[E!Max(u)]))
                                  ELSE it[u \ {E!Max(u)}]]
<1>4. E!Expected = (CHOOSE it : Eq(it))[DOMAIN s]
  BY <1>0, Zenon DEF E!Expected, E!FoldLeft, E!MapThenFoldSet
<1>5. \A u \in SUBSET DOMAIN s : u # {} => Max(u) \in DOMAIN s
  BY <1>3, MaxOfPositions
<1>6. \E it : Eq(it)
  <2>0. SetFolds(W, <<>>, F, s) # {}
    BY <1>1, <1>2, SetFoldsExist
  <2>1. PICK it \in [SUBSET DOMAIN s -> W] :
          \A u \in SUBSET DOMAIN s :
            it[u] = IF u = {} THEN <<>> ELSE F[<<it[u \ {Max(u)}], s[Max(u)]>>]
    BY <2>0 DEF SetFolds
  <2>2. ASSUME NEW u \in SUBSET DOMAIN s, u # {}
        PROVE  F[<<it[u \ {Max(u)}], s[Max(u)]>>] =
                 IF Passes(E!Set(E!ElemCreate, s[E!Max(u)]))
                 THEN Append(it[u \ {E!Max(u)}], E!Set(E!ElemCreate, s[E!Max(u)]))
                 ELSE it[u \ {E!Max(u)}]
    <3>1. s[Max(u)] \in L /\ it[u \ {Max(u)}] \in W
      BY <1>3, <1>5, <2>1, <2>2
    <3> QED
      BY <1>1, <3>1, SameMaxOfElems DEF Fresh
  <2>3. Eq(it)
    BY <2>1, <2>2
  <2> QED
    BY <2>3
<1>7. PICK it : Eq(it) /\ E!Expected = it[DOMAIN s]
  BY <1>4, <1>6
<1>8. IsSetFold(it, W, <<>>, F, s)
  <2>1. it[{}] = <<>>
    BY <1>7
  <2>2. ASSUME NEW u \in SUBSET DOMAIN s, u # {}, it[u \ {Max(u)}] \in W
        PROVE  it[u] = F[<<it[u \ {Max(u)}], s[Max(u)]>>]
    <3>1. it[u] = IF Passes(Fresh(s[Max(u)]))
                  THEN Append(it[u \ {Max(u)}], Fresh(s[Max(u)])) ELSE it[u \ {Max(u)}]
      BY <1>7, <2>2, SameMaxOfElems DEF Fresh
    <3>2. s[Max(u)] \in L
      BY <1>3, <1>5, <2>2
    <3> QED
      BY <1>1, <2>2, <3>1, <3>2
  <2> QED
    BY <2>1, <2>2 DEF IsSetFold
<1>9. it[DOMAIN s] = Folded(W, <<>>, F, s)
  BY <1>1, <1>2, <1>8, SetFoldIsFolded
<1>10. Folded(W, <<>>, F, s) = PassedOf(s)[Len(s)]
  BY <1>2, PassedSteps DEF F, L, W
<1> QED
  BY <1>0, <1>7, <1>9, <1>10

\* The slots in use hold the lines of the record, and the user was given those
\* that pass among the first iter of them.
Shows(g, q) == Len(g) = Len(q) /\ \A i \in 1..Len(q) : E!Shown(g[i]) = E!Shown(q[i])
ElemTypes ==
  /\ record \in Records \cup {E!EmptyRecord}
  /\ elems \in Seq(Slots) /\ given \in Seq(Slots)
NotPopulated == elems_cnt = E!NOT_POPULATED /\ iter = 0 /\ given = <<>> /\ ~ended
SlotsAreLines ==
  /\ elems_cnt = Len(E!Lines(record)) /\ elems_cnt <= Len(elems)
  /\ \A i \in 1..elems_cnt : elems[i] \in Reused(E!Lines(record)[i])
GivenHavePassed ==
  /\ iter \in 0..elems_cnt /\ (ended => iter = elems_cnt)
  /\ Shows(given, PassedOf(E!Lines(record))[iter])
ElemInv ==
  part = "elems" => ElemTypes /\ (NotPopulated \/ (SlotsAreLines /\ GivenHavePassed))

LEMMA RecordHasLines == ElemTypes => E!Lines(record) \in Seq(E!AllLines)
<1>1. E!Lines(E!EmptyRecord) = <<>>
  BY DEF E!Lines, E!EmptyRecord
<1>2. <<>> \in Seq(E!AllLines)
  OBVIOUS
<1> QED
  BY <1>1, <1>2, LinesAreLines DEF ElemTypes

LEMMA ElemInvEnough == ElemInv => ElemsAreTheRecords
<1> SUFFICES ASSUME ElemInv, part = "elems" PROVE E!ElemsAreTheRecords
  BY DEF ElemsAreTheRecords
<1>0. ElemTypes /\ (NotPopulated \/ (SlotsAreLines /\ GivenHavePassed))
  BY DEF ElemInv
<1>1. PICK s, f : s = E!Lines(record) /\ f = PassedOf(s)
  OBVIOUS
<1>2. s \in Seq(E!AllLines) /\ Len(s) \in Nat
  BY <1>0, <1>1, RecordHasLines, LenProperties
<1>3. E!Expected = f[Len(s)]
  BY <1>1, <1>2, ExpectedIsPassed
<1>4. f \in [0..Len(s) -> Seq(Made)]
  BY <1>1, <1>2, PassedSteps
<1>5. f[Len(s)] \in Seq(Made) /\ Len(f[Len(s)]) \in Nat
  BY <1>2, <1>4, LenProperties
<1>6. CASE NotPopulated
  <2>1. Len(given) = 0 /\ DOMAIN given = {} /\ ~ended
    BY <1>6 DEF NotPopulated
  <2> QED
    BY <1>3, <1>5, <2>1 DEF E!ElemsAreTheRecords
<1>7. CASE SlotsAreLines /\ GivenHavePassed
  <2>1. iter \in 0..Len(s) /\ (ended => iter = Len(s)) /\ Shows(given, f[iter])
    BY <1>1, <1>7 DEF SlotsAreLines, GivenHavePassed
  <2>2. Len(s) \in iter..Len(s)
    BY <1>2, <2>1
  <2>3. Extends(f[Len(s)], f[iter])
    BY <1>1, <1>2, <2>1, <2>2, PassedGrows
  <2>4. DOMAIN given = 1..Len(given)
    BY <1>0, LenProperties DEF ElemTypes
  <2>5. /\ Len(given) <= Len(f[Len(s)])
        /\ \A i \in DOMAIN given : E!Shown(given[i]) = E!Shown(f[Len(s)][i])
        /\ ended => Len(given) = Len(f[Len(s)])
    BY <2>1, <2>3, <2>4 DEF Shows, Extends
  <2> QED
    BY <1>3, <2>5 DEF E!ElemsAreTheRecords
<1> QED
  BY <1>0, <1>6, <1>7

\* The slots are filled once, and the next one that passes is looked for.
LEMMA NextElemIsGiven ==
  ASSUME ElemInv, part = "elems", part' = part, E!GetNextElem
  PROVE  ElemInv'
<1>0. ElemTypes /\ (NotPopulated \/ (SlotsAreLines /\ GivenHavePassed)) /\ record' = record
  BY DEF ElemInv, E!GetNextElem
<1>1. PICK s, f : s = E!Lines(record) /\ f = PassedOf(s)
  OBVIOUS
<1>2. s \in Seq(E!AllLines) /\ Len(s) \in Nat /\ \A i \in 1..Len(s) : s[i] \in E!AllLines
  BY <1>0, <1>1, RecordHasLines, LenProperties
<1>3. /\ f \in [0..Len(s) -> Seq(Made)] /\ f[0] = <<>>
      /\ \A k \in 1..Len(s) :
           f[k] = IF Passes(Fresh(s[k])) THEN Append(f[k - 1], Fresh(s[k])) ELSE f[k - 1]
  BY <1>1, <1>2, PassedSteps
<1>4. PICK g : g = IF elems_cnt # E!NOT_POPULATED THEN [elems |-> elems, cnt |-> elems_cnt]
                   ELSE E!Populate(elems, record)
  OBVIOUS
<1>5. /\ g.elems \in Seq(Slots) /\ g.cnt = Len(s) /\ g.cnt <= Len(g.elems)
      /\ \A i \in 1..Len(s) : g.elems[i] \in Reused(s[i])
      /\ iter \in 0..Len(s) /\ (ended => iter = Len(s)) /\ Shows(given, f[iter])
  <2>1. CASE NotPopulated
    <3>1. g = E!Populate(elems, record)
      BY <1>4, <2>1 DEF NotPopulated
    <3>2. g \in Filling /\ g.cnt = Len(s) /\ \A i \in 1..g.cnt : g.elems[i] \in Reused(s[i])
      BY <1>0, <1>1, <1>2, <3>1, PopulateFills DEF ElemTypes
    <3>3. iter \in 0..Len(s) /\ ~ended /\ given = <<>> /\ f[iter] = <<>>
      BY <1>2, <1>3, <2>1 DEF NotPopulated
    <3>4. Shows(given, f[iter])
      BY <3>3 DEF Shows
    <3> QED
      BY <3>2, <3>3, <3>4 DEF Filling
  <2>2. CASE SlotsAreLines /\ GivenHavePassed
    <3>1. elems_cnt = Len(s) /\ elems_cnt # E!NOT_POPULATED
      BY <1>1, <1>2, <2>2 DEF SlotsAreLines, E!NOT_POPULATED
    <3>2. g = [elems |-> elems, cnt |-> elems_cnt]
      BY <1>4, <3>1
    <3> QED
      BY <1>0, <1>1, <2>2, <3>1, <3>2 DEF SlotsAreLines, GivenHavePassed, ElemTypes
  <2> QED
    BY <1>0, <2>1, <2>2
<1>6. \A i \in 1..Len(s) : /\ g.elems[i] \in Slots
                           /\ E!Shown(g.elems[i]) = E!Shown(Fresh(s[i]))
                           /\ Passes(g.elems[i]) = Passes(Fresh(s[i]))
  BY <1>2, <1>5, SlotOfLine
<1>7. PICK passing : passing = {i \in (iter + 1)..g.cnt : Passes(g.elems[i])}
  OBVIOUS
<1>8. PICK next : next = CHOOSE i \in passing : \A j \in passing : i <= j
  OBVIOUS
<1>9. /\ elems' = g.elems /\ elems_cnt' = g.cnt
      /\ IF passing = {} THEN iter' = g.cnt /\ ended' = TRUE /\ given' = given
         ELSE iter' = next /\ given' = Append(given, g.elems[next]) /\ ended' = ended
  <2> DEFINE h == IF elems_cnt # E!NOT_POPULATED THEN [elems |-> elems, cnt |-> elems_cnt]
                  ELSE E!Populate(elems, record)
             found == {i \in (iter + 1)..h.cnt : Passes(h.elems[i])}
             least == CHOOSE i \in found : \A j \in found : i <= j
  <2>1. /\ elems' = h.elems /\ elems_cnt' = h.cnt
        /\ IF found = {} THEN iter' = h.cnt /\ ended' = TRUE /\ UNCHANGED given
           ELSE iter' = least /\ given' = Append(given, h.elems[least]) /\ UNCHANGED ended
    BY Zenon DEF E!GetNextElem
  <2>2. h = g
    BY <1>4
  <2> HIDE DEF h
  <2>3. found = passing
    BY <1>7, <2>2
  <2> HIDE DEF found
  <2>4. least = next
    BY <1>8, <2>3
  <2> HIDE DEF least
  <2> QED
    BY <2>1, <2>2, <2>3, <2>4
<1>10. SlotsAreLines'
  BY <1>0, <1>1, <1>5, <1>9 DEF SlotsAreLines
<1>11. CASE passing = {}
  <2>1. iter' = Len(s) /\ ended' = TRUE /\ given' = given
    BY <1>5, <1>9, <1>11
  <2>2. \A i \in (iter + 1)..Len(s) : ~ Passes(Fresh(s[i]))
    <3>1. \A i \in (iter + 1)..Len(s) : i \in 1..Len(s) /\ ~ Passes(g.elems[i])
      BY <1>2, <1>5, <1>7, <1>11
    <3> QED
      BY <1>6, <3>1
  <2>3. f[Len(s)] = f[iter]
    <3>1. Len(s) \in iter..Len(s)
      BY <1>2, <1>5
    <3> QED
      BY <1>1, <1>2, <1>5, <2>2, <3>1, PassedGrows
  <2>4. GivenHavePassed'
    BY <1>0, <1>1, <1>2, <1>5, <1>9, <2>1, <2>3 DEF GivenHavePassed, Shows
  <2>5. ElemTypes'
    BY <1>0, <1>5, <1>9, <2>1 DEF ElemTypes
  <2> QED
    BY <1>10, <2>4, <2>5 DEF ElemInv
<1>12. CASE passing # {}
  <2>1. iter' = next /\ given' = Append(given, g.elems[next]) /\ ended' = ended
    BY <1>9, <1>12
  <2>2. next \in passing /\ \A j \in passing : next <= j
    <3>1. passing \subseteq Nat
      BY <1>2, <1>5, <1>7
    <3>2. \E i \in passing : \A j \in passing : i <= j
      BY <1>12, <3>1, MinNat
    <3> QED
      BY <1>8, <3>2
  <2>3. next \in (iter + 1)..Len(s) /\ Passes(g.elems[next])
    BY <1>5, <1>7, <2>2
  <2>4. next \in 1..Len(s) /\ next - 1 \in iter..Len(s) /\ next \in Nat /\ iter \in Nat
    BY <1>2, <1>5, <2>3
  <2>5. ~ended
    BY <1>2, <1>5, <2>3
  <2>6. \A i \in (iter + 1)..(next - 1) : ~ Passes(Fresh(s[i]))
    <3>1. ASSUME NEW i \in (iter + 1)..(next - 1)
          PROVE  ~ Passes(Fresh(s[i]))
      <4>1. i \in (iter + 1)..Len(s) /\ i \in 1..Len(s) /\ ~(next <= i)
        BY <1>2, <2>4
      <4>2. ~ Passes(g.elems[i])
        BY <1>5, <1>7, <2>2, <4>1
      <4> QED
        BY <1>6, <4>1, <4>2
    <3> QED
      BY <3>1
  <2>7. f[next - 1] = f[iter]
    BY <1>1, <1>2, <1>5, <2>4, <2>6, PassedGrows
  <2>8. f[next] = Append(f[iter], Fresh(s[next]))
    BY <1>3, <1>6, <2>3, <2>4, <2>7
  <2>9. PICK x, y, q : x = g.elems[next] /\ y = Fresh(s[next]) /\ q = f[iter]
    OBVIOUS
  <2>10. x \in Slots /\ E!Shown(x) = E!Shown(y) /\ y \in Made /\ q \in Seq(Made) /\ given \in Seq(Slots)
    BY <1>0, <1>2, <1>3, <1>5, <1>6, <2>4, <2>9 DEF Made, ElemTypes
  <2>11. Shows(given, q)
    BY <1>5, <2>9
  <2>12. /\ Append(given, x) \in Seq(Slots) /\ Shows(Append(given, x), Append(q, y))
    <3>1. Len(q) \in Nat /\ Len(given) = Len(q)
      BY <2>10, <2>11, LenProperties DEF Shows
    <3>2. /\ Len(Append(given, x)) = Len(q) + 1 /\ Len(Append(q, y)) = Len(q) + 1
          /\ Append(given, x)[Len(q) + 1] = x /\ Append(q, y)[Len(q) + 1] = y
          /\ \A i \in 1..Len(q) : Append(given, x)[i] = given[i] /\ Append(q, y)[i] = q[i]
      BY <2>10, <3>1
    <3>3. ASSUME NEW i \in 1..(Len(q) + 1)
          PROVE  E!Shown(Append(given, x)[i]) = E!Shown(Append(q, y)[i])
      <4>1. CASE i = Len(q) + 1
        BY <2>10, <3>2, <4>1
      <4>2. CASE i # Len(q) + 1
        <5>1. i \in 1..Len(q)
          BY <3>1, <4>2
        <5> QED
          BY <2>11, <3>2, <5>1 DEF Shows
      <4> QED
        BY <4>1, <4>2
    <3>4. Append(given, x) \in Seq(Slots)
      BY <2>10
    <3> QED
      BY <3>2, <3>3, <3>4 DEF Shows
  <2>13. Shows(given', f[next]) /\ given' \in Seq(Slots)
    BY <2>1, <2>8, <2>9, <2>12
  <2>14. GivenHavePassed'
    <3>1. iter' \in 0..elems_cnt' /\ ~ended'
      BY <1>5, <1>9, <2>1, <2>4, <2>5
    <3>2. E!Lines(record)' = s
      BY <1>0, <1>1
    <3>3. Shows(given', PassedOf(s)[iter'])
      BY <1>1, <2>1, <2>13
    <3> QED
      BY <3>1, <3>2, <3>3 DEF GivenHavePassed, Shows
  <2>15. ElemTypes'
    BY <1>0, <1>5, <1>9, <2>13 DEF ElemTypes
  <2> QED
    BY <1>10, <2>14, <2>15 DEF ElemInv
<1> QED
  BY <1>11, <1>12

\* bgpstream_record_get_next_elem gives the elems of the record that pass the
\* filters, in their order, each once and with nothing of an earlier record in
\* them, for any records and however many elems of each are asked for.
THEOREM ElemsHold == Spec => []ElemsAreTheRecords
<1>1. Init => ElemInv
  <2> SUFFICES ASSUME Init PROVE ElemInv
    OBVIOUS
  <2>1. /\ record = E!EmptyRecord /\ elems = <<>> /\ elems_cnt = E!NOT_POPULATED
        /\ iter = 0 /\ given = <<>> /\ ended = FALSE
    BY DEF Init, E!Init
  <2> QED
    BY <2>1 DEF ElemInv, ElemTypes, NotPopulated
<1>2. ElemInv /\ [Next]_vars => ElemInv'
  <2> SUFFICES ASSUME ElemInv, [Next]_vars, part' = "elems" PROVE ElemInv'
    BY DEF ElemInv
  <2>1. part' = part
    BY DEF Next, Rest, vars
  <2>2. CASE E!Next /\ part = "elems"
    <3>1. ASSUME NEW rec \in Records, E!NextRecord(rec) PROVE ElemInv'
      <4>1. ElemTypes
        BY <2>2 DEF ElemInv
      <4>2. /\ record' = rec /\ elems_cnt' = E!NOT_POPULATED /\ iter' = 0 /\ given' = <<>>
            /\ ended' = FALSE /\ elems' = elems
        BY <3>1 DEF E!NextRecord
      <4> QED
        BY <4>1, <4>2 DEF ElemInv, ElemTypes, NotPopulated
    <3> QED
      BY <2>1, <2>2, <3>1, NextElemIsGiven DEF E!Next
  <2>3. CASE UNCHANGED vars
    <3>1. /\ part' = part /\ record' = record /\ elems' = elems /\ elems_cnt' = elems_cnt
          /\ iter' = iter /\ given' = given /\ ended' = ended
      BY <2>3 DEF vars, elem_vars
    <3> QED
      BY <3>1 DEF ElemInv, ElemTypes, NotPopulated, SlotsAreLines, GivenHavePassed
  <2> QED
    BY <2>1, <2>2, <2>3 DEF Next
<1>3. ElemInv => ElemsAreTheRecords
  BY ElemInvEnough
<1> QED
  BY <1>1, <1>2, <1>3, PTL DEF Spec

-----------------------------------------------------------------------------
(* Hash sets                                                               *)

\* What a bucket holds, and what a table is.
Elements == Members \cup {H!NONE}
OfVersion(v, xs) == {x \in xs : x[1] = v}
Tables == [buckets : Seq(Elements), k : Nat \ {0}, ipv4_size : Nat, ipv6_size : Nat]

\* Each member stands in one bucket.
Distinct(row) ==
  \A b, d \in DOMAIN row : row[b] = row[d] /\ row[b] # H!NONE => b = d

LEMMA SameMinOfSets == \A u : H!Min(u) = Min(u)
  BY Zenon DEF H!Min, Min

LEMMA SameCardinality == \A u : H!Cardinality(u) = Cardinality(u)
  BY Zenon DEF H!Cardinality, Cardinality, H!IsFiniteSet, IsFiniteSet

LEMMA KeysAreMembers ==
  \A set \in Tables : IsFiniteSet(H!Keys(set)) /\ H!Keys(set) \subseteq Members
<1> SUFFICES ASSUME NEW set \in Tables
             PROVE  IsFiniteSet(H!Keys(set)) /\ H!Keys(set) \subseteq Members
  OBVIOUS
<1>1. PICK row \in Seq(Elements) : row = set.buckets
  BY DEF Tables
<1>2. PICK n \in Nat : n = Len(row) /\ row \in [1..n -> Elements] /\ DOMAIN row = 1..n
  BY LenProperties
<1>3. PICK all : all = {row[b] : b \in 1..n}
  OBVIOUS
<1>4. row \in Surjection(1..n, all)
  BY <1>2, <1>3 DEF Surjection
<1>5. IsFiniteSet(1..n)
  BY FS_Interval
<1>6. IsFiniteSet(all)
  BY <1>4, <1>5, FS_Surjection
<1>7. H!Keys(set) = all \ {H!NONE}
  BY <1>1, <1>2, <1>3 DEF H!Keys, H!Range
<1>8. IsFiniteSet(H!Keys(set))
  BY <1>6, <1>7, FS_Subset
<1>9. all \subseteq Elements
  BY <1>2, <1>3
<1> QED
  BY <1>7, <1>8, <1>9 DEF Elements

\* What kh_put makes of the buckets.
LEMMA PutMakes ==
  ASSUME NEW set \in Tables, NEW x \in Members, NEW t \in H!KhPut(set, x)
  PROVE  \E row :
           /\ t = [set EXCEPT !.buckets = row]
           /\ \/ \E b \in DOMAIN set.buckets :
                   set.buckets[b] = H!NONE /\ row = [set.buckets EXCEPT ![b] = x]
              \/ \E n \in Nat :
                   /\ row \in [1..n -> H!Keys(set) \cup {x, H!NONE}]
                   /\ \A y \in H!Keys(set) \cup {x} :
                        Cardinality({b \in 1..n : row[b] = y}) = 1
<1>1. PICK n : n = H!Min({2 * Len(set.buckets), MaxBuckets})
  OBVIOUS
<1>2. n \in Nat
  <2>1. Len(set.buckets) \in Nat
    BY LenProperties DEF Tables
  <2>2. PICK u : u = {2 * Len(set.buckets), MaxBuckets}
    OBVIOUS
  <2>3. u \subseteq Nat /\ u # {}
    BY <2>1, <2>2, SetsAssumption
  <2>4. Min(u) \in Nat
    BY <2>3, MinNat
  <2> QED
    BY <1>1, <2>2, <2>4, SameMinOfSets
<1>3. PICK free : free = {b \in DOMAIN set.buckets : set.buckets[b] = H!NONE}
  OBVIOUS
<1>4. PICK inplace : inplace = {[set.buckets EXCEPT ![b] = x] : b \in free}
  OBVIOUS
<1>5. PICK grown : grown = {row \in [1..n -> H!Keys(set) \cup {x, H!NONE}] :
                              \A y \in H!Keys(set) \cup {x} :
                                H!Cardinality({b \in 1..n : row[b] = y}) = 1}
  OBVIOUS
<1>6. t \in {[set EXCEPT !.buckets = row] :
                row \in IF H!Cardinality(free) > 1 THEN inplace ELSE grown}
  <2>1. t \in H!KhPut(set, x)
    OBVIOUS
  <2>2. H!KhPut(set, x) =
          {[set EXCEPT !.buckets = row] :
             row \in IF H!Cardinality(free) > 1 THEN inplace ELSE grown}
    BY <1>1, <1>3, <1>4, <1>5 DEF H!KhPut
  <2> QED
    BY <2>1, <2>2
<1>7. PICK row : t = [set EXCEPT !.buckets = row] /\ (row \in inplace \/ row \in grown)
  BY <1>6
<1>8. CASE row \in inplace
  BY <1>3, <1>4, <1>7, <1>8
<1>9. CASE row \in grown
  <2>1. /\ row \in [1..n -> H!Keys(set) \cup {x, H!NONE}]
        /\ \A y \in H!Keys(set) \cup {x} : H!Cardinality({b \in 1..n : row[b] = y}) = 1
    BY <1>5, <1>9
  <2>2. ASSUME NEW y \in H!Keys(set) \cup {x} PROVE Cardinality({b \in 1..n : row[b] = y}) = 1
    <3>1. PICK all : all = {b \in 1..n : row[b] = y}
      OBVIOUS
    <3>2. H!Cardinality(all) = 1
      BY <2>1, <3>1
    <3> QED
      BY <3>1, <3>2, SameCardinality
  <2>3. t = [set EXCEPT !.buckets = row]
    BY <1>7
  <2> QED
    BY <1>2, <2>1, <2>2, <2>3, Zenon
<1> QED
  BY <1>7, <1>8, <1>9

LEMMA PutKeeps ==
  ASSUME NEW set \in Tables, Distinct(set.buckets), NEW x \in Members,
         x \notin H!Keys(set), NEW t \in H!KhPut(set, x)
  PROVE  /\ t \in Tables /\ Distinct(t.buckets) /\ H!Keys(t) = H!Keys(set) \cup {x}
         /\ t.k = set.k /\ t.ipv4_size = set.ipv4_size /\ t.ipv6_size = set.ipv6_size
<1>0. x # H!NONE
  BY SetsAssumption
<1>1. PICK row :
           /\ t = [set EXCEPT !.buckets = row]
           /\ \/ \E b \in DOMAIN set.buckets :
                   set.buckets[b] = H!NONE /\ row = [set.buckets EXCEPT ![b] = x]
              \/ \E n \in Nat :
                   /\ row \in [1..n -> H!Keys(set) \cup {x, H!NONE}]
                   /\ \A y \in H!Keys(set) \cup {x} :
                        Cardinality({b \in 1..n : row[b] = y}) = 1
  BY PutMakes
<1>2. PICK old \in Seq(Elements) : old = set.buckets
  BY DEF Tables
<1>3. H!Keys(set) = {old[b] : b \in DOMAIN old} \ {H!NONE}
  BY <1>2 DEF H!Keys, H!Range
<1>4. row \in Seq(Elements) /\ Distinct(row)
      /\ {row[b] : b \in DOMAIN row} \ {H!NONE} = H!Keys(set) \cup {x}
  <2>1. CASE \E b \in DOMAIN set.buckets :
               set.buckets[b] = H!NONE /\ row = [set.buckets EXCEPT ![b] = x]
    <3>1. PICK b \in DOMAIN old : old[b] = H!NONE /\ row = [old EXCEPT ![b] = x]
      BY <1>2, <2>1
    <3>2. x \in Elements
      BY DEF Elements
    <3>3. row \in Seq(Elements)
      BY <3>1, <3>2
    <3>4. DOMAIN row = DOMAIN old /\ row[b] = x /\ \A d \in DOMAIN old : d # b => row[d] = old[d]
      BY <3>1
    <3>5. \A d \in DOMAIN old : old[d] # x
      BY <1>0, <1>3
    <3>6. Distinct(row)
      BY <1>2, <3>4, <3>5 DEF Distinct
    <3>7. {row[d] : d \in DOMAIN row} \ {H!NONE} = H!Keys(set) \cup {x}
      BY <1>0, <1>3, <3>1, <3>4
    <3> QED
      BY <3>3, <3>6, <3>7
  <2>2. ASSUME NEW n \in Nat,
               row \in [1..n -> H!Keys(set) \cup {x, H!NONE}],
               \A y \in H!Keys(set) \cup {x} : Cardinality({b \in 1..n : row[b] = y}) = 1
        PROVE  row \in Seq(Elements) /\ Distinct(row)
               /\ {row[b] : b \in DOMAIN row} \ {H!NONE} = H!Keys(set) \cup {x}
    <3>1. H!Keys(set) \cup {x, H!NONE} \subseteq Elements
      BY KeysAreMembers DEF Elements
    <3>2. row \in [1..n -> Elements] /\ DOMAIN row = 1..n
      BY <2>2, <3>1
    <3>3. row \in Seq(Elements)
      BY <3>2
    <3>4. \A y \in H!Keys(set) \cup {x} : \E b : {d \in 1..n : row[d] = y} = {b}
      <4> TAKE y \in H!Keys(set) \cup {x}
      <4>1. PICK all : all = {d \in 1..n : row[d] = y}
        OBVIOUS
      <4>2. IsFiniteSet(1..n) /\ all \in SUBSET (1..n)
        BY <4>1, FS_Interval
      <4>3. IsFiniteSet(all) /\ Cardinality(all) = 1
        BY <2>2, <4>1, <4>2, FS_Subset
      <4> QED
        BY <4>1, <4>3, FS_Singleton
    <3>5. ASSUME NEW b \in 1..n, NEW d \in 1..n, row[b] = row[d], row[b] # H!NONE
          PROVE  b = d
      <4>1. row[b] \in H!Keys(set) \cup {x}
        BY <2>2, <3>5
      <4>2. PICK c : {e \in 1..n : row[e] = row[b]} = {c}
        BY <3>4, <4>1
      <4> QED
        BY <3>5, <4>2
    <3>6. ASSUME NEW y \in H!Keys(set) \cup {x} PROVE \E b \in 1..n : row[b] = y
      BY <3>4
    <3>7. H!NONE \notin H!Keys(set) \cup {x}
      BY <1>0 DEF H!Keys
    <3>8. \A b \in 1..n : row[b] # H!NONE => row[b] \in H!Keys(set) \cup {x}
      BY <2>2
    <3> QED
      BY <3>2, <3>3, <3>5, <3>6, <3>7, <3>8 DEF Distinct
  <2> QED
    BY <1>1, <2>1, <2>2
<1>5. /\ t = [buckets |-> row, k |-> set.k, ipv4_size |-> set.ipv4_size,
              ipv6_size |-> set.ipv6_size]
  BY <1>1 DEF Tables
<1>6. H!Keys(t) = {row[b] : b \in DOMAIN row} \ {H!NONE}
  BY <1>5 DEF H!Keys, H!Range
<1> QED
  BY <1>4, <1>5, <1>6 DEF Tables
\* The counters of a set that keeps them.
CountsVersions(set, xs) ==
  /\ set.ipv4_size = Cardinality(OfVersion(4, xs))
  /\ set.ipv6_size = Cardinality(OfVersion(6, xs))

\* What holds of a table, whatever was done with it.
IsSound(set) ==
  /\ set \in Tables /\ Distinct(set.buckets)
  /\ kind.versions => CountsVersions(set, H!Keys(set))

LEMMA InsertKeeps ==
  ASSUME NEW set, IsSound(set), NEW x \in Members, NEW t \in H!SetInsert(set, x)
  PROVE  IsSound(t) /\ H!Keys(t) = H!Keys(set) \cup {x} /\ t.k = set.k
<1>1. CASE x \in H!Keys(set)
  <2>1. t = set
    BY <1>1 DEF H!SetInsert, H!SetExists
  <2> QED
    BY <1>1, <2>1
<1>2. CASE x \notin H!Keys(set)
  <2>0. set \in Tables /\ Distinct(set.buckets) /\ x[1] \in {4, 6}
    BY SetsAssumption DEF IsSound
  <2>1. PICK keys : keys = H!Keys(set) /\ IsFiniteSet(keys) /\ keys \subseteq Members
    BY <2>0, KeysAreMembers
  <2>2. PICK counted : counted = IF ~kind.versions THEN set
                                 ELSE IF x[1] = 4 THEN [set EXCEPT !.ipv4_size = @ + 1]
                                                  ELSE [set EXCEPT !.ipv6_size = @ + 1]
    OBVIOUS
  <2>3. t \in H!KhPut(counted, x)
    BY <1>2, <2>2 DEF H!SetInsert, H!SetExists
  <2>4. counted \in Tables /\ counted.buckets = set.buckets /\ counted.k = set.k
    BY <2>0, <2>2 DEF Tables
  <2>5. H!Keys(counted) = keys
    BY <2>1, <2>4 DEF H!Keys
  <2>6. /\ t \in Tables /\ Distinct(t.buckets) /\ H!Keys(t) = keys \cup {x} /\ t.k = set.k
        /\ t.ipv4_size = counted.ipv4_size /\ t.ipv6_size = counted.ipv6_size
    BY <1>2, <2>0, <2>1, <2>3, <2>4, <2>5, PutKeeps
  <2>7. ASSUME kind.versions PROVE CountsVersions(t, keys \cup {x})
    <3>1. PICK four, six : four = OfVersion(4, keys) /\ six = OfVersion(6, keys)
      OBVIOUS
    <3>2. IsFiniteSet(four) /\ IsFiniteSet(six) /\ x \notin four /\ x \notin six
      <4>1. four \in SUBSET keys /\ six \in SUBSET keys
        BY <3>1 DEF OfVersion
      <4> QED
        BY <1>2, <2>1, <4>1, FS_Subset
    <3>3. set.ipv4_size = Cardinality(four) /\ set.ipv6_size = Cardinality(six)
      BY <2>1, <2>7, <3>1 DEF IsSound, CountsVersions
    <3>4. CASE x[1] = 4
      <4>1. OfVersion(4, keys \cup {x}) = four \cup {x} /\ OfVersion(6, keys \cup {x}) = six
        BY <3>1, <3>4 DEF OfVersion
      <4>2. counted.ipv4_size = set.ipv4_size + 1 /\ counted.ipv6_size = set.ipv6_size
        BY <2>0, <2>2, <2>7, <3>4 DEF Tables
      <4>3. Cardinality(four \cup {x}) = Cardinality(four) + 1
        BY <3>2, FS_AddElement
      <4> QED
        BY <2>6, <3>3, <4>1, <4>2, <4>3 DEF CountsVersions
    <3>5. CASE x[1] = 6
      <4>1. OfVersion(6, keys \cup {x}) = six \cup {x} /\ OfVersion(4, keys \cup {x}) = four
        BY <3>1, <3>5 DEF OfVersion
      <4>2. counted.ipv6_size = set.ipv6_size + 1 /\ counted.ipv4_size = set.ipv4_size
        BY <2>0, <2>2, <2>7, <3>5 DEF Tables
      <4>3. Cardinality(six \cup {x}) = Cardinality(six) + 1
        BY <3>2, FS_AddElement
      <4> QED
        BY <2>6, <3>3, <4>1, <4>2, <4>3 DEF CountsVersions
    <3> QED
      BY <2>0, <3>4, <3>5
  <2> QED
    BY <2>1, <2>6, <2>7 DEF IsSound
<1> QED
  BY <1>1, <1>2

\* Merging goes through the buckets of src.
SoundTables == {t \in Tables : IsSound(t)}
AddToAll(some, x) ==
  IF x = H!NONE THEN some ELSE UNION {H!SetInsert(t, x) : t \in some}
AddToTables == [p \in (SUBSET SoundTables) \X Elements |-> AddToAll(p[1], p[2])]

LEMMA AddToAllType ==
  \A some \in SUBSET SoundTables, x \in Elements : AddToAll(some, x) \in SUBSET SoundTables
<1> SUFFICES ASSUME NEW some \in SUBSET SoundTables, NEW x \in Elements,
                    NEW t \in AddToAll(some, x)
             PROVE  t \in SoundTables
  OBVIOUS
<1>1. CASE x = H!NONE
  BY <1>1 DEF AddToAll
<1>2. CASE x # H!NONE
  <2>1. x \in Members
    BY <1>2 DEF Elements
  <2>2. PICK old \in some : t \in H!SetInsert(old, x)
    BY <1>2 DEF AddToAll
  <2>3. IsSound(t)
    BY <2>1, <2>2, InsertKeeps DEF SoundTables
  <2> QED
    BY <2>3 DEF SoundTables, IsSound
<1> QED
  BY <1>1, <1>2

LEMMA SameMaxOfSets == \A u : H!Max(u) = Max(u)
  BY Zenon DEF H!Max, Max

FoldOfTables(base, s) ==
  (CHOOSE it : it = [u \in SUBSET DOMAIN s |->
                       IF u = {} THEN base
                       ELSE AddToAll(it[u \ {H!Max(u)}], s[H!Max(u)])])[DOMAIN s]

LEMMA MergeIsFolded ==
  ASSUME NEW dst \in SoundTables, NEW s \in Seq(Elements)
  PROVE  /\ FoldType(SUBSET SoundTables, Elements, {dst}, AddToTables)
         /\ \A src : src.buckets = s =>
              H!SetMerge(dst, src) =
                {H!SetRewind(t) : t \in Folded(SUBSET SoundTables, {dst}, AddToTables, s)}
<1> DEFINE R == SUBSET SoundTables
<1> DEFINE F == AddToTables
<1>0. PICK base : base = {dst}
  OBVIOUS
<1>1. /\ \A some \in R, x \in Elements : F[<<some, x>>] = AddToAll(some, x)
      /\ FoldType(R, Elements, base, F)
  <2>1. \A some \in R, x \in Elements : AddToAll(some, x) \in R
    BY AddToAllType
  <2>2. base \in R
    BY <1>0
  <2> HIDE DEF R
  <2>3. F = [p \in R \X Elements |-> AddToAll(p[1], p[2])]
    BY DEF AddToTables, R
  <2> HIDE DEF F
  <2>4. \A p \in R \X Elements : AddToAll(p[1], p[2]) \in R
    BY <2>1
  <2> QED
    BY <2>2, <2>3, <2>4 DEF FoldType
<1> HIDE DEF F, R
<1>3. DOMAIN s = 1..Len(s) /\ Len(s) \in Nat /\ \A i \in 1..Len(s) : s[i] \in Elements
  BY LenProperties
<1> DEFINE Eq(it) == it = [u \in SUBSET DOMAIN s |->
                             IF u = {} THEN base
                             ELSE AddToAll(it[u \ {H!Max(u)}], s[H!Max(u)])]
<1>4. ASSUME NEW src, src.buckets = s
      PROVE  H!SetMerge(dst, src) = {H!SetRewind(t) : t \in (CHOOSE it : Eq(it))[DOMAIN s]}
  <2>1. H!SetMerge(dst, src) = {H!SetRewind(t) : t \in FoldOfTables({dst}, src.buckets)}
    BY Zenon DEF H!SetMerge, H!FoldLeft, H!MapThenFoldSet, AddToAll, FoldOfTables
  <2>2. H!SetMerge(dst, src) = {H!SetRewind(t) : t \in FoldOfTables(base, s)}
    BY <1>0, <1>4, <2>1
  <2> QED
    BY <2>2, Zenon DEF FoldOfTables
<1>5. \A u \in SUBSET DOMAIN s : u # {} => Max(u) \in DOMAIN s
  BY <1>3, MaxOfPositions
<1>6. \E it : Eq(it)
  <2>0. SetFolds(R, base, F, s) # {}
    BY <1>1, SetFoldsExist
  <2>1. PICK it \in [SUBSET DOMAIN s -> R] :
          \A u \in SUBSET DOMAIN s :
            it[u] = IF u = {} THEN base ELSE F[<<it[u \ {Max(u)}], s[Max(u)]>>]
    BY <2>0 DEF SetFolds
  <2>2. ASSUME NEW u \in SUBSET DOMAIN s, u # {}
        PROVE  F[<<it[u \ {Max(u)}], s[Max(u)]>>] = AddToAll(it[u \ {H!Max(u)}], s[H!Max(u)])
    <3>1. s[Max(u)] \in Elements /\ it[u \ {Max(u)}] \in R
      BY <1>3, <1>5, <2>1, <2>2
    <3> QED
      BY <1>1, <3>1, SameMaxOfSets
  <2>3. Eq(it)
    BY <2>1, <2>2
  <2> QED
    BY <2>3
<1>7. PICK it : Eq(it) /\ it[DOMAIN s] = (CHOOSE f : Eq(f))[DOMAIN s]
  BY <1>6
<1>8. IsSetFold(it, R, base, F, s)
  <2>1. it[{}] = base
    BY <1>7
  <2>2. ASSUME NEW u \in SUBSET DOMAIN s, u # {}, it[u \ {Max(u)}] \in R
        PROVE  it[u] = F[<<it[u \ {Max(u)}], s[Max(u)]>>]
    <3>1. it[u] = AddToAll(it[u \ {Max(u)}], s[Max(u)])
      BY <1>7, <2>2, SameMaxOfSets
    <3>2. s[Max(u)] \in Elements
      BY <1>3, <1>5, <2>2
    <3> QED
      BY <1>1, <2>2, <3>1, <3>2
  <2> QED
    BY <2>1, <2>2 DEF IsSetFold
<1>9. it[DOMAIN s] = Folded(R, base, F, s)
  BY <1>1, <1>8, SetFoldIsFolded
<1> HIDE DEF Eq
<1> QED
  BY <1>0, <1>1, <1>4, <1>7, <1>9 DEF F, R

LEMMA MergeKeeps ==
  ASSUME NEW dst, IsSound(dst), NEW src \in Tables, NEW t \in H!SetMerge(dst, src)
  PROVE  /\ IsSound(t) /\ H!Keys(t) = H!Keys(dst) \cup H!Keys(src)
         /\ t.k = IF kind.cursor THEN 1 ELSE dst.k
<1> DEFINE R == SUBSET SoundTables
<1>0. PICK s \in Seq(Elements) : s = src.buckets
  BY DEF Tables
<1>1. dst \in SoundTables
  BY DEF SoundTables, IsSound
<1>2. PICK base, folded : base = {dst} /\ folded = Folded(R, base, AddToTables, s)
  OBVIOUS
<1>3. FoldType(R, Elements, base, AddToTables)
      /\ H!SetMerge(dst, src) = {H!SetRewind(u) : u \in folded}
  BY <1>0, <1>1, <1>2, MergeIsFolded
<1>17. PICK last : last \in folded /\ t = H!SetRewind(last)
  BY <1>3
<1> HIDE DEF R
<1>4. PICK f \in Steps(R, base, AddToTables, s) : folded = f[Len(s)]
  <2>1. Steps(R, base, AddToTables, s) # {}
    BY <1>0, <1>3, StepsExist
  <2> QED
    BY <1>2, <2>1 DEF Folded
<1> USE DEF R
<1>5. /\ f \in [0..Len(s) -> R] /\ f[0] = {dst}
      /\ \A i \in 1..Len(s) : f[i] = AddToTables[<<f[i - 1], s[i]>>]
  BY <1>2, <1>4 DEF Steps
<1>6. Len(s) \in Nat /\ DOMAIN s = 1..Len(s) /\ \A i \in 1..Len(s) : s[i] \in Elements
  BY LenProperties
<1> DEFINE Upto(i) == H!Keys(dst) \cup ({s[b] : b \in 1..i} \ {H!NONE})
           Q(i) == \A u \in f[i] : H!Keys(u) = Upto(i) /\ u.k = dst.k
<1>7. Q(0)
  <2>1. 1..0 = {}
    OBVIOUS
  <2> QED
    BY <1>5, <2>1
<1>8. ASSUME NEW i \in 1..Len(s), Q(i - 1) PROVE Q(i)
  <2>1. i \in Nat /\ i - 1 \in 0..Len(s) /\ s[i] \in Elements
    BY <1>6
  <2>2. PICK old \in R : old = f[i - 1] /\ f[i] = AddToAll(old, s[i])
    BY <1>5, <2>1 DEF AddToTables
  <2>3. {s[b] : b \in 1..i} = {s[b] : b \in 1..(i - 1)} \cup {s[i]}
    BY <2>1
  <2>4. SUFFICES ASSUME NEW u \in f[i] PROVE H!Keys(u) = Upto(i) /\ u.k = dst.k
    OBVIOUS
  <2>5. \A w \in old : H!Keys(w) = Upto(i - 1) /\ w.k = dst.k
    BY <1>8, <2>2
  <2> HIDE DEF Q
  <2>6. CASE s[i] = H!NONE
    <3>1. u \in old
      BY <2>2, <2>4, <2>6 DEF AddToAll
    <3>2. Upto(i) = Upto(i - 1)
      BY <2>3, <2>6
    <3> QED
      BY <2>5, <3>1, <3>2
  <2>7. CASE s[i] # H!NONE
    <3>1. PICK w \in old : u \in H!SetInsert(w, s[i])
      BY <2>2, <2>4, <2>7 DEF AddToAll
    <3>2. IsSound(w) /\ s[i] \in Members
      BY <2>1, <2>7 DEF SoundTables, Elements
    <3>3. H!Keys(u) = H!Keys(w) \cup {s[i]} /\ u.k = w.k
      BY <3>1, <3>2, InsertKeeps
    <3>4. Upto(i) = Upto(i - 1) \cup {s[i]}
      BY <2>3, <2>7
    <3> QED
      BY <2>5, <3>3, <3>4
  <2> QED
    BY <2>6, <2>7
<1> HIDE DEF Q
<1>9. Q(Len(s))
  <2>1. PICK c : c = {i \in 0..Len(s) : Q(i)}
    OBVIOUS
  <2>2. 0 \in c /\ \A i \in 1..Len(s) : i - 1 \in c => i \in c
    BY <1>6, <1>7, <1>8, <2>1
  <2>3. \A i \in 0..Len(s) : i \in c
    BY <1>6, <2>2, CountingUp
  <2> QED
    BY <1>6, <2>1, <2>3
<1>10. last \in SoundTables /\ last \in f[Len(s)]
  BY <1>17, <1>4, <1>5, <1>6
<1>11. H!Keys(src) = {s[b] : b \in 1..Len(s)} \ {H!NONE}
  BY <1>0, <1>6 DEF H!Keys, H!Range
<1>12. H!Keys(last) = H!Keys(dst) \cup H!Keys(src) /\ last.k = dst.k
  BY <1>9, <1>10, <1>11 DEF Q
<1>13. t = IF kind.cursor THEN [last EXCEPT !.k = 1] ELSE last
  BY <1>17 DEF H!SetRewind
<1>14. last \in Tables /\ IsSound(last)
  BY <1>10 DEF SoundTables
<1>15. /\ t \in Tables /\ t.buckets = last.buckets
       /\ t.ipv4_size = last.ipv4_size /\ t.ipv6_size = last.ipv6_size
       /\ t.k = IF kind.cursor THEN 1 ELSE last.k
  <2>1. CASE kind.cursor
    <3>1. t = [buckets |-> last.buckets, k |-> 1, ipv4_size |-> last.ipv4_size,
               ipv6_size |-> last.ipv6_size]
      BY <1>13, <1>14, <2>1 DEF Tables
    <3>2. last.buckets \in Seq(Elements) /\ last.ipv4_size \in Nat /\ last.ipv6_size \in Nat
      BY <1>14 DEF Tables
    <3> QED
      BY <2>1, <3>1, <3>2 DEF Tables
  <2>2. CASE ~kind.cursor
    BY <1>13, <1>14, <2>2
  <2> QED
    BY <2>1, <2>2
<1>16. H!Keys(t) = H!Keys(last)
  BY <1>15 DEF H!Keys
<1> QED
  BY <1>12, <1>14, <1>15, <1>16 DEF IsSound, CountsVersions

\* What was told since the last rewind: the members in front of the cursor, each
\* of them once, and NULL when it is behind the last bucket.
Before(set) == {set.buckets[b] : b \in {d \in DOMAIN set.buckets : d < set.k}} \ {H!NONE}
Tells(set, row) ==
  /\ \A i, j \in DOMAIN row : row[i] = row[j] => i = j
  /\ {x \in H!Range(row) : x # H!NONE} = Before(set)
  /\ H!NONE \in H!Range(row) => set.k > Len(set.buckets)

LEMMA NextTells ==
  ASSUME NEW set, IsSound(set), NEW row \in Seq(Elements), H!NONE \notin H!Range(row)
  PROVE  /\ IsSound(H!SetNext(set).set) /\ H!Keys(H!SetNext(set).set) = H!Keys(set)
         /\ Append(row, H!SetNext(set).v) \in Seq(Elements)
         /\ Tells(set, row) => Tells(H!SetNext(set).set, Append(row, H!SetNext(set).v))
<1>0. set \in Tables /\ Distinct(set.buckets)
  BY DEF IsSound
<1>1. PICK s \in Seq(Elements) : s = set.buckets
  BY <1>0 DEF Tables
<1>2. Len(s) \in Nat /\ DOMAIN s = 1..Len(s) /\ \A i \in 1..Len(s) : s[i] \in Elements
  BY LenProperties
<1>3. set.k \in Nat
  BY <1>0 DEF Tables
<1>4. PICK full : full = {b \in DOMAIN s : b >= set.k /\ s[b] # H!NONE}
  OBVIOUS
<1>5. PICK k \in Nat \ {0}, v \in Elements :
        /\ H!SetNext(set) = [set |-> [set EXCEPT !.k = k], v |-> v]
        /\ \/ full = {} /\ k = Len(s) + 1 /\ v = H!NONE
           \/ full # {} /\ k - 1 \in full /\ v = s[k - 1] /\ \A b \in full : k - 1 <= b
  <2>1. CASE full = {}
    <3>1. H!SetNext(set) = [set |-> [set EXCEPT !.k = Len(s) + 1], v |-> H!NONE]
      BY <1>1, <1>4, <2>1 DEF H!SetNext
    <3>2. PICK k \in Nat \ {0}, v \in Elements : k = Len(s) + 1 /\ v = H!NONE
      BY <1>2 DEF Elements
    <3> QED
      BY <2>1, <3>1, <3>2
  <2>2. CASE full # {}
    <3>1. full \subseteq Nat /\ full \subseteq 1..Len(s)
      BY <1>2, <1>4
    <3>2. PICK m : m = Min(full) /\ m \in full /\ \A b \in full : m <= b
      BY <2>2, <3>1, MinNat
    <3>3. H!SetNext(set) = [set |-> [set EXCEPT !.k = m + 1], v |-> s[m]]
      BY <1>1, <1>4, <2>2, <3>2, SameMinOfSets DEF H!SetNext
    <3>4. m \in Nat /\ m + 1 \in Nat \ {0} /\ (m + 1) - 1 = m /\ s[m] \in Elements
      BY <1>2, <3>1, <3>2
    <3>5. PICK k \in Nat \ {0}, v \in Elements : k = m + 1 /\ v = s[m]
      BY <3>4
    <3> QED
      BY <2>2, <3>2, <3>3, <3>4, <3>5
  <2> QED
    BY <2>1, <2>2
<1>6. PICK t : t = H!SetNext(set).set /\ t = [set EXCEPT !.k = k]
  BY <1>5
<1>7. H!SetNext(set).v = v
  BY <1>5
<1>8. /\ t \in Tables /\ t.buckets = set.buckets /\ t.k = k
      /\ t.ipv4_size = set.ipv4_size /\ t.ipv6_size = set.ipv6_size
  BY <1>0, <1>6 DEF Tables
<1>9. H!Keys(t) = H!Keys(set)
  BY <1>8 DEF H!Keys
<1>10. IsSound(t)
  BY <1>8, <1>9 DEF IsSound, CountsVersions
<1>11. PICK new \in Seq(Elements) : new = Append(row, v)
  <2>1. Append(row, v) \in Seq(Elements)
    BY AppendProperties
  <2> QED
    BY <2>1
<1>12. /\ Len(row) \in Nat /\ DOMAIN row = 1..Len(row) /\ DOMAIN new = 1..(Len(row) + 1)
       /\ new[Len(row) + 1] = v /\ \A i \in 1..Len(row) : new[i] = row[i]
  BY <1>11, LenProperties
<1>13. H!Range(new) = H!Range(row) \cup {v}
  BY <1>12 DEF H!Range
<1>14. ASSUME Tells(set, row) PROVE Tells(t, new)
  <2>1. PICK old : old = Before(set)
    OBVIOUS
  <2>2. H!Range(row) = old
    BY <1>14, <2>1 DEF Tells
  <2>3. old = {s[b] : b \in {d \in 1..Len(s) : d < set.k}} \ {H!NONE}
    BY <1>1, <1>2, <2>1 DEF Before
  <2>4. Before(t) = {s[b] : b \in {d \in 1..Len(s) : d < k}} \ {H!NONE}
    BY <1>1, <1>2, <1>8 DEF Before
  <2>5. v \notin old /\ Before(t) = old \cup ({v} \ {H!NONE})
    <3>1. CASE full = {}
      <4>1. k = Len(s) + 1 /\ v = H!NONE
        BY <1>5, <3>1
      <4>2. \A b \in 1..Len(s) : s[b] # H!NONE => b < set.k /\ b < k
        BY <1>2, <1>3, <1>4, <3>1, <4>1
      <4> QED
        BY <2>3, <2>4, <4>1, <4>2
    <3>2. CASE full # {}
      <4>1. PICK m \in 1..Len(s) : /\ m = k - 1 /\ v = s[m] /\ m >= set.k /\ s[m] # H!NONE
                                  /\ \A b \in full : m <= b
        BY <1>2, <1>4, <1>5, <3>2
      <4>2. \A b \in 1..Len(s) : s[b] # H!NONE => (b < k <=> b < set.k \/ b = m)
        BY <1>2, <1>3, <1>4, <4>1
      <4>3. \A b \in 1..Len(s) : s[b] = v => b = m
        BY <1>0, <1>1, <1>2, <4>1 DEF Distinct
      <4>4. v \notin old
        BY <1>2, <1>3, <2>3, <4>1, <4>3
      <4>5. Before(t) = old \cup {v}
        BY <1>2, <2>3, <2>4, <4>1, <4>2
      <4> QED
        BY <4>1, <4>4, <4>5
    <3> QED
      BY <3>1, <3>2
  <2>6. ASSUME NEW i \in DOMAIN new, NEW j \in DOMAIN new, new[i] = new[j] PROVE i = j
    <3>1. \A a, b \in 1..Len(row) : row[a] = row[b] => a = b
      BY <1>12, <1>14 DEF Tells
    <3>2. \A a \in 1..Len(row) : row[a] # v
      BY <1>12, <2>2, <2>5 DEF H!Range
    <3> QED
      BY <1>12, <2>6, <3>1, <3>2
  <2>7. H!NONE \notin old
    BY <2>3
  <2>8. {x \in H!Range(new) : x # H!NONE} = Before(t)
    BY <1>13, <2>2, <2>5, <2>7
  <2>9. ASSUME H!NONE \in H!Range(new) PROVE t.k > Len(t.buckets)
    <3>1. v = H!NONE
      BY <1>13, <2>2, <2>7, <2>9
    <3>2. k = Len(s) + 1
      BY <1>4, <1>5, <3>1
    <3> QED
      BY <1>1, <1>2, <1>8, <3>2
  <2> QED
    BY <2>6, <2>8, <2>9 DEF Tells
<1> QED
  BY <1>6, <1>7, <1>9, <1>10, <1>11, <1>14

LEMMA KindFields ==
  ASSUME kind \in H!Kinds
  PROVE  /\ kind.cursor \in BOOLEAN /\ kind.copies \in BOOLEAN /\ kind.versions \in BOOLEAN
         /\ kind.copies => kind.cursor /\ ~kind.versions
<1>1. /\ H!Plain.cursor = FALSE /\ H!Plain.copies = FALSE /\ H!Plain.versions = FALSE
      /\ H!IdSet.cursor = TRUE /\ H!IdSet.copies = FALSE /\ H!IdSet.versions = FALSE
  BY Zenon DEF H!Plain, H!IdSet
<1>2. /\ H!StrSet.cursor = TRUE /\ H!StrSet.copies = TRUE /\ H!StrSet.versions = FALSE
      /\ H!PfxStorageSet.cursor = FALSE /\ H!PfxStorageSet.copies = FALSE
      /\ H!PfxStorageSet.versions = TRUE
  BY Zenon DEF H!Plain, H!StrSet, H!PfxStorageSet
<1>3. kind \in {H!IdSet, H!StrSet, H!Plain, H!PfxStorageSet}
  BY DEF H!Kinds, H!AddrStorageSet, H!Ipv4AddrSet, H!Ipv6AddrSet, H!Ipv4PfxSet, H!Ipv6PfxSet
<1> QED
  BY <1>1, <1>2, <1>3, Zenon

\* The inductive invariant of the sets.
HashTypes ==
  /\ kind \in H!Kinds
  /\ sets \in [H!Names -> Tables]
  /\ strings \in [H!Names -> Int]
  /\ sets_meant \in [H!Names -> SUBSET Members]
  /\ told \in [H!Names -> Seq(Elements)]
  /\ disturbed \in [H!Names -> BOOLEAN]

SetHolds(n) ==
  /\ IsSound(sets[n]) /\ H!Keys(sets[n]) = sets_meant[n]
  /\ kind.copies => strings[n] = Cardinality(sets_meant[n])
  /\ ~disturbed[n] => Tells(sets[n], told[n])
  /\ ~kind.cursor => sets[n].k = 1 /\ told[n] = <<>>

HashInv == part = "sets" => HashTypes /\ \A n \in H!Names : SetHolds(n)

\* SetHolds after a step, put together; and for a set the step leaves alone.
LEMMA HoldsNext ==
  ASSUME kind' = kind, NEW n, NEW t, NEW c, NEW xs, NEW row, NEW moved,
         sets'[n] = t, strings'[n] = c, sets_meant'[n] = xs, told'[n] = row,
         disturbed'[n] = moved,
         IsSound(t), H!Keys(t) = xs, kind.copies => c = Cardinality(xs),
         ~moved => Tells(t, row), ~kind.cursor => t.k = 1 /\ row = <<>>
  PROVE  SetHolds(n)'
  BY DEF SetHolds, IsSound

LEMMA HoldsStill ==
  ASSUME kind' = kind, NEW n, SetHolds(n),
         sets'[n] = sets[n], strings'[n] = strings[n], sets_meant'[n] = sets_meant[n],
         told'[n] = told[n], disturbed'[n] = disturbed[n]
  PROVE  SetHolds(n)'
  BY DEF SetHolds, IsSound

LEMMA StringsCounted ==
  ASSUME HashTypes, NEW n \in H!Names, NEW copied \in Int, NEW freed \in Int,
         H!Strings(n, copied, freed)
  PROVE  /\ strings' \in [H!Names -> Int]
         /\ kind.copies => strings'[n] = strings[n] + copied - freed
         /\ \A d \in H!Names : d # n => strings'[d] = strings[d]
<1>1. strings \in [H!Names -> Int] /\ strings[n] \in Int
  BY DEF HashTypes
<1>2. strings[n] + copied - freed \in Int
  BY <1>1
<1>3. CASE kind.copies
  <2>1. strings' = [strings EXCEPT ![n] = strings[n] + copied - freed]
    BY <1>3 DEF H!Strings
  <2> QED
    BY <1>1, <1>2, <2>1
<1>4. CASE ~kind.copies
  BY <1>1, <1>4 DEF H!Strings
<1> QED
  BY <1>3, <1>4

\* A rewound set has told nothing.
LEMMA NothingTold ==
  ASSUME NEW t \in Tables, t.k = 1
  PROVE  Tells(t, <<>>) /\ <<>> \in Seq(Elements)
<1>1. PICK s \in Seq(Elements) : s = t.buckets
  BY DEF Tables
<1>2. DOMAIN s = 1..Len(s) /\ Len(s) \in Nat
  BY LenProperties
<1>3. {d \in DOMAIN t.buckets : d < t.k} = {}
  BY <1>1, <1>2
<1>4. Before(t) = {}
  BY <1>3 DEF Before
<1>5. H!Range(<<>>) = {} /\ DOMAIN <<>> = {}
  BY DEF H!Range
<1> QED
  BY <1>4, <1>5 DEF Tells

LEMMA RewindKeeps ==
  ASSUME HashTypes, NEW set, IsSound(set), ~kind.cursor => set.k = 1
  PROVE  /\ IsSound(H!SetRewind(set)) /\ H!Keys(H!SetRewind(set)) = H!Keys(set)
         /\ H!SetRewind(set).k = 1 /\ H!SetRewind(set).buckets = set.buckets
<1>1. set \in Tables
  BY DEF IsSound
<1>2. PICK t : t = H!SetRewind(set) /\ t = IF kind.cursor THEN [set EXCEPT !.k = 1] ELSE set
  BY DEF H!SetRewind
<1>3. /\ set.buckets \in Seq(Elements) /\ set.ipv4_size \in Nat /\ set.ipv6_size \in Nat
      /\ set = [buckets |-> set.buckets, k |-> set.k, ipv4_size |-> set.ipv4_size,
                ipv6_size |-> set.ipv6_size]
  BY <1>1 DEF Tables
<1>4. t = [buckets |-> set.buckets, k |-> 1, ipv4_size |-> set.ipv4_size,
           ipv6_size |-> set.ipv6_size]
  BY <1>2, <1>3
<1>5. /\ t \in Tables /\ t.buckets = set.buckets /\ t.k = 1
      /\ t.ipv4_size = set.ipv4_size /\ t.ipv6_size = set.ipv6_size
  BY <1>3, <1>4 DEF Tables
<1>6. H!Keys(t) = H!Keys(set)
  BY <1>5 DEF H!Keys
<1> QED
  BY <1>2, <1>5, <1>6 DEF IsSound, CountsVersions

LEMMA InsertStep ==
  ASSUME HashTypes, \A n \in H!Names : SetHolds(n),
         NEW n \in H!Names, NEW x \in Members, H!InsertMember(n, x)
  PROVE  HashTypes' /\ \A d \in H!Names : SetHolds(d)'
<1>1. PICK t \in H!SetInsert(sets[n], x) : sets' = [sets EXCEPT ![n] = t]
  BY DEF H!InsertMember
<1>2. PICK xs : xs = sets_meant[n] /\ xs \subseteq Members
  BY DEF HashTypes
<1>3. IsSound(sets[n]) /\ H!Keys(sets[n]) = xs /\ sets[n] \in Tables
  BY <1>2 DEF SetHolds, IsSound
<1>4. IsSound(t) /\ H!Keys(t) = xs \cup {x} /\ t.k = sets[n].k /\ t \in Tables
  BY <1>3, InsertKeeps DEF IsSound
<1>5. IsFiniteSet(xs)
  BY <1>3, KeysAreMembers
<1>6. PICK freed : freed = Cardinality({x} \cap xs) /\ H!Strings(n, 1, freed)
  BY <1>3, SameCardinality DEF H!InsertMember, H!Freed
<1>7. freed \in Int /\ Cardinality(xs \cup {x}) = Cardinality(xs) + 1 - freed
  <2>1. IsFiniteSet({x}) /\ Cardinality({x}) = 1
    BY FS_Singleton
  <2>2. IsFiniteSet({x} \cap xs)
    BY <1>5, FS_Intersection
  <2>3. Cardinality({x} \cap xs) \in Nat /\ Cardinality(xs) \in Nat
    BY <1>5, <2>2, FS_CardinalityType
  <2>4. Cardinality({x} \cup xs) = 1 + Cardinality(xs) - freed
    BY <1>5, <1>6, <2>1, FS_Union
  <2>5. {x} \cup xs = xs \cup {x}
    OBVIOUS
  <2>6. PICK a, b, c \in Nat : a = freed /\ b = Cardinality(xs) /\ c = Cardinality(xs \cup {x})
    <3>1. IsFiniteSet(xs \cup {x})
      BY <1>5, FS_AddElement
    <3>2. Cardinality(xs \cup {x}) \in Nat
      BY <3>1, FS_CardinalityType
    <3> QED
      BY <1>6, <2>3, <3>2
  <2>7. c = 1 + b - a
    BY <2>4, <2>5, <2>6
  <2>8. c = b + 1 - a
    BY <2>7
  <2> QED
    BY <2>6, <2>8
<1>8. /\ strings' \in [H!Names -> Int]
      /\ kind.copies => strings'[n] = strings[n] + 1 - freed
      /\ \A d \in H!Names : d # n => strings'[d] = strings[d]
  BY <1>6, <1>7, StringsCounted
<1>9. /\ sets_meant' = [sets_meant EXCEPT ![n] = xs \cup {x}]
      /\ disturbed' = [disturbed EXCEPT ![n] = kind.cursor]
      /\ kind' = kind /\ told' = told
  BY <1>2 DEF H!InsertMember
<1>10. kind.cursor \in BOOLEAN
  BY KindFields DEF HashTypes
<1>11. HashTypes'
  BY <1>1, <1>2, <1>4, <1>8, <1>9, <1>10 DEF HashTypes
<1>12. /\ sets'[n] = t /\ sets_meant'[n] = xs \cup {x} /\ told'[n] = told[n]
       /\ disturbed'[n] = kind.cursor
  BY <1>1, <1>9 DEF HashTypes
<1>13. ~kind.cursor => sets[n].k = 1 /\ told[n] = <<>>
  BY DEF SetHolds
<1>14. ~kind.cursor => Tells(t, told[n])
  BY <1>4, <1>13, NothingTold
<1>15. kind.copies => strings'[n] = Cardinality(xs \cup {x})
  BY <1>2, <1>7, <1>8 DEF SetHolds
<1>16. SetHolds(n)'
  BY <1>4, <1>9, <1>12, <1>13, <1>14, <1>15, HoldsNext
<1>17. ASSUME NEW d \in H!Names, d # n PROVE SetHolds(d)'
  <2>1. /\ sets'[d] = sets[d] /\ sets_meant'[d] = sets_meant[d] /\ told'[d] = told[d]
        /\ disturbed'[d] = disturbed[d] /\ strings'[d] = strings[d]
    BY <1>1, <1>8, <1>9, <1>17 DEF HashTypes
  <2> QED
    BY <1>9, <2>1, HoldsStill
<1> QED
  BY <1>11, <1>16, <1>17

\* Rewound sets have told nothing.
LEMMA ToldNothing ==
  ASSUME HashTypes, NEW ns, ns \subseteq H!Names, H!Rewound(ns)
  PROVE  /\ told' \in [H!Names -> Seq(Elements)] /\ disturbed' \in [H!Names -> BOOLEAN]
         /\ \A d \in ns : told'[d] = <<>> /\ disturbed'[d] = FALSE
         /\ \A d \in H!Names \ ns : told'[d] = told[d] /\ disturbed'[d] = disturbed[d]
<1>1. /\ told' = [d \in H!Names |-> IF d \in ns THEN <<>> ELSE told[d]]
      /\ disturbed' = [d \in H!Names |-> IF d \in ns THEN FALSE ELSE disturbed[d]]
  BY DEF H!Rewound
<1>2. <<>> \in Seq(Elements)
  OBVIOUS
<1>3. told \in [H!Names -> Seq(Elements)] /\ disturbed \in [H!Names -> BOOLEAN]
  BY DEF HashTypes
<1>4. told' \in [H!Names -> Seq(Elements)]
  BY <1>1, <1>2, <1>3
<1>5. disturbed' \in [H!Names -> BOOLEAN]
  BY <1>1, <1>3
<1>6. ASSUME NEW d \in ns PROVE told'[d] = <<>> /\ disturbed'[d] = FALSE
  <2>1. d \in H!Names
    OBVIOUS
  <2> QED
    BY <1>1, <1>6, <2>1
<1>7. ASSUME NEW d \in H!Names \ ns PROVE told'[d] = told[d] /\ disturbed'[d] = disturbed[d]
  BY <1>1, <1>7
<1> QED
  BY <1>4, <1>5, <1>6, <1>7, Zenon

\* A step that rewinds one set, and leaves the other alone.
LEMMA OneRewound ==
  ASSUME HashTypes, \A d \in H!Names : SetHolds(d), NEW n \in H!Names, NEW t, NEW xs,
         NEW copied \in Int, NEW freed \in Int,
         kind' = kind, sets' = [sets EXCEPT ![n] = t],
         sets_meant' = [sets_meant EXCEPT ![n] = xs], xs \subseteq Members,
         H!Strings(n, copied, freed), H!Rewound({n}),
         IsSound(t), t.k = 1, H!Keys(t) = xs,
         kind.copies => Cardinality(sets_meant[n]) + copied - freed = Cardinality(xs)
  PROVE  HashTypes' /\ \A d \in H!Names : SetHolds(d)'
<1>1. /\ told' \in [H!Names -> Seq(Elements)] /\ disturbed' \in [H!Names -> BOOLEAN]
      /\ told'[n] = <<>> /\ disturbed'[n] = FALSE
      /\ \A d \in H!Names : d # n => told'[d] = told[d] /\ disturbed'[d] = disturbed[d]
  <2>1. PICK ns : ns = {n} /\ ns \subseteq H!Names /\ H!Rewound(ns)
    OBVIOUS
  <2>2. /\ told' \in [H!Names -> Seq(Elements)] /\ disturbed' \in [H!Names -> BOOLEAN]
        /\ \A d \in ns : told'[d] = <<>> /\ disturbed'[d] = FALSE
        /\ \A d \in H!Names \ ns : told'[d] = told[d] /\ disturbed'[d] = disturbed[d]
    BY <2>1, ToldNothing
  <2> QED
    BY <2>1, <2>2
<1>2. /\ strings' \in [H!Names -> Int]
      /\ kind.copies => strings'[n] = strings[n] + copied - freed
      /\ \A d \in H!Names : d # n => strings'[d] = strings[d]
  BY StringsCounted
<1>3. t \in Tables
  BY DEF IsSound
<1>4. HashTypes'
  BY <1>1, <1>2, <1>3 DEF HashTypes
<1>5. sets'[n] = t /\ sets_meant'[n] = xs
  BY DEF HashTypes
<1>6. kind.copies => strings'[n] = Cardinality(xs)
  BY <1>2 DEF SetHolds
<1>7. Tells(t, <<>>)
  BY <1>3, NothingTold
<1>8. SetHolds(n)'
  BY <1>1, <1>5, <1>6, <1>7, HoldsNext
<1>9. ASSUME NEW d \in H!Names, d # n PROVE SetHolds(d)'
  <2>1. sets'[d] = sets[d] /\ sets_meant'[d] = sets_meant[d]
    BY <1>9 DEF HashTypes
  <2> QED
    BY <1>1, <1>2, <1>9, <2>1, HoldsStill
<1> QED
  BY <1>4, <1>8, <1>9

\* Taking xs out of the buckets of a rewound set.
LEMMA EmptiedKeeps ==
  ASSUME NEW old \in Seq(Elements), Distinct(old), NEW xs,
         NEW row, row = [b \in DOMAIN old |-> IF old[b] \in xs THEN H!NONE ELSE old[b]]
  PROVE  /\ row \in Seq(Elements) /\ Distinct(row)
         /\ H!Range(row) \ {H!NONE} = (H!Range(old) \ {H!NONE}) \ xs
<1>1. DOMAIN old = 1..Len(old) /\ Len(old) \in Nat /\ \A b \in 1..Len(old) : old[b] \in Elements
  BY LenProperties
<1>2. H!NONE \in Elements
  BY DEF Elements
<1>3. row \in Seq(Elements) /\ DOMAIN row = 1..Len(old)
  <2>1. row \in [1..Len(old) -> Elements]
    BY <1>1, <1>2
  <2> QED
    BY <1>1, <2>1
<1>4. \A b \in 1..Len(old) : row[b] = IF old[b] \in xs THEN H!NONE ELSE old[b]
  BY <1>1
<1>5. Distinct(row)
  BY <1>1, <1>3, <1>4 DEF Distinct
<1>6. H!Range(row) \ {H!NONE} = (H!Range(old) \ {H!NONE}) \ xs
  <2>1. H!Range(row) = {row[b] : b \in 1..Len(old)} /\ H!Range(old) = {old[b] : b \in 1..Len(old)}
    BY <1>1, <1>3 DEF H!Range
  <2> QED
    BY <1>4, <2>1
<1> QED
  BY <1>3, <1>5, <1>6

LEMMA RemoveStep ==
  ASSUME HashTypes, \A n \in H!Names : SetHolds(n),
         NEW n \in H!Names, NEW x \in Members, H!RemoveMember(n, x)
  PROVE  HashTypes' /\ \A d \in H!Names : SetHolds(d)'
<1>1. kind.copies /\ kind.cursor /\ ~kind.versions /\ kind' = kind
  BY KindFields DEF HashTypes, H!RemoveMember
<1>2. PICK set : set = sets[n] /\ IsSound(set) /\ set \in Tables
  BY DEF SetHolds, IsSound
<1>3. PICK xs : xs = sets_meant[n] /\ xs \subseteq Members /\ H!Keys(set) = xs
  BY <1>2 DEF HashTypes, SetHolds
<1>4. PICK again : /\ again = H!SetRewind(set) /\ IsSound(again) /\ H!Keys(again) = xs
                   /\ again.k = 1 /\ again.buckets = set.buckets
  BY <1>1, <1>2, <1>3, RewindKeeps
<1>5. again \in Tables /\ Distinct(again.buckets)
  BY <1>4 DEF IsSound
<1>6. PICK old \in Seq(Elements) : old = again.buckets
  BY <1>5 DEF Tables
<1>7. PICK row : row = [b \in DOMAIN old |-> IF old[b] = x THEN H!NONE ELSE old[b]]
  OBVIOUS
<1>8. /\ row \in Seq(Elements) /\ Distinct(row)
      /\ H!Range(row) \ {H!NONE} = (H!Range(old) \ {H!NONE}) \ {x}
  <2>1. row = [b \in DOMAIN old |-> IF old[b] \in {x} THEN H!NONE ELSE old[b]]
    BY <1>7
  <2> QED
    BY <1>5, <1>6, <2>1, EmptiedKeeps
<1>9. PICK t : t = H!SetRemove(set, x) /\ t = [again EXCEPT !.buckets = row]
  BY <1>4, <1>6, <1>7 DEF H!SetRemove
<1>10. t \in Tables /\ t.buckets = row /\ t.k = 1
  BY <1>4, <1>5, <1>8, <1>9 DEF Tables
<1>11. H!Keys(t) = xs \ {x}
  BY <1>3, <1>4, <1>6, <1>8, <1>10 DEF H!Keys
<1>12. IsSound(t)
  BY <1>1, <1>8, <1>10 DEF IsSound
<1>13. PICK freed : freed = Cardinality({x} \cap xs) /\ H!Strings(n, 0, freed)
  BY <1>2, <1>3, SameCardinality DEF H!RemoveMember, H!Freed
<1>14. freed \in Int /\ Cardinality(xs) + 0 - freed = Cardinality(xs \ {x})
  <2>1. IsFiniteSet(xs)
    BY <1>2, <1>3, KeysAreMembers
  <2>2. Cardinality(xs \ {x}) = Cardinality(xs) - Cardinality(xs \cap {x})
    BY <2>1, FS_Difference
  <2>3. xs \cap {x} = {x} \cap xs
    OBVIOUS
  <2>4. Cardinality(xs) \in Nat /\ Cardinality({x} \cap xs) \in Nat
    BY <2>1, FS_Intersection, FS_CardinalityType
  <2>5. PICK a, b \in Nat : a = freed /\ b = Cardinality(xs)
    BY <1>13, <2>4
  <2>6. Cardinality(xs \ {x}) = b - a
    BY <1>13, <2>2, <2>3, <2>5
  <2> QED
    BY <2>5, <2>6
<1>15. sets' = [sets EXCEPT ![n] = t] /\ sets_meant' = [sets_meant EXCEPT ![n] = xs \ {x}]
  BY <1>2, <1>3, <1>9 DEF H!RemoveMember
<1>16. H!Rewound({n})
  BY DEF H!RemoveMember
<1>17. /\ kind.copies => Cardinality(sets_meant[n]) + 0 - freed = Cardinality(xs \ {x})
       /\ xs \ {x} \subseteq Members /\ 0 \in Int /\ freed \in Int
  BY <1>3, <1>14
<1> QED
  BY <1>1, <1>10, <1>11, <1>12, <1>13, <1>15, <1>16, <1>17, OneRewound, Zenon

LEMMA ClearStep ==
  ASSUME HashTypes, \A n \in H!Names : SetHolds(n), NEW n \in H!Names, H!ClearSet(n)
  PROVE  HashTypes' /\ \A d \in H!Names : SetHolds(d)'
<1>1. kind' = kind /\ H!Rewound({n})
  BY DEF H!ClearSet
<1>2. PICK set : /\ set = sets[n] /\ IsSound(set) /\ set \in Tables
                 /\ ~kind.cursor => set.k = 1
  BY DEF SetHolds, IsSound
<1>3. PICK xs : xs = sets_meant[n] /\ H!Keys(set) = xs /\ IsFiniteSet(xs)
  BY <1>2, KeysAreMembers DEF SetHolds
<1>4. PICK again : /\ again = H!SetRewind(set) /\ IsSound(again) /\ again.k = 1
  BY <1>2, RewindKeeps
<1>5. again \in Tables /\ Distinct(again.buckets)
  BY <1>4 DEF IsSound
<1>6. PICK old \in Seq(Elements) : old = again.buckets
  BY <1>5 DEF Tables
<1>7. PICK row : row = [b \in DOMAIN old |-> H!NONE]
  OBVIOUS
<1>8. row \in Seq(Elements) /\ Distinct(row) /\ H!Range(row) \ {H!NONE} = {}
  <2>1. PICK all : all = H!Range(old)
    OBVIOUS
  <2>2. \A b \in DOMAIN old : old[b] \in all
    BY <2>1 DEF H!Range
  <2>3. row = [b \in DOMAIN old |-> IF old[b] \in all THEN H!NONE ELSE old[b]]
    BY <1>7, <2>2
  <2>4. /\ row \in Seq(Elements) /\ Distinct(row)
        /\ H!Range(row) \ {H!NONE} = (H!Range(old) \ {H!NONE}) \ all
    BY <1>5, <1>6, <2>3, EmptiedKeeps
  <2> QED
    BY <2>1, <2>4
<1>9. PICK t : /\ t = H!SetClear(set)
               /\ t = [again EXCEPT !.buckets = row, !.ipv4_size = 0, !.ipv6_size = 0]
  BY <1>4, <1>6, <1>7 DEF H!SetClear
<1>10. t \in Tables /\ t.buckets = row /\ t.k = 1 /\ t.ipv4_size = 0 /\ t.ipv6_size = 0
  <2>1. t = [buckets |-> row, k |-> 1, ipv4_size |-> 0, ipv6_size |-> 0]
    BY <1>4, <1>5, <1>9 DEF Tables
  <2> QED
    BY <1>8, <2>1 DEF Tables
<1>11. H!Keys(t) = {}
  BY <1>8, <1>10 DEF H!Keys
<1>12. IsSound(t)
  <2>1. OfVersion(4, {}) = {} /\ OfVersion(6, {}) = {}
    BY DEF OfVersion
  <2> QED
    BY <1>8, <1>10, <1>11, <2>1, FS_EmptySet DEF IsSound, CountsVersions
<1>13. PICK freed : freed = Cardinality(xs) /\ H!Strings(n, 0, freed)
  BY <1>2, <1>3, SameCardinality DEF H!ClearSet, H!SetSize
<1>14. freed \in Int /\ Cardinality(xs) + 0 - freed = Cardinality({})
  <2>1. Cardinality(xs) \in Nat
    BY <1>3, FS_CardinalityType
  <2> QED
    BY <1>13, <2>1, FS_EmptySet
<1>15. sets' = [sets EXCEPT ![n] = t] /\ sets_meant' = [sets_meant EXCEPT ![n] = {}]
  BY <1>2, <1>9 DEF H!ClearSet
<1>16. /\ kind.copies => Cardinality(sets_meant[n]) + 0 - freed = Cardinality({})
       /\ {} \subseteq Members /\ 0 \in Int /\ freed \in Int
  BY <1>3, <1>14
<1> QED
  BY <1>1, <1>10, <1>11, <1>12, <1>13, <1>15, <1>16, OneRewound, Zenon

LEMMA RewindStep ==
  ASSUME HashTypes, \A n \in H!Names : SetHolds(n), NEW n \in H!Names, H!RewindSet(n)
  PROVE  HashTypes' /\ \A d \in H!Names : SetHolds(d)'
<1>1. kind' = kind /\ H!Rewound({n}) /\ strings' = strings /\ sets_meant' = sets_meant
  BY DEF H!RewindSet
<1>2. PICK set : /\ set = sets[n] /\ IsSound(set) /\ set \in Tables
                 /\ ~kind.cursor => set.k = 1
  BY DEF SetHolds, IsSound
<1>3. PICK xs : xs = sets_meant[n] /\ xs \subseteq Members /\ H!Keys(set) = xs
  BY <1>2 DEF HashTypes, SetHolds
<1>4. PICK t : t = H!SetRewind(set) /\ IsSound(t) /\ H!Keys(t) = xs /\ t.k = 1
  BY <1>2, <1>3, RewindKeeps
<1>5. sets' = [sets EXCEPT ![n] = t]
  BY <1>2, <1>4 DEF H!RewindSet
<1>6. sets_meant' = [sets_meant EXCEPT ![n] = xs]
  BY <1>1, <1>3 DEF HashTypes
<1>7. H!Strings(n, 0, 0)
  <2>1. strings[n] \in Int /\ strings \in [H!Names -> Int]
    BY DEF HashTypes
  <2>2. [strings EXCEPT ![n] = strings[n] + 0 - 0] = strings
    BY <2>1
  <2> QED
    BY <1>1, <2>2 DEF H!Strings
<1>8. Cardinality(xs) + 0 - 0 = Cardinality(xs)
  <2>1. Cardinality(xs) \in Nat
    BY <1>2, <1>3, KeysAreMembers, FS_CardinalityType
  <2> QED
    BY <2>1
<1>9. /\ kind.copies => Cardinality(sets_meant[n]) + 0 - 0 = Cardinality(xs)
      /\ 0 \in Int
  BY <1>3, <1>8
<1> QED
  BY <1>1, <1>3, <1>4, <1>5, <1>6, <1>7, <1>9, OneRewound, Zenon

LEMMA NextStep ==
  ASSUME HashTypes, \A n \in H!Names : SetHolds(n), NEW n \in H!Names, H!NextMember(n)
  PROVE  HashTypes' /\ \A d \in H!Names : SetHolds(d)'
<1>1. /\ kind' = kind /\ strings' = strings /\ sets_meant' = sets_meant
      /\ disturbed' = disturbed /\ kind.cursor /\ H!NONE \notin H!Range(told[n])
  BY DEF H!NextMember
<1>2. PICK set : set = sets[n] /\ IsSound(set)
  BY DEF SetHolds
<1>3. PICK row \in Seq(Elements) : row = told[n]
  BY DEF HashTypes
<1>4. PICK t, new : /\ t = H!SetNext(set).set /\ new = Append(row, H!SetNext(set).v)
                    /\ IsSound(t) /\ H!Keys(t) = H!Keys(set) /\ new \in Seq(Elements)
                    /\ Tells(set, row) => Tells(t, new)
  BY <1>1, <1>2, <1>3, NextTells
<1>5. sets' = [sets EXCEPT ![n] = t] /\ told' = [told EXCEPT ![n] = new]
  BY <1>2, <1>3, <1>4 DEF H!NextMember
<1>6. t \in Tables
  BY <1>4 DEF IsSound
<1>7. HashTypes'
  BY <1>1, <1>4, <1>5, <1>6 DEF HashTypes
<1>8. sets'[n] = t /\ told'[n] = new
  BY <1>5 DEF HashTypes
<1>9. ~disturbed[n] => Tells(t, new)
  BY <1>2, <1>3, <1>4 DEF SetHolds
<1>10. H!Keys(t) = sets_meant[n] /\ (kind.copies => strings[n] = Cardinality(sets_meant[n]))
  BY <1>2, <1>4 DEF SetHolds
<1>11. SetHolds(n)'
  BY <1>1, <1>4, <1>8, <1>9, <1>10, HoldsNext
<1>12. ASSUME NEW d \in H!Names, d # n PROVE SetHolds(d)'
  <2>1. sets'[d] = sets[d] /\ told'[d] = told[d]
    BY <1>5, <1>12 DEF HashTypes
  <2> QED
    BY <1>1, <2>1, HoldsStill
<1> QED
  BY <1>7, <1>11, <1>12


LEMMA MergeStep ==
  ASSUME HashTypes, \A n \in H!Names : SetHolds(n), H!MergeSets
  PROVE  HashTypes' /\ \A d \in H!Names : SetHolds(d)'
<1>0. "dst" \in H!Names /\ "src" \in H!Names /\ H!Names = {"dst", "src"}
  BY DEF H!Names
<1>1. kind' = kind /\ H!Rewound(H!Names)
  BY DEF H!MergeSets
<1>2. PICK dst, src : /\ dst = sets["dst"] /\ src = sets["src"] /\ IsSound(dst) /\ IsSound(src)
                      /\ src \in Tables /\ dst \in Tables
                      /\ ~kind.cursor => dst.k = 1 /\ src.k = 1
  BY <1>0 DEF SetHolds, IsSound
<1>3. PICK xs, ys : /\ xs = sets_meant["dst"] /\ H!Keys(dst) = xs /\ xs \subseteq Members
                    /\ ys = sets_meant["src"] /\ H!Keys(src) = ys /\ ys \subseteq Members
                    /\ IsFiniteSet(xs) /\ IsFiniteSet(ys)
  BY <1>0, <1>2, KeysAreMembers DEF SetHolds
<1>4. PICK t \in H!SetMerge(dst, src) :
        sets' = [dst |-> t, src |-> H!SetRewind(src)]
  BY <1>2 DEF H!MergeSets
<1>5. IsSound(t) /\ H!Keys(t) = xs \cup ys /\ t.k = 1 /\ t \in Tables
  BY <1>2, <1>3, MergeKeeps DEF IsSound
<1>6. PICK again : /\ again = H!SetRewind(src) /\ IsSound(again) /\ H!Keys(again) = ys
                   /\ again.k = 1 /\ again \in Tables
  BY <1>2, <1>3, RewindKeeps DEF IsSound
<1>7. sets'["dst"] = t /\ sets'["src"] = again /\ sets' \in [H!Names -> Tables]
  BY <1>0, <1>4, <1>5, <1>6
<1>8. sets_meant' = [sets_meant EXCEPT !["dst"] = xs \cup ys]
  BY <1>3 DEF H!MergeSets
<1>9. /\ sets_meant' \in [H!Names -> SUBSET Members]
      /\ sets_meant'["dst"] = xs \cup ys /\ sets_meant'["src"] = ys
  BY <1>0, <1>3, <1>8 DEF HashTypes
<1>10. PICK copied, freed : /\ copied = Cardinality(ys) /\ freed = Cardinality(ys \cap xs)
                            /\ H!Strings("dst", copied, freed)
  BY <1>2, <1>3, SameCardinality DEF H!MergeSets, H!Freed, H!SetSize
<1>11. copied \in Int /\ freed \in Int
       /\ Cardinality(xs) + copied - freed = Cardinality(xs \cup ys)
  <2>1. Cardinality(xs \cup ys) = Cardinality(xs) + Cardinality(ys) - Cardinality(xs \cap ys)
    BY <1>3, FS_Union
  <2>2. xs \cap ys = ys \cap xs /\ IsFiniteSet(ys \cap xs)
    BY <1>3, FS_Intersection
  <2>3. Cardinality(ys) \in Nat /\ Cardinality(ys \cap xs) \in Nat
    BY <1>3, <2>2, FS_CardinalityType
  <2>4. Cardinality(xs) \in Nat
    BY <1>3, FS_CardinalityType
  <2>5. PICK a, b, c \in Nat : a = Cardinality(xs) /\ b = copied /\ c = freed
    BY <1>10, <2>3, <2>4
  <2>6. Cardinality(xs \cup ys) = a + b - c
    BY <1>10, <2>1, <2>2, <2>5
  <2> QED
    BY <2>5, <2>6
<1>12. /\ strings' \in [H!Names -> Int] /\ strings'["src"] = strings["src"]
       /\ kind.copies => strings'["dst"] = strings["dst"] + copied - freed
  <2>1. "src" # "dst"
    OBVIOUS
  <2> QED
    BY <1>0, <1>10, <1>11, <2>1, StringsCounted
<1>13. kind.copies => /\ strings'["dst"] = Cardinality(xs \cup ys)
                      /\ strings'["src"] = Cardinality(ys)
  BY <1>0, <1>3, <1>11, <1>12 DEF SetHolds
<1>14. /\ told' \in [H!Names -> Seq(Elements)] /\ disturbed' \in [H!Names -> BOOLEAN]
       /\ \A d \in H!Names : told'[d] = <<>> /\ disturbed'[d] = FALSE
  BY <1>1, ToldNothing
<1>15. HashTypes'
  BY <1>1, <1>7, <1>9, <1>12, <1>14 DEF HashTypes
<1>16. Tells(t, <<>>) /\ Tells(again, <<>>)
  BY <1>5, <1>6, NothingTold
<1>17. SetHolds("dst")'
  BY <1>0, <1>1, <1>5, <1>7, <1>9, <1>13, <1>14, <1>16, HoldsNext
<1>18. SetHolds("src")'
  BY <1>0, <1>1, <1>6, <1>7, <1>9, <1>13, <1>14, <1>16, HoldsNext
<1> QED
  BY <1>0, <1>15, <1>17, <1>18

LEMMA HashInvEnough == HashInv => SetsAreRight
<1> SUFFICES ASSUME HashInv, part = "sets" PROVE H!SetsAreRight
  BY DEF SetsAreRight
<1>0. HashTypes /\ \A n \in H!Names : SetHolds(n)
  BY DEF HashInv
<1> SUFFICES ASSUME NEW n \in H!Names
             PROVE  /\ H!Keys(sets[n]) = sets_meant[n]
                    /\ H!SetSize(sets[n]) = H!Cardinality(sets_meant[n])
                    /\ kind.copies => strings[n] = H!Cardinality(sets_meant[n])
                    /\ kind.versions =>
                         /\ sets[n].ipv4_size = H!Cardinality({x \in sets_meant[n] : x[1] = 4})
                         /\ sets[n].ipv6_size = H!Cardinality({x \in sets_meant[n] : x[1] = 6})
                    /\ ~disturbed[n] =>
                         /\ {x \in H!Range(told[n]) : x # H!NONE} \subseteq sets_meant[n]
                         /\ \A i, j \in DOMAIN told[n] : told[n][i] = told[n][j] => i = j
                         /\ H!NONE \in H!Range(told[n]) =>
                              {x \in H!Range(told[n]) : x # H!NONE} = sets_meant[n]
  BY DEF H!SetsAreRight
<1>1. PICK set : set = sets[n] /\ IsSound(set) /\ set \in Tables
  BY <1>0 DEF SetHolds, IsSound
<1>2. PICK xs : xs = sets_meant[n] /\ H!Keys(set) = xs
  BY <1>0, <1>1 DEF SetHolds
<1>3. H!SetSize(set) = H!Cardinality(xs) /\ (kind.copies => strings[n] = H!Cardinality(xs))
  BY <1>0, <1>2, SameCardinality DEF SetHolds, H!SetSize
<1>4. ASSUME kind.versions
      PROVE  /\ set.ipv4_size = H!Cardinality({x \in xs : x[1] = 4})
             /\ set.ipv6_size = H!Cardinality({x \in xs : x[1] = 6})
  BY <1>1, <1>2, <1>4, SameCardinality DEF IsSound, CountsVersions, OfVersion
<1>5. ASSUME ~disturbed[n]
      PROVE  /\ {x \in H!Range(told[n]) : x # H!NONE} \subseteq xs
             /\ \A i, j \in DOMAIN told[n] : told[n][i] = told[n][j] => i = j
             /\ H!NONE \in H!Range(told[n]) => {x \in H!Range(told[n]) : x # H!NONE} = xs
  <2>1. PICK s \in Seq(Elements) : s = set.buckets
    BY <1>1 DEF Tables
  <2>2. DOMAIN s = 1..Len(s) /\ Len(s) \in Nat /\ set.k \in Nat
    BY <1>1, LenProperties DEF Tables
  <2>3. xs = {s[b] : b \in 1..Len(s)} \ {H!NONE}
    BY <1>2, <2>1, <2>2 DEF H!Keys, H!Range
  <2>4. Before(set) = {s[b] : b \in {d \in 1..Len(s) : d < set.k}} \ {H!NONE}
    BY <2>1, <2>2 DEF Before
  <2>5. Before(set) \subseteq xs
    BY <2>3, <2>4
  <2>6. set.k > Len(s) => Before(set) = xs
    <3>1. set.k > Len(s) => {d \in 1..Len(s) : d < set.k} = 1..Len(s)
      BY <2>2
    <3> QED
      BY <2>3, <2>4, <3>1
  <2>7. Tells(set, told[n])
    BY <1>0, <1>1, <1>5 DEF SetHolds
  <2> QED
    BY <2>1, <2>5, <2>6, <2>7 DEF Tells
<1> QED
  BY <1>1, <1>2, <1>3, <1>4, <1>5

\* A set holds what was inserted, merged in and not removed; counts it, owns a
\* string for each member, and an iteration that no insertion disturbs tells
\* each member once - wherever khash puts the members, for any members and
\* sizes of the tables.
THEOREM SetsHold == Spec => []SetsAreRight
<1>1. Init => HashInv
  <2> SUFFICES ASSUME Init PROVE HashTypes /\ \A n \in H!Names : SetHolds(n)
    BY DEF HashInv
  <2>1. /\ kind \in H!Kinds
        /\ sets = [n \in H!Names |-> H!SetCreate] /\ strings = [n \in H!Names |-> 0]
        /\ sets_meant = [n \in H!Names |-> {}] /\ told = [n \in H!Names |-> <<>>]
        /\ disturbed = [n \in H!Names |-> FALSE]
    BY DEF Init, H!Init
  <2>2. PICK t : t = H!SetCreate
    OBVIOUS
  <2>3. t = [buckets |-> <<H!NONE, H!NONE>>, k |-> 1, ipv4_size |-> 0, ipv6_size |-> 0]
    BY <2>2 DEF H!SetCreate
  <2>4. PICK s : s = <<H!NONE, H!NONE>>
    OBVIOUS
  <2>5. /\ s \in Seq(Elements) /\ Distinct(s) /\ H!Range(s) \ {H!NONE} = {}
    <3>1. H!NONE \in Elements
      BY DEF Elements
    <3>2. s \in Seq(Elements) /\ DOMAIN s = 1..2 /\ \A b \in 1..2 : s[b] = H!NONE
      BY <2>4, <3>1
    <3> QED
      BY <3>2 DEF Distinct, H!Range
  <2>6. t \in Tables /\ t.buckets = s /\ t.k = 1 /\ t.ipv4_size = 0 /\ t.ipv6_size = 0
    BY <2>3, <2>4, <2>5 DEF Tables
  <2>7. H!Keys(t) = {}
    BY <2>5, <2>6 DEF H!Keys
  <2>8. IsSound(t)
    <3>1. OfVersion(4, {}) = {} /\ OfVersion(6, {}) = {}
      BY DEF OfVersion
    <3> QED
      BY <2>5, <2>6, <2>7, <3>1, FS_EmptySet DEF IsSound, CountsVersions
  <2>9. Tells(t, <<>>)
    BY <2>6, NothingTold
  <2>10. HashTypes
    <3>1. <<>> \in Seq(Elements)
      OBVIOUS
    <3> QED
      BY <2>1, <2>2, <2>6, <3>1 DEF HashTypes
  <2>11. ASSUME NEW n \in H!Names PROVE SetHolds(n)
    <3>1. sets[n] = t /\ strings[n] = 0 /\ sets_meant[n] = {} /\ told[n] = <<>>
      BY <2>1, <2>2
    <3> QED
      BY <2>6, <2>7, <2>8, <2>9, <3>1, FS_EmptySet DEF SetHolds
  <2> QED
    BY <2>10, <2>11
<1>2. HashInv /\ [Next]_vars => HashInv'
  <2> SUFFICES ASSUME HashInv, [Next]_vars, part' = "sets"
               PROVE  HashTypes' /\ \A n \in H!Names : SetHolds(n)'
    BY DEF HashInv
  <2>1. part' = part
    BY DEF Next, Rest, vars
  <2>2. HashTypes /\ \A n \in H!Names : SetHolds(n)
    BY <2>1 DEF HashInv
  <2>3. CASE H!Next
    <3>1. ASSUME NEW n \in H!Names, NEW x \in Members, H!InsertMember(n, x)
          PROVE  HashTypes' /\ \A d \in H!Names : SetHolds(d)'
      BY <2>2, <3>1, InsertStep
    <3>2. ASSUME NEW n \in H!Names, NEW x \in Members, H!RemoveMember(n, x)
          PROVE  HashTypes' /\ \A d \in H!Names : SetHolds(d)'
      BY <2>2, <3>2, RemoveStep
    <3>3. ASSUME NEW n \in H!Names, H!RewindSet(n)
          PROVE  HashTypes' /\ \A d \in H!Names : SetHolds(d)'
      BY <2>2, <3>3, RewindStep
    <3>4. ASSUME NEW n \in H!Names, H!NextMember(n)
          PROVE  HashTypes' /\ \A d \in H!Names : SetHolds(d)'
      BY <2>2, <3>4, NextStep
    <3>5. ASSUME NEW n \in H!Names, H!ClearSet(n)
          PROVE  HashTypes' /\ \A d \in H!Names : SetHolds(d)'
      BY <2>2, <3>5, ClearStep
    <3>6. CASE H!MergeSets
      BY <2>2, <3>6, MergeStep
    <3> QED
      BY <2>3, <3>1, <3>2, <3>3, <3>4, <3>5, <3>6 DEF H!Next
  <2>4. CASE UNCHANGED vars
    <3>1. /\ kind' = kind /\ sets' = sets /\ strings' = strings /\ sets_meant' = sets_meant
          /\ told' = told /\ disturbed' = disturbed
      BY <2>4 DEF vars, hashset_vars
    <3> QED
      BY <2>2, <3>1, HoldsStill DEF HashTypes
  <2> QED
    BY <2>1, <2>3, <2>4 DEF Next
<1>3. HashInv => SetsAreRight
  BY HashInvEnough
<1> QED
  BY <1>1, <1>2, <1>3, PTL DEF Spec

=============================================================================
