---------------------------- MODULE ElemGenerator ----------------------------
(***************************************************************************)
(* The elems of a record, lib/bgpstream_elem_generator.c, lib/             *)
(* bgpstream_elem.c and bgpstream_record_get_next_elem.  One record and    *)
(* one generator are used for the whole stream: the elems of a record are  *)
(* written into the slots that held those of the records before it.        *)
(***************************************************************************)
EXTENDS Integers, FiniteSets, SequencesExt

CONSTANTS
  Records,       \* the records of the stream: [status, entry]
  Passes(_)      \* whether an elem passes the filters, see Filter

VARIABLES
  record,        \* the current record
  elems,         \* the slots
  elems_cnt,     \* slots in use, or NOT_POPULATED
  iter,
  given,         \* the elems of this record returned to the user
  ended          \* NULL was returned for this record

elem_vars == <<record, elems, elems_cnt, iter, given, ended>>

NOT_POPULATED == -1

\* elem_create: every field is 0, the path and the communities are empty.
NoAddr == [version |-> 0, addr |-> 0]
ElemCreate ==
  [type |-> "UNKNOWN", timestamp |-> 0, peer_address |-> NoAddr, peer_asnumber |-> 0,
   prefix |-> NoAddr, nexthop |-> NoAddr, aspath |-> <<>>, communities |-> <<>>,
   old_state |-> 0, new_state |-> 0]

\* Mutant of ElemClear: the communities stay.
ElemClearPathOnly(elem) == [elem EXCEPT !.aspath = <<>>]

\* elem_clear: the path and the communities only.
ElemClear(elem) == [elem EXCEPT !.aspath = <<>>, !.communities = <<>>]

\* get_new_elem: one more slot is allocated unless two are free.
GetNewElem(slots, cnt) == IF cnt + 1 >= Len(slots) THEN Append(slots, ElemCreate) ELSE slots

\* An elem with some fields set.
Set(elem, fields) ==
  [f \in DOMAIN elem |-> IF f \in DOMAIN fields THEN fields[f] ELSE elem[f]]

\* The next elem: the fields that are set, in a slot that was cleared.
AddElem(g, fields) ==
  LET slots == GetNewElem(g.elems, g.cnt)
  IN  [elems |-> [slots EXCEPT ![g.cnt + 1] = Set(ElemClear(@), fields)], cnt |-> g.cnt + 1]

-----------------------------------------------------------------------------
(* The fields that the entries of a dump set *)

Addr(version, addr) == [version |-> version, addr |-> addr]

\* The next hop of a route: that of an IPv6 announcement, or the attribute.
RouteNexthop(attr) ==
  IF attr.mp_nexthop # 0 THEN Addr(6, attr.mp_nexthop) ELSE Addr(4, attr.nexthop)

\* A route of a table; the path and the communities are empty if the attributes
\* have none.
Route(entry, peer, attr) ==
  [type |-> "RIB", timestamp |-> entry.time,
   peer_address |-> peer.address, peer_asnumber |-> peer.as, prefix |-> entry.prefix,
   aspath |-> attr.aspath, communities |-> attr.communities, nexthop |-> RouteNexthop(attr)]

MrtdRoute(entry) == <<Route(entry, entry.peer, entry.attr)>>

\* A prefix as its peers see it; an entry without attributes is left out.
DumpV2Prefix(entry) ==
  LET Add(lines, e) == IF e.attr = <<>> THEN lines
                       ELSE Append(lines, Route(entry, e.peer, e.attr[1]))
  IN  FoldLeft(Add, <<>>, entry.entries)

Withdraw(entry, prefixes, version) ==
  [i \in DOMAIN prefixes |->
     [type |-> "WITHDRAWAL", timestamp |-> entry.time,
      peer_address |-> entry.peer.address, peer_asnumber |-> entry.peer.as,
      prefix |-> Addr(version, prefixes[i])]]

Announce(entry, prefixes, version, nexthop) ==
  [i \in DOMAIN prefixes |->
     [type |-> "ANNOUNCEMENT", timestamp |-> entry.time,
      peer_address |-> entry.peer.address, peer_asnumber |-> entry.peer.as,
      prefix |-> Addr(version, prefixes[i]), nexthop |-> Addr(version, nexthop),
      aspath |-> entry.attr.aspath, communities |-> entry.attr.communities]]

\* The prefixes of a multiprotocol attribute: unicast, multicast, both.
MpWithdraw(entry, afi) ==
  Withdraw(entry, entry.mp_withdraw[afi][1], afi)
    \o Withdraw(entry, entry.mp_withdraw[afi][2], afi)
    \o Withdraw(entry, entry.mp_withdraw[afi][3], afi)

MpAnnounce(entry, afi, nexthop) ==
  Announce(entry, entry.mp_announce[afi][1], afi, nexthop)
    \o Announce(entry, entry.mp_announce[afi][2], afi, nexthop)
    \o Announce(entry, entry.mp_announce[afi][3], afi, nexthop)

\* table_line_update: withdrawals first, those of the message itself before
\* those of the multiprotocol attributes, and IPv4 before IPv6.
Update(entry) ==
  Withdraw(entry, entry.withdraw, 4)
    \o MpWithdraw(entry, 4) \o MpWithdraw(entry, 6)
    \o Announce(entry, entry.announce, 4, entry.attr.nexthop)
    \o MpAnnounce(entry, 4, entry.attr.nexthop) \o MpAnnounce(entry, 6, entry.attr.mp_nexthop)

StateChange(entry) ==
  <<[type |-> "PEERSTATE", timestamp |-> entry.time,
     peer_address |-> entry.peer.address, peer_asnumber |-> entry.peer.as,
     old_state |-> entry.old_state, new_state |-> entry.new_state]>>

\* The elems of an entry; other entries are an error, which leaves none.
Lines(rec) ==
  IF rec.entry.kind = "NULL" \/ rec.status # "VALID_RECORD" THEN <<>>
  ELSE CASE rec.entry.kind = "TABLE_DUMP" -> MrtdRoute(rec.entry)
         [] rec.entry.kind = "TABLE_DUMP_V2" -> DumpV2Prefix(rec.entry)
         [] rec.entry.kind = "UPDATE" -> Update(rec.entry)
         [] rec.entry.kind = "STATE_CHANGE" -> StateChange(rec.entry)
         [] OTHER -> <<>>

Populate(slots, rec) == FoldLeft(AddElem, [elems |-> slots, cnt |-> 0], Lines(rec))

-----------------------------------------------------------------------------

EmptyRecord == [status |-> "EMPTY_SOURCE", entry |-> [kind |-> "NULL"]]

Init ==
  /\ record = EmptyRecord
  /\ elems = <<>>
  /\ elems_cnt = NOT_POPULATED
  /\ iter = 0
  /\ given = <<>>
  /\ ended = FALSE

\* bgpstream_get_next_record clears the record, and the generator with it,
\* whether or not the user has seen all elems, and fills it again.
NextRecord(rec) ==
  /\ record' = rec
  /\ elems_cnt' = NOT_POPULATED
  /\ iter' = 0
  /\ given' = <<>>
  /\ ended' = FALSE
  /\ UNCHANGED elems

\* bgpstream_record_get_next_elem: elems that do not pass are skipped.
GetNextElem ==
  LET g == IF elems_cnt # NOT_POPULATED THEN [elems |-> elems, cnt |-> elems_cnt]
           ELSE Populate(elems, record)
      passing == {i \in (iter + 1)..g.cnt : Passes(g.elems[i])}
      next == CHOOSE i \in passing : \A j \in passing : i <= j
  IN  /\ elems' = g.elems
      /\ elems_cnt' = g.cnt
      /\ IF passing = {}
         THEN iter' = g.cnt /\ ended' = TRUE /\ UNCHANGED given
         ELSE iter' = next /\ given' = Append(given, g.elems[next]) /\ UNCHANGED ended
      /\ UNCHANGED record

Next == GetNextElem \/ \E rec \in Records : NextRecord(rec)

-----------------------------------------------------------------------------

\* What a record is assumed to be: its lists are lists.
IsList(s) == s \in Seq(Range(s))

HasLists(rec) ==
  /\ rec.entry.kind = "TABLE_DUMP_V2" => IsList(rec.entry.entries)
  /\ rec.entry.kind = "UPDATE" =>
       /\ IsList(rec.entry.withdraw) /\ IsList(rec.entry.announce)
       /\ \A afi \in {4, 6}, safi \in 1..3 :
            IsList(rec.entry.mp_withdraw[afi][safi]) /\ IsList(rec.entry.mp_announce[afi][safi])

\* The fields that some elems do not set, and what may be left in them.
AllLines == UNION {Range(Lines(rec)) : rec \in Records}

LeftIn(f) == {ElemCreate[f]} \cup {line[f] : line \in {l \in AllLines : f \in DOMAIN l}}

Leftovers ==
  [prefix : LeftIn("prefix"), nexthop : LeftIn("nexthop"),
   old_state : LeftIn("old_state"), new_state : LeftIn("new_state")]

\* What the filters are assumed to be: elem_check_filters looks at no field
\* that the elem did not set.
PassesSetFields ==
  \A line \in AllLines : \A old \in Leftovers :
    Passes(Set(Set(ElemCreate, old), line)) = Passes(Set(ElemCreate, line))

\* The fields that mean something for a type of elem.
Meaningful(elem) ==
  {"type", "timestamp", "peer_address", "peer_asnumber", "aspath", "communities"} \cup
    CASE elem.type = "WITHDRAWAL" -> {"prefix"}
      [] elem.type = "PEERSTATE" -> {"old_state", "new_state"}
      [] OTHER -> {"prefix", "nexthop"}

Shown(elem) == [f \in Meaningful(elem) |-> elem[f]]

\* The elems of the record in memory of their own.
Expected ==
  LET Add(passed, line) ==
        IF Passes(Set(ElemCreate, line)) THEN Append(passed, Set(ElemCreate, line)) ELSE passed
  IN  FoldLeft(Add, <<>>, Lines(record))

\* Whatever records went before, however many of their elems the user looked
\* at, and whatever was in the slots: the user gets the elems of this record
\* that pass, in their order and each once, and no path, community, address or
\* state of an elem of another record shows up in them.  After NULL there is
\* nothing more.
ElemsAreTheRecords ==
  /\ Len(given) <= Len(Expected)
  /\ \A i \in DOMAIN given : Shown(given[i]) = Shown(Expected[i])
  /\ ended => Len(given) = Len(Expected)

=============================================================================
