----------------------------- MODULE MCLibrary -----------------------------
(* Model checking of Library: the inputs of its parts.                     *)
EXTENDS Library, FiniteSets

MCParts == {"communities", "sets", "peers", "elems", "pacifier", "setup", "tool"}

MCHalves == {{}, {1}}
MCMembers == {<<4, 1>>, <<6, 1>>}
MCSigs == [collector : {"c1", "c2"}, addr : {1, 2}, asn : {1, 2}]

\* Records of every kind, with attributes that the next one has not.
Addr(n) == [version |-> 4, addr |-> n]
Peer(n) == [address |-> Addr(n), as |-> n]
Attr(path, communities, nexthop, mp_nexthop) ==
  [aspath |-> path, communities |-> communities, nexthop |-> nexthop, mp_nexthop |-> mp_nexthop]
Valid(entry) == [status |-> "VALID_RECORD", entry |-> entry]
NoMp == [afi \in {4, 6} |-> <<<<>>, <<>>, <<>>>>]
MCRecords ==
  {[status |-> "EMPTY_SOURCE", entry |-> [kind |-> "NULL"]],
   [status |-> "CORRUPTED_RECORD", entry |-> [kind |-> "NULL"]],
   Valid([kind |-> "OTHER"]),
   Valid([kind |-> "TABLE_DUMP", time |-> 1, peer |-> Peer(1), prefix |-> Addr(5),
          attr |-> Attr(<<1, 2>>, <<7>>, 3, 0)]),
   Valid([kind |-> "TABLE_DUMP_V2", time |-> 2, prefix |-> Addr(6),
          entries |-> <<[peer |-> Peer(1), attr |-> <<Attr(<<1>>, <<>>, 3, 9)>>],
                        [peer |-> Peer(2), attr |-> <<>>],
                        [peer |-> Peer(2), attr |-> <<Attr(<<2>>, <<8>>, 3, 0)>>]>>]),
   Valid([kind |-> "STATE_CHANGE", time |-> 3, peer |-> Peer(2), old_state |-> 1,
          new_state |-> 2]),
   Valid([kind |-> "UPDATE", time |-> 4, peer |-> Peer(1), withdraw |-> <<5>>,
          announce |-> <<6, 7>>, mp_withdraw |-> NoMp, mp_announce |-> NoMp,
          attr |-> Attr(<<1, 3>>, <<7>>, 4, 0)]),
   Valid([kind |-> "UPDATE", time |-> 5, peer |-> Peer(2), withdraw |-> <<>>,
          announce |-> <<>>,
          mp_withdraw |-> [NoMp EXCEPT ![6] = <<<<8>>, <<>>, <<9>>>>, ![4] = <<<<5>>, <<4>>, <<>>>>],
          mp_announce |-> [NoMp EXCEPT ![6] = <<<<7>>, <<6>>, <<5>>>>, ![4] = <<<<3>>, <<>>, <<2>>>>],
          attr |-> Attr(<<2, 3>>, <<>>, 4, 5)])}
MCPasses(elem) == ~(elem.type = "RIB" /\ elem.peer_asnumber = 1)

\* Calls of every setter; 2 m is more than there has been, 3 m more than fits.
Recent(count, unit, islive) == [op |-> "recent", count |-> count, unit |-> unit, islive |-> islive]
Option(interface, id, value) == [op |-> "option", option |-> <<interface, id>>, value |-> value]
MCCalls ==
  {[op |-> "live"], [op |-> "rib_period", period |-> 3],
   [op |-> "interval", begin |-> 5, end |-> 6], [op |-> "interval", begin |-> 7, end |-> 6],
   [op |-> "interval", begin |-> 7, end |-> 0], Recent(1, "m", FALSE), Recent(1, "m", TRUE),
   Recent(2, "m", FALSE), Recent(3, "m", FALSE), Recent(1, "y", TRUE),
   Option("broker", 0, "a"), Option("broker", 1, "a"), Option("broker", 1, "b"),
   Option("csvfile", 0, "a"), Option("csvfile", 0, "b"), Option("sqlite", 0, "a"),
   Option("singlefile", 0, "a")}
    \cup {[op |-> "interface", interface |-> i] : i \in {"broker", "csvfile", "sqlite", "singlefile"}}

\* Windows of the tool, one from the epoch on and one without an end.
MCCmdWindows ==
  {[start |-> 0, end |-> 2], [start |-> 2, end |-> 3], [start |-> 3, end |-> 0]}

=============================================================================
