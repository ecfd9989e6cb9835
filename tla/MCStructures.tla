---------------------------- MODULE MCStructures ----------------------------
(* Model checking of Structures: the inputs of its parts.                  *)
EXTENDS Structures, FiniteSets

MCParts ==
  {"tree", "filter", "asmonitor", "paths", "counter", "pfxmonitor", "parser"}

\* A prefix of MAXBITS bits; what follows len is 0 unless given.
Pfx(v, len, bits) ==
  [version |-> v, len |-> len, addr |-> bits \o [i \in 1..(MAXBITS - Len(bits)) |-> 0],
   allowed |-> 0]

\* Nested and disjoint prefixes, some with bits behind their length, and halves
\* of the IPv6 addresses, whose subnets are as many as a count has bits for.
MCPfxs ==
  {Pfx(4, 0, <<>>), Pfx(4, 2, <<0, 0>>), Pfx(4, 2, <<0, 1, 1>>),
   Pfx(4, 3, <<1, 1, 1>>), Pfx(6, 0, <<>>), Pfx(6, 1, <<0>>), Pfx(6, 1, <<1>>)}
MCOther == <<Pfx(4, 2, <<0, 1>>), Pfx(4, 3, <<1, 0, 1>>), Pfx(4, 3, <<0, 1, 1>>)>>
MCUsers == {<<1>>, <<2>>}

\* Filters of every kind, and elems that they tell apart.
MCFilters ==
  [type : {"PREFIX_MORE", "PREFIX_LESS", "PREFIX_EXACT"},
   value : {Pfx(4, 1, <<>>), Pfx(4, 3, <<>>), Pfx(4, 3, <<0, 1>>)}]
    \cup {[type |-> "PREFIX_ANY", value |-> Pfx(4, 2, <<>>)],
          [type |-> "PREFIX_MORE", value |-> Pfx(6, 1, <<>>)],
          [type |-> "ASPATH", value |-> [negate |-> TRUE, asn |-> 2]],
          [type |-> "ASPATH", value |-> [negate |-> FALSE, asn |-> 1]],
          [type |-> "PEER_ASN", value |-> 1]}
    \cup [type : {"ELEM_TYPE"}, value : {"ribs", "withdrawals", "x"}]
    \cup [type : {"COMMUNITY"}, value : {[asn |-> 1, value |-> v] : v \in -1..2} \cup {[asn |-> -2, value |-> -2]}]
    \cup [type : {"IP_VERSION"}, value : {4, 6}]
    \cup {[type |-> "PROJECT", value |-> "ris"], [type |-> "COLLECTOR", value |-> "rrc"],
          [type |-> "RECORD_TYPE", value |-> "ribs"]}

Elem(type, peer, pfx, path, communities) ==
  [type |-> type, peer_asnumber |-> peer, prefix |-> pfx, aspath |-> path,
   communities |-> communities]
C10 == [asn |-> {0}, value |-> {}]
C12 == [asn |-> {0}, value |-> {1}]
MCElems ==
  {Elem("RIB", 1, Pfx(4, 1, <<>>), <<1>>, <<C10>>),
   Elem("ANNOUNCEMENT", 1, Pfx(4, 2, <<>>), <<1, 2>>, <<C12>>),
   Elem("ANNOUNCEMENT", 2, Pfx(4, 3, <<>>), <<>>, <<>>),
   Elem("WITHDRAWAL", 1, Pfx(4, 2, <<>>), <<>>, <<>>),
   Elem("PEERSTATE", 1, Pfx(4, 0, <<>>), <<>>, <<>>),
   Elem("RIB", 2, Pfx(6, 1, <<>>), <<2>>, <<C12, C10>>),
   Elem("RIB", 1, Pfx(4, 3, <<0, 0, 1>>), <<1>>, <<>>)}

\* Elems as the monitors get them.
Route(type, pfx, peer, path) == [type |-> type, pfx |-> pfx, peer |-> peer, path |-> path]

\* Records about a prefix and the halves of it; AS 1 is monitored, 0 is a set.
MCRecords ==
  LET whole == Pfx(4, 1, <<1>>)
      low == Pfx(4, 2, <<1, 0>>)
      high == Pfx(4, 2, <<1, 1>>)
  IN  {<<Route("A", low, 1, <<1>>)>>, <<Route("A", high, 1, <<1>>)>>,
       <<Route("A", whole, 1, <<2>>)>>,
       <<Route("W", whole, 1, <<>>), Route("W", low, 1, <<>>)>>,
       <<Route("R", low, 1, <<1, 0>>), Route("R", low, 2, <<1>>)>>,
       <<Route("S", low, 1, <<>>), Route("A", high, 2, <<>>),
         Route("A", Pfx(6, 1, <<1>>), 2, <<1>>)>>}

Seg(type, asns) == [type |-> type, asns |-> asns, cut |-> FALSE]
MCBdPaths ==
  {<<Seg("AS_SEQUENCE", <<1, 2>>)>>, <<Seg("AS_SEQUENCE", <<1, 1, 2>>)>>,
   <<Seg("AS_SEQUENCE", <<3, 2>>), Seg("AS_SET", <<2, 3>>)>>,
   <<Seg("AS_SEQUENCE", <<1, 3>>), Seg("AS_CONFED_SEQUENCE", <<2>>),
     [Seg("AS_SEQUENCE", <<2>>) EXCEPT !.cut = TRUE]>>,
   <<Seg("AS_SEQUENCE", <<>>), Seg("other", <<2>>)>>}

Net(v, addr, len) == [version |-> v, addr |-> addr, len |-> len]
MCNets ==
  {Net(4, a, l) : a \in {0, 2, 5}, l \in 0..3} \cup {Net(6, a, l) : a \in {1, 6, 12}, l \in 0..4}

\* Monitored prefixes, next to each other and nested, a /0, a /64 and a longer
\* one.  Of the IPv6 elems one lies within the /64 and is missed, one next to
\* the longer prefix, in its /64, and is counted.
MCInterest == {Net(4, 0, 0), Net(4, 4, 2), Net(4, 6, 2), Net(6, 4, 2), Net(6, 8, 3)}
MCPfxElems ==
  {Route("A", Net(4, 4, 3), 1, <<1>>), Route("R", Net(4, 4, 3), 2, <<2, 1>>),
   Route("A", Net(4, 4, 3), 1, <<2>>), Route("W", Net(4, 4, 3), 1, <<>>),
   Route("A", Net(4, 4, 3), 2, <<1, 0>>), Route("A", Net(4, 4, 1), 1, <<1>>),
   Route("W", Net(4, 4, 1), 1, <<>>), Route("R", Net(4, 4, 1), 2, <<>>),
   Route("S", Net(4, 4, 1), 2, <<>>),
   Route("A", Net(4, 0, 0), 1, <<1>>), Route("A", Net(6, 6, 3), 1, <<1>>),
   Route("A", Net(6, 10, 3), 1, <<3>>), Route("A", Net(6, 4, 1), 1, <<1>>)}

\* Words without a quote, with one in front, behind, alone and in the middle,
\* and with two: within a quoted value each of these quotes ends it.
MCWords ==
  {<<w>> : w \in {"prefix", "peer", "extc", "exact", "and", "x"}}
    \cup {<<"quote", "x">>, <<"y", "quote">>, <<"quote">>, <<"x", "quote", "y">>,
          <<"quote", "y", "quote">>}

=============================================================================
