----------------------------- MODULE PeerSigMap -----------------------------
(***************************************************************************)
(* The map between peers and their ids,                                    *)
(* lib/utils/bgpstream_utils_peer_sig_map.c: two hash tables that share    *)
(* the signatures they point to.  A signature is the collector, the        *)
(* address and the ASN of a peer; the ASN is not compared.                 *)
(***************************************************************************)
EXTENDS Integers, FiniteSets, Functions

CONSTANTS
  Sigs,          \* signatures: [collector, addr, asn]
  PEER_IDS,      \* number of values of a peer id, UINT16_MAX + 1
  MaxIds         \* bound: ids given out

VARIABLES
  ps_id,         \* signature to id
  id_ps,         \* id to signature
  next_id,       \* v6_next_id; v4_next_id is 1 and never used
  sigs,          \* signatures allocated and not freed
  given,         \* ids returned since the map was cleared: [key, id]
  reused         \* an id was given to a second peer

peersig_vars == <<ps_id, id_ps, next_id, sigs, given, reused>>

IPV6_ID_OFFSET == 1

\* kh_put, of one of the tables.
KhPut(table, key, val) ==
  [k \in DOMAIN table \cup {key} |-> IF k = key THEN val ELSE table[k]]

Init ==
  /\ ps_id = <<>>
  /\ id_ps = <<>>
  /\ next_id = IPV6_ID_OFFSET
  /\ sigs = {}
  /\ given = {}
  /\ reused = FALSE

\* peer_sig_equal: the same collector and address.
Key(ps) == [collector |-> ps.collector, addr |-> ps.addr]

\* Mutant of Known: peers are told apart by their ASN too.
KnownWithAsn(ps) == {ps} \cap DOMAIN ps_id

Known(ps) == {q \in DOMAIN ps_id : Key(q) = Key(ps)}

\* get_id and set_and_get_ps: a new signature gets the next id, whatever its
\* version; the one of a known peer is freed.
GetId(ps) ==
  IF Known(ps) # {}
  THEN /\ given' = given \cup {[key |-> Key(ps), id |-> ps_id[CHOOSE q \in Known(ps) : TRUE]]}
       /\ UNCHANGED <<ps_id, id_ps, next_id, sigs, reused>>
  ELSE /\ next_id < MaxIds
       /\ ps_id' = KhPut(ps_id, ps, next_id % PEER_IDS)
       /\ id_ps' = KhPut(id_ps, next_id % PEER_IDS, ps)
       /\ next_id' = next_id + 1
       /\ sigs' = sigs \cup {ps}
       /\ given' = given \cup {[key |-> Key(ps), id |-> next_id % PEER_IDS]}
       /\ reused' = (reused \/ next_id % PEER_IDS \in DOMAIN id_ps)

GetSig(id) == IF id \in DOMAIN id_ps THEN {id_ps[id]} ELSE {}

\* clear frees the signatures of one table; the ids go on.
Clear ==
  /\ sigs' = sigs \ Range(id_ps)
  /\ ps_id' = <<>>
  /\ id_ps' = <<>>
  /\ given' = {}
  /\ UNCHANGED <<next_id, reused>>

Next == (\E ps \in Sigs : GetId(ps)) \/ Clear

-----------------------------------------------------------------------------

\* Until more peers are known at a time than there are ids, an id leads back
\* to the peer it was given for and to no other, a peer keeps its id whatever
\* ASN it shows, both tables have the size get_size asserts, and the signatures
\* they share are freed once.
IdsNamePeers ==
  \/ reused
  \/ /\ \A g \in given : \E ps \in GetSig(g.id) : Key(ps) = g.key
     /\ \A g, h \in given : (g.id = h.id) = (g.key = h.key)
     /\ Cardinality(DOMAIN ps_id) = Cardinality(DOMAIN id_ps)
     /\ sigs = Range(id_ps)

=============================================================================
