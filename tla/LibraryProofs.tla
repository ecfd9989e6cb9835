--------------------------- MODULE LibraryProofs ---------------------------
(***************************************************************************)
(* Proofs about parts of the library that one caller uses: the map of      *)
(* peers, the sets of communities, the pacifier, the program bgpcorsaro    *)
(* and the setting up of a stream, for any number of peers, communities,   *)
(* records and calls.                                                      *)
(***************************************************************************)
EXTENDS Library, QueueLemmas, FiniteSetTheorems

-----------------------------------------------------------------------------
(* The map of peers                                                        *)

\* The two tables are inverse to one another, and know a peer once.
TablesAreInverse ==
  /\ \A q \in DOMAIN ps_id : ps_id[q] \in DOMAIN id_ps /\ id_ps[ps_id[q]] = q
  /\ \A i \in DOMAIN id_ps : id_ps[i] \in DOMAIN ps_id /\ ps_id[id_ps[i]] = i
  /\ \A q, r \in DOMAIN ps_id : P!Key(q) = P!Key(r) => q = r

TablesAreEqual ==
  /\ IsFiniteSet(DOMAIN ps_id) /\ IsFiniteSet(DOMAIN id_ps)
  /\ Cardinality(DOMAIN ps_id) = Cardinality(DOMAIN id_ps)

\* What was returned is what the table of the signatures says.
GivenIsStored ==
  \A g \in ids_given : \E q \in DOMAIN ps_id : g = [key |-> P!Key(q), id |-> ps_id[q]]

PeersInv ==
  part = "peers" /\ ~reused =>
    /\ TablesAreInverse
    /\ TablesAreEqual
    /\ GivenIsStored
    /\ sigs = {id_ps[i] : i \in DOMAIN id_ps}

\* The invariant says that an id leads back to its peer.
LEMMA PeersInvEnough == PeersInv => IdsNamePeers
<1> SUFFICES ASSUME PeersInv, part = "peers", ~reused PROVE P!IdsNamePeers
  BY DEF IdsNamePeers, P!IdsNamePeers
<1>1. TablesAreInverse /\ TablesAreEqual /\ GivenIsStored
  BY DEF PeersInv
<1>2. \A g \in ids_given : \E ps \in P!GetSig(g.id) : P!Key(ps) = g.key
  <2> TAKE g \in ids_given
  <2>1. PICK q \in DOMAIN ps_id : g = [key |-> P!Key(q), id |-> ps_id[q]]
    BY <1>1 DEF GivenIsStored
  <2>2. g.id = ps_id[q] /\ g.key = P!Key(q)
    BY <2>1
  <2>3. q \in P!GetSig(g.id)
    BY <1>1, <2>2 DEF TablesAreInverse, P!GetSig
  <2> QED
    BY <2>2, <2>3
<1>3. \A g, h \in ids_given : (g.id = h.id) = (g.key = h.key)
  <2> TAKE g, h \in ids_given
  <2>1. PICK q \in DOMAIN ps_id : g = [key |-> P!Key(q), id |-> ps_id[q]]
    BY <1>1 DEF GivenIsStored
  <2>2. PICK r \in DOMAIN ps_id : h = [key |-> P!Key(r), id |-> ps_id[r]]
    BY <1>1 DEF GivenIsStored
  <2>3. g.id = ps_id[q] /\ g.key = P!Key(q) /\ h.id = ps_id[r] /\ h.key = P!Key(r)
    BY <2>1, <2>2
  <2>4. (ps_id[q] = ps_id[r]) => q = r
    BY <1>1 DEF TablesAreInverse
  <2>5. (P!Key(q) = P!Key(r)) => q = r
    BY <1>1 DEF TablesAreInverse
  <2> QED
    BY <2>3, <2>4, <2>5
<1>4. P!Cardinality(DOMAIN ps_id) = P!Cardinality(DOMAIN id_ps)
  BY <1>1 DEF TablesAreEqual, Cardinality, P!Cardinality, IsFiniteSet, P!IsFiniteSet
<1>5. sigs = P!Range(id_ps)
  BY DEF PeersInv, P!Range
<1> QED
  BY <1>2, <1>3, <1>4, <1>5 DEF P!IdsNamePeers

\* get_id of a peer that is not known, while its id is free.
LEMMA NewPeer ==
  ASSUME NEW ps, PeersInv, part = "peers", ~reused,
         P!Known(ps) = {}, P!GetId(ps), ~reused'
  PROVE  TablesAreInverse' /\ TablesAreEqual' /\ GivenIsStored'
         /\ (sigs = {id_ps[i] : i \in DOMAIN id_ps})'
<1> DEFINE id == next_id % PEER_IDS
           D == DOMAIN ps_id
           E0 == DOMAIN id_ps
<1>1. TablesAreInverse /\ TablesAreEqual /\ GivenIsStored
      /\ sigs = {id_ps[i] : i \in E0}
  BY DEF PeersInv
<1>2. /\ ps_id' = [k \in D \cup {ps} |-> IF k = ps THEN id ELSE ps_id[k]]
      /\ id_ps' = [k \in E0 \cup {id} |-> IF k = id THEN ps ELSE id_ps[k]]
      /\ sigs' = sigs \cup {ps}
      /\ ids_given' = ids_given \cup {[key |-> P!Key(ps), id |-> id]}
      /\ reused' = (reused \/ id \in E0)
  BY DEF P!GetId, P!KhPut
<1>3. id \notin E0
  BY <1>2
<1>4. \A q \in D : P!Key(q) # P!Key(ps)
  BY DEF P!Known
<1>5. ps \notin D
  BY <1>4
<1> HIDE DEF id
<1>6. /\ DOMAIN ps_id' = D \cup {ps} /\ ps_id'[ps] = id
      /\ \A q \in D : ps_id'[q] = ps_id[q]
  BY <1>2, <1>5
<1>7. /\ DOMAIN id_ps' = E0 \cup {id} /\ id_ps'[id] = ps
      /\ \A i \in E0 : id_ps'[i] = id_ps[i]
  BY <1>2, <1>3
<1> HIDE DEF D, E0
<1>8. /\ \A q \in D : ps_id[q] \in E0 /\ id_ps[ps_id[q]] = q
      /\ \A i \in E0 : id_ps[i] \in D /\ ps_id[id_ps[i]] = i
      /\ \A q, r \in D : P!Key(q) = P!Key(r) => q = r
  BY <1>1 DEF TablesAreInverse, D, E0
<1>9. TablesAreInverse'
  <2>1. \A q \in DOMAIN ps_id' : ps_id'[q] \in DOMAIN id_ps' /\ id_ps'[ps_id'[q]] = q
    BY <1>6, <1>7, <1>8
  <2>2. \A i \in DOMAIN id_ps' : id_ps'[i] \in DOMAIN ps_id' /\ ps_id'[id_ps'[i]] = i
    BY <1>6, <1>7, <1>8
  <2>3. \A q, r \in DOMAIN ps_id' : P!Key(q) = P!Key(r) => q = r
    BY <1>4, <1>6, <1>8
  <2> QED
    BY <2>1, <2>2, <2>3 DEF TablesAreInverse
<1>10. TablesAreEqual'
  <2>1. IsFiniteSet(D) /\ IsFiniteSet(E0) /\ Cardinality(D) = Cardinality(E0)
    BY <1>1 DEF TablesAreEqual, D, E0
  <2>2. /\ IsFiniteSet(D \cup {ps}) /\ Cardinality(D \cup {ps}) = Cardinality(D) + 1
        /\ IsFiniteSet(E0 \cup {id}) /\ Cardinality(E0 \cup {id}) = Cardinality(E0) + 1
    BY <1>3, <1>5, <2>1, FS_AddElement DEF D, E0
  <2> QED
    BY <1>6, <1>7, <2>1, <2>2 DEF TablesAreEqual
<1>11. GivenIsStored'
  <2> SUFFICES ASSUME NEW g \in ids_given'
               PROVE  \E q \in DOMAIN ps_id' : g = [key |-> P!Key(q), id |-> ps_id'[q]]
    BY DEF GivenIsStored
  <2>1. CASE g \in ids_given
    <3>1. PICK q \in D : g = [key |-> P!Key(q), id |-> ps_id[q]]
      BY <1>1, <2>1 DEF GivenIsStored, D
    <3> QED
      BY <1>6, <3>1
  <2>2. CASE g = [key |-> P!Key(ps), id |-> id]
    BY <1>6, <2>2
  <2> QED
    BY <1>2, <2>1, <2>2
<1>12. sigs' = {id_ps'[i] : i \in DOMAIN id_ps'}
  <2>1. {id_ps'[i] : i \in E0 \cup {id}} = {id_ps[i] : i \in E0} \cup {ps}
    BY <1>7
  <2> QED
    BY <1>1, <1>2, <1>7, <2>1
<1> QED
  BY <1>9, <1>10, <1>11, <1>12

\* get_id and clear keep the invariant.
LEMMA PeersStep == PeersInv /\ P!Next /\ part' = part => PeersInv'
<1> SUFFICES ASSUME PeersInv, P!Next, part' = part, part = "peers", ~reused'
             PROVE  TablesAreInverse' /\ TablesAreEqual' /\ GivenIsStored'
                    /\ (sigs = {id_ps[i] : i \in DOMAIN id_ps})'
  BY DEF PeersInv
<1>1. CASE P!Clear
  <2>1. reused' = reused /\ ps_id' = <<>> /\ id_ps' = <<>> /\ ids_given' = {}
        /\ sigs' = sigs \ P!Range(id_ps)
    BY <1>1 DEF P!Clear
  <2>2. DOMAIN ps_id' = {} /\ DOMAIN id_ps' = {}
    BY <2>1
  <2>3. sigs' = {}
    BY <2>1 DEF PeersInv, P!Range
  <2>4. TablesAreEqual'
    BY <2>2, FS_EmptySet DEF TablesAreEqual
  <2>5. sigs' = {id_ps'[i] : i \in DOMAIN id_ps'}
    BY <2>2, <2>3
  <2> QED
    BY <2>1, <2>2, <2>4, <2>5 DEF TablesAreInverse, GivenIsStored
<1>2. ASSUME NEW ps \in Sigs, P!GetId(ps)
      PROVE  TablesAreInverse' /\ TablesAreEqual' /\ GivenIsStored'
             /\ (sigs = {id_ps[i] : i \in DOMAIN id_ps})'
  <2>1. CASE P!Known(ps) = {}
    <3>1. reused' = (reused \/ next_id % PEER_IDS \in DOMAIN id_ps)
      BY <1>2, <2>1 DEF P!GetId
    <3>2. ~reused
      BY <3>1
    <3> QED
      BY <1>2, <2>1, <3>2, NewPeer
  <2>2. CASE P!Known(ps) # {}
    <3> DEFINE q == CHOOSE r \in P!Known(ps) : TRUE
    <3>1. /\ ids_given' = ids_given \cup {[key |-> P!Key(ps), id |-> ps_id[q]]}
          /\ ps_id' = ps_id /\ id_ps' = id_ps /\ sigs' = sigs /\ reused' = reused
      BY <1>2, <2>2 DEF P!GetId
    <3>2. q \in DOMAIN ps_id /\ P!Key(q) = P!Key(ps)
      BY <2>2 DEF P!Known
    <3> HIDE DEF q
    <3>3. TablesAreInverse /\ TablesAreEqual /\ GivenIsStored
          /\ sigs = {id_ps[i] : i \in DOMAIN id_ps}
      BY <3>1 DEF PeersInv
    <3>4. GivenIsStored'
      BY <3>1, <3>2, <3>3 DEF GivenIsStored
    <3> QED
      BY <3>1, <3>3, <3>4 DEF TablesAreInverse, TablesAreEqual
  <2> QED
    BY <2>1, <2>2
<1> QED
  BY <1>1, <1>2 DEF P!Next

\* An id of a peer, once it was given out, leads back to that peer and to no
\* other until ids wrap around (bgpstream_peer_sig_map_get_id and get_sig), for
\* any set of peers and any number of ids.
THEOREM PeerIdsLeadBack == Spec => []IdsNamePeers
<1>1. Init => PeersInv
  <2> SUFFICES ASSUME Init PROVE PeersInv
    OBVIOUS
  <2>1. ps_id = <<>> /\ id_ps = <<>> /\ sigs = {} /\ ids_given = {}
    BY DEF Init, P!Init
  <2>2. DOMAIN ps_id = {} /\ DOMAIN id_ps = {}
    BY <2>1
  <2> QED
    BY <2>1, <2>2, FS_EmptySet
       DEF PeersInv, TablesAreInverse, TablesAreEqual, GivenIsStored
<1>2. PeersInv /\ [Next]_vars => PeersInv'
  <2> SUFFICES ASSUME PeersInv, [Next]_vars, part = "peers" \/ part' = "peers" PROVE PeersInv'
    BY DEF PeersInv
  <2>1. CASE P!Next /\ part' = part
    BY <2>1, PeersStep
  <2>2. CASE UNCHANGED vars
    BY <2>2 DEF vars, peersig_vars, PeersInv, TablesAreInverse, TablesAreEqual, GivenIsStored
  <2>3. part' = part
    BY DEF Next, Rest, vars
  <2> QED
    BY <2>1, <2>2, <2>3 DEF Next
<1> QED
  BY <1>1, <1>2, PeersInvEnough, PTL DEF Spec

-----------------------------------------------------------------------------
(* The sets of communities                                                 *)

\* Communities, and their OR.
Hashes == [asn : SUBSET UNION Halves, value : SUBSET UNION Halves]
CommunitySet == [array : Seq(C!Communities), alloc : Nat, hash : Hashes]

\* The array is what should be in the set, the hash is that of the array, and
\* there is room.
IsSetOf(set, array) ==
  /\ set \in CommunitySet
  /\ array \in Seq(C!Communities)
  /\ set.array = array
  /\ set.hash = C!OrAll(array)
  /\ Len(array) <= set.alloc

MatchInv ==
  part = "communities" =>
    /\ DOMAIN comms = C!Sets /\ DOMAIN comms_meant = C!Sets
    /\ \A s \in C!Sets : IsSetOf(comms[s], comms_meant[s])

\* A half that agrees and is not 0 has a bit in common with the hash.
LEMMA MatchInvEnough == MatchInv => MatchIsRight
<1> SUFFICES ASSUME MatchInv, part = "communities", NEW s \in C!Sets
             PROVE  /\ Len(comms[s].array) <= comms[s].alloc
                    /\ \A c \in C!Communities, mask \in SUBSET C!FILTER_EXACT :
                         LET held == \E i \in DOMAIN comms_meant[s] :
                                       C!Agrees(comms_meant[s][i], c, mask)
                         IN  /\ C!SetMatch(comms[s], c, mask) => held
                             /\ held /\ (\A half \in mask : c[half] # {})
                                  => C!SetMatch(comms[s], c, mask)
  BY DEF MatchIsRight, C!MatchIsRight
<1> DEFINE m == comms_meant[s]
<1>1. IsSetOf(comms[s], m)
  BY DEF MatchInv
<1> HIDE DEF m
<1>2. Len(comms[s].array) <= comms[s].alloc
  BY <1>1 DEF IsSetOf, CommunitySet
<1>3. ASSUME NEW c \in C!Communities, NEW mask \in SUBSET C!FILTER_EXACT
      PROVE  C!SetMatch(comms[s], c, mask)
               <=> /\ \E i \in DOMAIN m : C!Agrees(m[i], c, mask)
                   /\ \A half \in mask : c[half] # {}
  <2> DEFINE a == "asn" \in mask
             v == "value" \in mask
  <2>1. /\ comms[s].array = m
        /\ comms[s].hash.asn = UNION {m[i].asn : i \in DOMAIN m}
        /\ comms[s].hash.value = UNION {m[i].value : i \in DOMAIN m}
    BY <1>1 DEF IsSetOf, C!OrAll
  <2>2. \A half : half \in mask <=> (a /\ half = "asn") \/ (v /\ half = "value")
    BY DEF C!FILTER_EXACT
  <2>3. (\A half \in mask : c[half] # {}) <=> (a => c.asn # {}) /\ (v => c.value # {})
    BY <2>2
  <2>4. \A i \in DOMAIN m : C!Agrees(m[i], c, mask)
                              <=> (a => m[i].asn = c.asn) /\ (v => m[i].value = c.value)
    BY <2>2 DEF C!Agrees
  <2>5. C!SetMatch(comms[s], c, mask) <=>
          /\ a => comms[s].hash.asn \cap c.asn # {}
          /\ v => comms[s].hash.value \cap c.value # {}
          /\ \E i \in DOMAIN m : (a => m[i].asn = c.asn) /\ (v => m[i].value = c.value)
    BY <2>1 DEF C!SetMatch, C!HashCompatible
  <2> HIDE DEF a, v
  <2>6. ASSUME NEW i \in DOMAIN m
        PROVE  m[i].asn \subseteq comms[s].hash.asn /\ m[i].value \subseteq comms[s].hash.value
    BY <2>1
  <2>7. ASSUME NEW i \in DOMAIN m, a => m[i].asn = c.asn, v => m[i].value = c.value,
               a => c.asn # {}, v => c.value # {}
        PROVE  /\ a => comms[s].hash.asn \cap c.asn # {}
               /\ v => comms[s].hash.value \cap c.value # {}
    BY <2>6, <2>7
  <2>8. /\ comms[s].hash.asn \cap c.asn # {} => c.asn # {}
        /\ comms[s].hash.value \cap c.value # {} => c.value # {}
    OBVIOUS
  <2> QED
    BY <2>3, <2>4, <2>5, <2>7, <2>8
<1> QED
  BY <1>2, <1>3 DEF m

LEMMA EmptyHash == C!OrAll(<<>>) = C!NoBits
  BY DEF C!OrAll, C!NoBits

\* insert ORs the community into the hash.
LEMMA InsertHash ==
  ASSUME NEW m \in Seq(C!Communities), NEW c \in C!Communities
  PROVE  C!OrAll(Append(m, c)) = C!Or(C!OrAll(m), c)
<1> DEFINE n == Append(m, c)
<1>1. /\ n \in Seq(C!Communities) /\ Len(m) \in Nat /\ Len(n) = Len(m) + 1
      /\ DOMAIN m = 1..Len(m) /\ DOMAIN n = 1..(Len(m) + 1)
  OBVIOUS
<1>2. n[Len(m) + 1] = c /\ \A i \in 1..Len(m) : n[i] = m[i]
  OBVIOUS
<1> HIDE DEF n
<1>3. UNION {n[i].asn : i \in DOMAIN n} = (UNION {m[i].asn : i \in DOMAIN m}) \cup c.asn
  <2>1. ASSUME NEW i \in DOMAIN n, NEW x \in n[i].asn
        PROVE  x \in c.asn \/ \E j \in DOMAIN m : x \in m[j].asn
    <3>1. CASE i = Len(m) + 1
      BY <1>2, <2>1, <3>1
    <3>2. CASE i \in 1..Len(m)
      BY <1>1, <1>2, <2>1, <3>2
    <3> QED
      BY <1>1, <3>1, <3>2
  <2>2. ASSUME NEW j \in DOMAIN m, NEW x \in m[j].asn
        PROVE  \E i \in DOMAIN n : x \in n[i].asn
    <3>1. j \in DOMAIN n /\ n[j] = m[j]
      BY <1>1, <1>2
    <3> QED
      BY <2>2, <3>1
  <2>3. ASSUME NEW x \in c.asn
        PROVE  \E i \in DOMAIN n : x \in n[i].asn
    <3>1. Len(m) + 1 \in DOMAIN n
      BY <1>1
    <3> QED
      BY <1>2, <2>3, <3>1
  <2>4. \A x : x \in UNION {n[i].asn : i \in DOMAIN n} <=> \E i \in DOMAIN n : x \in n[i].asn
    OBVIOUS
  <2>5. \A x : x \in UNION {m[i].asn : i \in DOMAIN m} <=> \E i \in DOMAIN m : x \in m[i].asn
    OBVIOUS
  <2> DEFINE U == UNION {n[i].asn : i \in DOMAIN n}
             V == UNION {m[i].asn : i \in DOMAIN m}
  <2> HIDE DEF U, V
  <2>6. U = V \cup c.asn
    BY <2>1, <2>2, <2>3, <2>4, <2>5 DEF U, V
  <2> QED
    BY <2>6 DEF U, V
<1>4. UNION {n[i].value : i \in DOMAIN n} = (UNION {m[i].value : i \in DOMAIN m}) \cup c.value
  <2>1. ASSUME NEW i \in DOMAIN n, NEW x \in n[i].value
        PROVE  x \in c.value \/ \E j \in DOMAIN m : x \in m[j].value
    <3>1. CASE i = Len(m) + 1
      BY <1>2, <2>1, <3>1
    <3>2. CASE i \in 1..Len(m)
      BY <1>1, <1>2, <2>1, <3>2
    <3> QED
      BY <1>1, <3>1, <3>2
  <2>2. ASSUME NEW j \in DOMAIN m, NEW x \in m[j].value
        PROVE  \E i \in DOMAIN n : x \in n[i].value
    <3>1. j \in DOMAIN n /\ n[j] = m[j]
      BY <1>1, <1>2
    <3> QED
      BY <2>2, <3>1
  <2>3. ASSUME NEW x \in c.value
        PROVE  \E i \in DOMAIN n : x \in n[i].value
    <3>1. Len(m) + 1 \in DOMAIN n
      BY <1>1
    <3> QED
      BY <1>2, <2>3, <3>1
  <2>4. \A x : x \in UNION {n[i].value : i \in DOMAIN n} <=> \E i \in DOMAIN n : x \in n[i].value
    OBVIOUS
  <2>5. \A x : x \in UNION {m[i].value : i \in DOMAIN m} <=> \E i \in DOMAIN m : x \in m[i].value
    OBVIOUS
  <2> DEFINE U == UNION {n[i].value : i \in DOMAIN n}
             V == UNION {m[i].value : i \in DOMAIN m}
  <2> HIDE DEF U, V
  <2>6. U = V \cup c.value
    BY <2>1, <2>2, <2>3, <2>4, <2>5 DEF U, V
  <2> QED
    BY <2>6 DEF U, V
<1>5. C!OrAll(n) = [asn |-> (UNION {m[i].asn : i \in DOMAIN m}) \cup c.asn,
                     value |-> (UNION {m[i].value : i \in DOMAIN m}) \cup c.value]
  BY <1>3, <1>4 DEF C!OrAll
<1>6. C!OrAll(m).asn = UNION {m[i].asn : i \in DOMAIN m}
      /\ C!OrAll(m).value = UNION {m[i].value : i \in DOMAIN m}
  BY DEF C!OrAll
<1>7. C!Or(C!OrAll(m), c) = [asn |-> C!OrAll(m).asn \cup c.asn,
                             value |-> C!OrAll(m).value \cup c.value]
  BY DEF C!Or
<1> QED
  BY <1>5, <1>6, <1>7 DEF n

\* The hash is one.
LEMMA OrAllType ==
  ASSUME NEW array \in Seq(C!Communities)
  PROVE  C!OrAll(array) \in Hashes
<1>0. \A i \in DOMAIN array : array[i] \in C!Communities
  OBVIOUS
<1>1. \A i \in DOMAIN array : array[i] \in [asn : Halves, value : Halves]
  BY <1>0 DEF C!Communities
<1>2. UNION {array[i].asn : i \in DOMAIN array} \subseteq UNION Halves
  <2>1. \A i \in DOMAIN array : array[i].asn \in Halves
    BY <1>1
  <2> QED
    BY <2>1
<1>3. UNION {array[i].value : i \in DOMAIN array} \subseteq UNION Halves
  <2>1. \A i \in DOMAIN array : array[i].value \in Halves
    BY <1>1
  <2> QED
    BY <2>1
<1> QED
  BY <1>2, <1>3 DEF C!OrAll, Hashes

\* Room for n communities leaves the rest of a set alone.
LEMMA RoomIsRoom ==
  ASSUME NEW set \in CommunitySet, NEW n \in Nat
  PROVE  /\ C!Room(set, n) \in CommunitySet
         /\ n <= C!Room(set, n).alloc
  BY DEF C!Room, CommunitySet

\* A set that is filled anew, with room for it.
LEMMA FilledIsSet ==
  ASSUME NEW set \in CommunitySet, NEW array \in Seq(C!Communities), Len(array) <= set.alloc
  PROVE  IsSetOf([set EXCEPT !.array = array, !.hash = C!OrAll(array)], array)
<1>1. C!OrAll(array) \in Hashes
  BY OrAllType
<1>2. PICK h \in Hashes : h = C!OrAll(array)
  BY <1>1
<1>3. [set EXCEPT !.array = array, !.hash = h] \in CommunitySet
  BY DEF CommunitySet
<1> QED
  BY <1>2, <1>3 DEF IsSetOf, CommunitySet

\* The operations on a set: what was in it does not matter.
LEMMA OperationsKeepSets ==
  ASSUME NEW set, NEW old, IsSetOf(set, old), NEW array \in Seq(C!Communities)
  PROVE  /\ IsSetOf(C!SetPopulate(set, array), array)
         /\ IsSetOf(C!SetPopulateFromArray(set, array), array)
         /\ IsSetOf(C!SetClear(set), <<>>)
         /\ \A src : IsSetOf(src, array) => IsSetOf(C!SetCopy(set, src), array)
         /\ \A c \in C!Communities : IsSetOf(C!SetInsert(set, c), Append(old, c))
<1> DEFINE n == Len(array)
<1>1. set \in CommunitySet /\ n \in Nat
  BY DEF IsSetOf
<1>2. C!Room(set, n) \in CommunitySet /\ n <= C!Room(set, n).alloc
  BY <1>1, RoomIsRoom
<1>3. IsSetOf([C!Room(set, n) EXCEPT !.array = array, !.hash = C!OrAll(array)], array)
  BY <1>2, FilledIsSet
<1>4. C!NoBits \in Hashes
  BY DEF C!NoBits, Hashes
<1>5. IsSetOf(C!SetClear(set), <<>>)
  <2>1. PICK h \in Hashes : h = C!NoBits
    BY <1>4
  <2>0. <<>> \in Seq(C!Communities)
    OBVIOUS
  <2>2. PICK none \in Seq(C!Communities) : none = <<>>
    BY <2>0
  <2>3. [set EXCEPT !.array = none, !.hash = h] \in CommunitySet
    BY <1>1 DEF CommunitySet
  <2> QED
    BY <1>1, <2>1, <2>2, <2>3, EmptyHash DEF IsSetOf, C!SetClear, CommunitySet
<1>6. IsSetOf(C!SetPopulate(set, array), array)
  <2>1. C!SetClear(set) \in CommunitySet
    BY <1>5 DEF IsSetOf
  <2>2. /\ C!Room(C!SetClear(set), n) \in CommunitySet
        /\ n <= C!Room(C!SetClear(set), n).alloc
    BY <1>1, <2>1, RoomIsRoom
  <2> QED
    BY <2>2, FilledIsSet DEF C!SetPopulate
<1>7. IsSetOf(C!SetPopulateFromArray(set, array), array)
  BY <1>3 DEF C!SetPopulateFromArray, C!SetCopy
<1>8. ASSUME NEW src, IsSetOf(src, array)
      PROVE  IsSetOf(C!SetCopy(set, src), array)
  BY <1>3, <1>8 DEF C!SetCopy, IsSetOf
<1>9. ASSUME NEW c \in C!Communities
      PROVE  IsSetOf(C!SetInsert(set, c), Append(old, c))
  <2> DEFINE new == Append(old, c)
  <2>1. /\ old \in Seq(C!Communities) /\ set.array = old /\ set.hash = C!OrAll(old)
        /\ Len(old) <= set.alloc /\ set.alloc \in Nat
    BY <1>1 DEF IsSetOf, CommunitySet
  <2>2. new \in Seq(C!Communities) /\ Len(new) = Len(old) + 1 /\ Len(old) \in Nat
    BY <2>1
  <2>3. C!OrAll(new) = C!Or(set.hash, c)
    BY <2>1, InsertHash
  <2>4. PICK a \in Nat : a = IF Len(set.array) = set.alloc THEN set.alloc + 1 ELSE set.alloc
    BY <2>1
  <2>5. Len(new) <= a
    BY <2>1, <2>2, <2>4
  <2> HIDE DEF new
  <2>6. [set EXCEPT !.alloc = a] \in CommunitySet /\ [set EXCEPT !.alloc = a].alloc = a
    BY <1>1 DEF CommunitySet
  <2>7. IsSetOf([[set EXCEPT !.alloc = a] EXCEPT !.array = new, !.hash = C!OrAll(new)], new)
    BY <2>2, <2>5, <2>6, FilledIsSet
  <2>8. C!SetInsert(set, c) = [set EXCEPT !.alloc = a, !.array = new, !.hash = C!OrAll(new)]
    BY <1>1, <2>1, <2>3, <2>4 DEF C!SetInsert, CommunitySet, new
  <2>9. [set EXCEPT !.alloc = a, !.array = new, !.hash = C!OrAll(new)]
          = [[set EXCEPT !.alloc = a] EXCEPT !.array = new, !.hash = C!OrAll(new)]
    BY <1>1 DEF CommunitySet
  <2> QED
    BY <2>7, <2>8, <2>9 DEF new
<1> QED
  BY <1>5, <1>6, <1>7, <1>8, <1>9

\* An operation on one of the sets leaves the other alone.
LEMMA StoreKeeps ==
  ASSUME MatchInv, part' = part, part = "communities",
         NEW s \in C!Sets, NEW set, NEW array, IsSetOf(set, array), C!Store(s, set, array)
  PROVE  MatchInv'
<1>1. /\ comms' = [comms EXCEPT ![s] = set]
      /\ comms_meant' = [comms_meant EXCEPT ![s] = array]
      /\ DOMAIN comms = C!Sets /\ DOMAIN comms_meant = C!Sets
  BY DEF C!Store, MatchInv
<1>2. /\ DOMAIN comms' = C!Sets /\ DOMAIN comms_meant' = C!Sets
      /\ comms'[s] = set /\ comms_meant'[s] = array
      /\ \A t \in C!Sets \ {s} : comms'[t] = comms[t] /\ comms_meant'[t] = comms_meant[t]
  BY <1>1
<1>3. \A t \in C!Sets : IsSetOf(comms[t], comms_meant[t])
  BY DEF MatchInv
<1>4. \A t \in C!Sets : IsSetOf(comms'[t], comms_meant'[t])
  BY <1>2, <1>3
<1> QED
  BY <1>2, <1>4 DEF MatchInv, IsSetOf

\* Every operation keeps the invariant.
LEMMA CommunitiesStep ==
  ASSUME MatchInv, C!Next, part' = part, part = "communities"
  PROVE  MatchInv'
<1> PICK s \in C!Sets :
      \/ \E m \in C!Messages : C!Populate(s, m) \/ C!PopulateFromArray(s, m)
      \/ \E c \in C!Communities : C!Insert(s, c)
      \/ \E t \in C!Sets \ {s} : C!Copy(s, t)
      \/ C!Clear(s)
  BY DEF C!Next
<1>1. \A t \in C!Sets : IsSetOf(comms[t], comms_meant[t])
  BY DEF MatchInv
<1>2. \A t \in C!Sets : comms_meant[t] \in Seq(C!Communities)
  BY <1>1 DEF IsSetOf
<1>3. C!Messages \subseteq Seq(C!Communities)
  BY LibraryAssumption DEF C!Messages
<1>4. ASSUME NEW m \in C!Messages, C!Populate(s, m) \/ C!PopulateFromArray(s, m) PROVE MatchInv'
  <2>1. /\ IsSetOf(C!SetPopulate(comms[s], m), m)
        /\ IsSetOf(C!SetPopulateFromArray(comms[s], m), m)
    BY <1>1, <1>3, OperationsKeepSets
  <2> QED
    BY <1>4, <2>1, StoreKeeps DEF C!Populate, C!PopulateFromArray
<1>5. ASSUME NEW c \in C!Communities, C!Insert(s, c) PROVE MatchInv'
  <2>1. IsSetOf(C!SetInsert(comms[s], c), Append(comms_meant[s], c))
    BY <1>1, <1>2, OperationsKeepSets
  <2> QED
    BY <1>5, <2>1, StoreKeeps DEF C!Insert
<1>6. ASSUME NEW t \in C!Sets \ {s}, C!Copy(s, t) PROVE MatchInv'
  <2>1. IsSetOf(C!SetCopy(comms[s], comms[t]), comms_meant[t])
    BY <1>1, <1>2, OperationsKeepSets
  <2> QED
    BY <1>6, <2>1, StoreKeeps DEF C!Copy
<1>7. CASE C!Clear(s)
  <2>1. IsSetOf(C!SetClear(comms[s]), <<>>)
    BY <1>1, <1>2, OperationsKeepSets
  <2> QED
    BY <1>7, <2>1, StoreKeeps DEF C!Clear
<1> QED
  BY <1>4, <1>5, <1>6, <1>7

\* bgpstream_community_set_match says that a set holds a community, or one that
\* agrees with a pattern, only if it does, and finds one that agrees unless a
\* half that has to agree is 0, whatever was filled, copied, inserted or cleared
\* before, for sets of any size.
THEOREM MatchIsExact == Spec => []MatchIsRight
<1>1. Init => MatchInv
  <2> SUFFICES ASSUME Init PROVE MatchInv
    OBVIOUS
  <2>1. /\ comms = [s \in C!Sets |-> C!SetCreate]
        /\ comms_meant = [s \in C!Sets |-> <<>>]
    BY DEF Init, C!Init
  <2>2. C!NoBits \in Hashes
    BY DEF C!NoBits, Hashes
  <2>3. <<>> \in Seq(C!Communities) /\ Len(<<>>) = 0
    OBVIOUS
  <2>4. PICK h \in Hashes : h = C!NoBits
    BY <2>2
  <2>5. [array |-> <<>>, alloc |-> 0, hash |-> h] \in CommunitySet
    BY <2>3 DEF CommunitySet
  <2>6. IsSetOf(C!SetCreate, <<>>)
    BY <2>3, <2>4, <2>5, EmptyHash DEF IsSetOf, C!SetCreate
  <2> QED
    BY <2>1, <2>6 DEF MatchInv
<1>2. MatchInv /\ [Next]_vars => MatchInv'
  <2> SUFFICES ASSUME MatchInv, [Next]_vars, part = "communities" \/ part' = "communities"
               PROVE  MatchInv'
    BY DEF MatchInv
  <2>1. part' = part
    BY DEF Next, Rest, vars
  <2>2. CASE C!Next
    BY <2>1, <2>2, CommunitiesStep
  <2>3. CASE UNCHANGED vars
    BY <2>3 DEF vars, community_vars, MatchInv, IsSetOf
  <2> QED
    BY <2>1, <2>2, <2>3 DEF Next
<1> QED
  BY <1>1, <1>2, MatchInvEnough, PTL DEF Spec

-----------------------------------------------------------------------------
(* The pacifier                                                            *)

\* The state of the plugin and the clock.
PaceTypes ==
  /\ pace \in [wait : Nat, adaptive : BOOLEAN, tv_start : Nat, tv_first_time : Nat,
               intervals : Nat]
  /\ now \in Nat \ {0} /\ running \in BOOLEAN
  /\ ends \in Seq(Nat) /\ cuts \in Seq(Nat) /\ Len(cuts) = Len(ends)
  /\ \A k \in 1..Len(cuts) : cuts[k] <= k
  /\ pace.wait = asked % WAITS

\* How far the intervals and their ends are: an interval that runs has no end
\* yet, and tv_start is the last end.
PaceCounts ==
  /\ pace.intervals = IF running THEN Len(ends) + 1 ELSE Len(ends)
  /\ pace.intervals > 0 => pace.tv_start > 0
  /\ pace.tv_start <= now
  /\ Len(ends) = 0 => pace.tv_start = pace.tv_first_time
  /\ Len(ends) > 0 => pace.tv_start = ends[Len(ends)]

\* The property for the k-th end, with the end and the count of cut sleeps
\* before it.
OnTime(k, end, before, cut, cut_before, first, wait, adaptive) ==
  /\ end >= first + (k - cut) * wait
  /\ cut = cut_before => IF adaptive THEN end >= first + k * wait
                         ELSE k > 1 => end - before >= wait

\* The property.
Before(seq, k) == IF k = 1 THEN 0 ELSE seq[k - 1]
EndsArePaced(first, wait, adaptive) ==
  \A k \in 1..Len(ends) :
    OnTime(k, ends[k], Before(ends, k), cuts[k], Before(cuts, k), first, wait, adaptive)

PaceInv ==
  part = "pacifier" =>
    PaceTypes /\ PaceCounts /\ EndsArePaced(pace.tv_first_time, pace.wait, pace.adaptive)

\* The ends before a new one keep to the property.
LEMMA EndKeepsPace ==
  ASSUME NEW wait, NEW first, NEW adaptive, NEW woken \in Nat, NEW cut \in Nat,
         ends \in Seq(Nat), cuts \in Seq(Nat), Len(cuts) = Len(ends),
         EndsArePaced(first, wait, adaptive),
         ends' = Append(ends, woken), cuts' = Append(cuts, cut),
         OnTime(Len(ends) + 1, woken, IF Len(ends) = 0 THEN 0 ELSE ends[Len(ends)],
                cut, S!CutUpTo(Len(cuts)), first, wait, adaptive)
  PROVE  EndsArePaced(first, wait, adaptive)'
<1> DEFINE n == Len(ends)
<1>1. /\ n \in Nat /\ Len(ends') = n + 1 /\ ends'[n + 1] = woken /\ cuts'[n + 1] = cut
      /\ \A k \in 1..n : ends'[k] = ends[k] /\ cuts'[k] = cuts[k]
  OBVIOUS
<1> HIDE DEF n
<1>2. ASSUME NEW k \in 1..n
      PROVE  /\ ends'[k] = ends[k] /\ Before(ends', k) = Before(ends, k)
             /\ cuts'[k] = cuts[k] /\ Before(cuts', k) = Before(cuts, k)
  BY <1>1 DEF Before
<1>3. /\ Before(ends', n + 1) = (IF n = 0 THEN 0 ELSE ends[n])
      /\ Before(cuts', n + 1) = S!CutUpTo(Len(cuts))
  <2>1. Before(ends', n + 1) = (IF n = 0 THEN 0 ELSE ends'[n])
        /\ Before(cuts', n + 1) = (IF n = 0 THEN 0 ELSE cuts'[n])
    BY <1>1 DEF Before
  <2>2. n # 0 => n \in 1..n
    BY <1>1
  <2>3. S!CutUpTo(Len(cuts)) = (IF n = 0 THEN 0 ELSE cuts[n])
    BY DEF S!CutUpTo, n
  <2> QED
    BY <1>1, <2>1, <2>2, <2>3
<1>4. ASSUME NEW k \in 1..(n + 1)
      PROVE  OnTime(k, ends'[k], Before(ends', k), cuts'[k], Before(cuts', k),
                    first, wait, adaptive)
  <2>1. CASE k \in 1..n
    BY <1>2, <2>1 DEF EndsArePaced, n
  <2>2. CASE k = n + 1
    BY <1>1, <1>3, <2>2 DEF n
  <2> QED
    BY <1>1, <2>1, <2>2
<1> QED
  BY <1>1, <1>4 DEF EndsArePaced

LEMMA Products ==
  \A a, b \in Nat : a * b \in Nat /\ (a + 1) * b = a * b + b
  OBVIOUS

LEMMA SumTimes ==
  \A m, c, w \in Nat : ((m + c) + 1) * w = m * w + w + c * w
  OBVIOUS

\* start_interval
LEMMA StartKeepsPace ==
  ASSUME PaceInv, part = "pacifier", part' = part, S!StartInterval
  PROVE  PaceInv'
<1>1. PaceTypes /\ PaceCounts /\ EndsArePaced(pace.tv_first_time, pace.wait, pace.adaptive)
  BY DEF PaceInv
<1>2. /\ ~running /\ running' = TRUE /\ now' = now /\ asked' = asked /\ ends' = ends
      /\ cuts' = cuts
      /\ pace' = IF pace.tv_start = 0
                 THEN [pace EXCEPT !.tv_start = now, !.tv_first_time = now, !.intervals = @ + 1]
                 ELSE [pace EXCEPT !.intervals = @ + 1]
  BY DEF S!StartInterval
<1>3. /\ Len(ends) \in Nat /\ now \in Nat /\ now > 0
      /\ pace.tv_start \in Nat /\ pace.tv_first_time \in Nat /\ pace.intervals \in Nat
  BY <1>1 DEF PaceTypes
<1>4. pace.intervals = Len(ends)
  BY <1>1, <1>2 DEF PaceCounts
<1>5. CASE pace.tv_start = 0
  <2>1. pace' = [pace EXCEPT !.tv_start = now, !.tv_first_time = now, !.intervals = @ + 1]
    BY <1>2, <1>5
  <2>2. /\ pace'.tv_start = now /\ pace'.tv_first_time = now
        /\ pace'.intervals = pace.intervals + 1
        /\ pace'.wait = pace.wait /\ pace'.adaptive = pace.adaptive
    BY <1>1, <2>1 DEF PaceTypes
  <2>3. PaceTypes'
    <3>1. pace' \in [wait : Nat, adaptive : BOOLEAN, tv_start : Nat, tv_first_time : Nat,
                     intervals : Nat]
      <4>1. PICK i \in Nat : i = pace.intervals + 1
        BY <1>3
      <4>2. pace' = [pace EXCEPT !.tv_start = now, !.tv_first_time = now, !.intervals = i]
        BY <2>1, <4>1
      <4> QED
        BY <1>1, <1>3, <4>2 DEF PaceTypes
    <3> QED
      BY <1>1, <1>2, <2>2, <3>1 DEF PaceTypes
  <2>4. Len(ends) = 0
    BY <1>1, <1>3, <1>4, <1>5 DEF PaceCounts
  <2>5. PaceCounts'
    BY <1>2, <1>3, <1>4, <2>2, <2>4 DEF PaceCounts
  <2>6. EndsArePaced(pace.tv_first_time, pace.wait, pace.adaptive)'
    BY <1>2, <2>4 DEF EndsArePaced
  <2> QED
    BY <2>3, <2>5, <2>6 DEF PaceInv
<1>6. CASE pace.tv_start # 0
  <2>1. pace' = [pace EXCEPT !.intervals = @ + 1]
    BY <1>2, <1>6
  <2>2. /\ pace'.tv_start = pace.tv_start /\ pace'.tv_first_time = pace.tv_first_time
        /\ pace'.intervals = pace.intervals + 1
        /\ pace'.wait = pace.wait /\ pace'.adaptive = pace.adaptive
    BY <1>1, <2>1 DEF PaceTypes
  <2>3. PaceTypes'
    <3>1. PICK i \in Nat : i = pace.intervals + 1
      BY <1>3
    <3>2. pace' = [pace EXCEPT !.intervals = i]
      BY <2>1, <3>1
    <3>3. pace' \in [wait : Nat, adaptive : BOOLEAN, tv_start : Nat, tv_first_time : Nat,
                     intervals : Nat]
      BY <1>1, <3>2 DEF PaceTypes
    <3> QED
      BY <1>1, <1>2, <2>2, <3>3 DEF PaceTypes
  <2>5. PaceCounts'
    BY <1>1, <1>2, <1>3, <1>4, <1>6, <2>2 DEF PaceCounts
  <2>6. EndsArePaced(pace.tv_first_time, pace.wait, pace.adaptive)'
    BY <1>1, <1>2, <2>2 DEF EndsArePaced
  <2> QED
    BY <2>3, <2>5, <2>6 DEF PaceInv
<1> QED
  BY <1>5, <1>6

\* end_interval sleeps long enough, or is woken by a signal.
LEMMA EndingKeepsPace ==
  ASSUME PaceInv, part = "pacifier", part' = part, S!EndInterval
  PROVE  PaceInv'
<1> DEFINE n == Len(ends)
           c == S!CutUpTo(Len(cuts))
           first == pace.tv_first_time
           diff == S!SleepTime(pace, now)
<1>1. PaceTypes /\ PaceCounts /\ EndsArePaced(first, pace.wait, pace.adaptive)
  BY DEF PaceInv
<1>2. /\ n \in Nat /\ now \in Nat /\ now > 0 /\ pace.wait \in Nat /\ pace.adaptive \in BOOLEAN
      /\ pace.tv_start \in Nat /\ first \in Nat /\ pace.intervals \in Nat /\ ends \in Seq(Nat)
      /\ cuts \in Seq(Nat) /\ Len(cuts) = n /\ \A k \in 1..n : cuts[k] <= k
  BY <1>1 DEF PaceTypes
<1>3. diff \in Int
  <2>1. pace.intervals * pace.wait \in Int
    BY <1>2
  <2> QED
    BY <1>2, <2>1 DEF S!SleepTime
<1>4. /\ running
      /\ \E more \in {0, 1}, woken \in Nat :
           /\ S!WakeUp(woken, more)
           /\ woken >= now
           /\ more = 0 => woken >= now + diff
  <2>1. CASE S!WakeUp(IF diff > 0 THEN now + diff ELSE now, 0)
    <3> DEFINE woken == IF diff > 0 THEN now + diff ELSE now
    <3>1. woken \in Nat /\ woken >= now /\ woken >= now + diff
      BY <1>2, <1>3
    <3>2. S!WakeUp(woken, 0)
      BY <2>1
    <3> HIDE DEF woken
    <3> QED
      BY <3>1, <3>2 DEF S!EndInterval
  <2>2. CASE \E woken \in now..(now + diff - 1) : S!WakeUp(woken, 1)
    <3>1. PICK woken \in now..(now + diff - 1) : S!WakeUp(woken, 1)
      BY <2>2
    <3>2. woken \in Nat /\ woken >= now
      BY <1>2, <1>3
    <3> QED
      BY <3>1, <3>2 DEF S!EndInterval
  <2> QED
    BY <2>1, <2>2 DEF S!EndInterval
<1>5. PICK more \in {0, 1}, woken \in Nat :
        /\ S!WakeUp(woken, more)
        /\ woken >= now
        /\ more = 0 => woken >= now + diff
  BY <1>4
<1>6. /\ running' = FALSE /\ now' = woken /\ asked' = asked
      /\ ends' = Append(ends, woken) /\ pace' = [pace EXCEPT !.tv_start = woken]
      /\ cuts' = Append(cuts, c + more)
  BY <1>5 DEF S!WakeUp
<1>7. /\ pace.intervals = n + 1 /\ pace.tv_start <= now
      /\ n = 0 => pace.tv_start = first
      /\ n > 0 => pace.tv_start = ends[n]
  BY <1>1, <1>4 DEF PaceCounts
<1>8. /\ pace.adaptive => diff = first + pace.intervals * pace.wait - now
      /\ ~pace.adaptive => diff = pace.wait - (now - pace.tv_start)
  BY DEF S!SleepTime
<1>9. c \in Nat /\ c <= n /\ (n > 0 => c = cuts[n])
  BY <1>2 DEF S!CutUpTo
<1>10. n > 0 => pace.tv_start >= first + (n - c) * pace.wait
  BY <1>1, <1>2, <1>7, <1>9 DEF EndsArePaced, OnTime
<1> HIDE DEF diff, c, n, first
<1>11. PICK m \in Nat : n = m + c
  BY <1>2, <1>9
<1>12. m * pace.wait \in Nat /\ (m + 1) * pace.wait = m * pace.wait + pace.wait
       /\ c * pace.wait \in Nat
  BY <1>2, <1>9, Products
<1>13. pace.tv_start >= first + m * pace.wait
  <2>1. CASE n = 0
    <3>1. m = 0
      BY <1>9, <1>11, <2>1
    <3>2. m * pace.wait = 0
      BY <1>2, <3>1
    <3> QED
      BY <1>2, <1>7, <2>1, <3>2
  <2>2. CASE n > 0
    <3>1. n - c = m
      BY <1>9, <1>11
    <3> QED
      BY <1>10, <2>2, <3>1
  <2> QED
    BY <1>2, <2>1, <2>2
<1>14. (n + 1) * pace.wait = m * pace.wait + pace.wait + c * pace.wait
  <2>1. c \in Nat /\ pace.wait \in Nat /\ m \in Nat
    BY <1>2, <1>9
  <2>2. ((m + c) + 1) * pace.wait = m * pace.wait + pace.wait + c * pace.wait
    BY <2>1, SumTimes, Zenon
  <2> QED
    BY <1>11, <2>2, Zenon
<1>15. more = 0 /\ ~pace.adaptive => woken >= pace.tv_start + pace.wait
  BY <1>2, <1>3, <1>5, <1>8
<1>16. more = 0 /\ pace.adaptive => woken >= first + (n + 1) * pace.wait
  <2> SUFFICES ASSUME more = 0, pace.adaptive PROVE woken >= first + (n + 1) * pace.wait
    OBVIOUS
  <2>1. PICK t \in Nat : t = (n + 1) * pace.wait
    BY <1>2
  <2>2. diff = first + t - now
    BY <1>7, <1>8, <2>1
  <2> QED
    BY <1>2, <1>5, <2>1, <2>2
<1>17. woken >= first + ((n + 1) - (c + more)) * pace.wait
  <2>1. PICK a, b \in Nat : a = m * pace.wait /\ b = c * pace.wait
    BY <1>12
  <2>2. woken >= pace.tv_start /\ pace.tv_start >= first + a
    BY <1>2, <1>5, <1>7, <1>13, <2>1
  <2>3. CASE more = 1
    <3>1. (n + 1) - (c + more) = m
      BY <1>9, <1>11, <2>3
    <3> QED
      BY <1>2, <2>1, <2>2, <3>1
  <2>4. CASE more = 0
    <3>1. (n + 1) - (c + more) = m + 1
      BY <1>9, <1>11, <2>4
    <3>2. (m + 1) * pace.wait = a + pace.wait
      BY <1>12, <2>1
    <3>3. woken >= first + a + pace.wait
      <4>1. CASE pace.adaptive
        <5>1. PICK t \in Nat : t = (n + 1) * pace.wait
          BY <1>2
        <5>2. t = a + pace.wait + b
          BY <1>14, <2>1, <5>1
        <5>3. woken >= first + t
          BY <1>16, <2>4, <4>1, <5>1, Zenon
        <5>4. first \in Nat /\ pace.wait \in Nat /\ a \in Nat /\ b \in Nat /\ woken \in Nat
          BY <1>2
        <5> QED
          BY <5>2, <5>3, <5>4
      <4>2. CASE ~pace.adaptive
        BY <1>2, <1>15, <2>2, <2>4, <4>2
      <4> QED
        BY <1>2, <4>1, <4>2
    <3> QED
      BY <1>2, <3>1, <3>2, <3>3
  <2> QED
    BY <2>3, <2>4
<1>18. more = 0 /\ ~pace.adaptive /\ n > 0 => woken - ends[n] >= pace.wait
  BY <1>2, <1>7, <1>15
<1>19. OnTime(n + 1, woken, IF n = 0 THEN 0 ELSE ends[n], c + more, c,
              first, pace.wait, pace.adaptive)
  <2>1. c + more = c => more = 0
    BY <1>9
  <2>2. n + 1 > 1 => n > 0 /\ (IF n = 0 THEN 0 ELSE ends[n]) = ends[n]
    BY <1>2
  <2>3. c + more = c => IF pace.adaptive THEN woken >= first + (n + 1) * pace.wait
                        ELSE n + 1 > 1 =>
                               woken - (IF n = 0 THEN 0 ELSE ends[n]) >= pace.wait
    <3>1. CASE pace.adaptive
      BY <1>16, <2>1, <3>1, Zenon
    <3>2. CASE ~pace.adaptive
      BY <1>18, <2>1, <2>2, <3>2, Zenon
    <3> QED
      BY <3>1, <3>2, Zenon
  <2> QED
    BY <1>17, <2>3, Zenon DEF OnTime
<1>20. \A f, w, a :
         f = first /\ w = pace.wait /\ a = pace.adaptive => EndsArePaced(f, w, a)'
  <2> TAKE f, w, a
  <2> HAVE f = first /\ w = pace.wait /\ a = pace.adaptive
  <2>1. EndsArePaced(f, w, a)
    BY <1>1 DEF first
  <2>2. PICK cut \in Nat : cut = c + more
    BY <1>9
  <2>3. cuts' = Append(cuts, cut) /\ Len(cuts) = Len(ends)
    BY <1>2, <1>6, <2>2 DEF n
  <2>4. OnTime(Len(ends) + 1, woken, IF Len(ends) = 0 THEN 0 ELSE ends[Len(ends)],
               cut, S!CutUpTo(Len(cuts)), f, w, a)
    BY <1>19, <2>2 DEF n, c
  <2> QED
    BY <1>2, <1>6, <2>1, <2>3, <2>4, EndKeepsPace
<1>21. /\ pace'.tv_start = woken /\ pace'.tv_first_time = first /\ pace'.wait = pace.wait
       /\ pace'.adaptive = pace.adaptive /\ pace'.intervals = pace.intervals
  BY <1>1, <1>6 DEF PaceTypes, first
<1>22. EndsArePaced(pace.tv_first_time, pace.wait, pace.adaptive)'
  BY <1>21, <1>20 DEF EndsArePaced
<1>23. Len(ends') = n + 1 /\ ends'[n + 1] = woken /\ ends' \in Seq(Nat)
  BY <1>2, <1>6 DEF n
<1>24. /\ cuts' \in Seq(Nat) /\ Len(cuts') = n + 1
       /\ \A k \in 1..(n + 1) : cuts'[k] <= k
  <2>1. cuts' \in Seq(Nat) /\ Len(cuts') = n + 1 /\ cuts'[n + 1] = c + more
        /\ \A k \in 1..n : cuts'[k] = cuts[k]
    BY <1>2, <1>6, <1>9
  <2> QED
    BY <1>2, <1>9, <2>1
<1>25. PaceTypes'
  <2>1. pace' \in [wait : Nat, adaptive : BOOLEAN, tv_start : Nat, tv_first_time : Nat,
                   intervals : Nat]
    BY <1>1, <1>6 DEF PaceTypes
  <2>2. now' \in Nat \ {0}
    BY <1>2, <1>5, <1>6
  <2> QED
    BY <1>1, <1>6, <1>21, <1>23, <1>24, <2>1, <2>2 DEF PaceTypes
<1>26. PaceCounts'
  BY <1>2, <1>5, <1>6, <1>7, <1>21, <1>23 DEF PaceCounts
<1> QED
  BY <1>22, <1>25, <1>26 DEF PaceInv

\* An interval whose sleep no signal cuts never ends before its time, however
\* slow others were, and one that is cut costs no more than its own wait
\* (bgpcorsaro_pacifier_end_interval), for any wait and any number of intervals.
THEOREM PacifierPaces == Spec => []IntervalsArePaced
<1>1. Init => PaceInv
  <2> SUFFICES ASSUME Init, part = "pacifier"
               PROVE  PaceTypes /\ PaceCounts
                      /\ EndsArePaced(pace.tv_first_time, pace.wait, pace.adaptive)
    BY DEF PaceInv
  <2>1. PICK w \in Waits, a \in BOOLEAN : pace = S!InitOutput(w, a) /\ asked = w
    BY DEF Init, S!Init
  <2>2. running = FALSE /\ now = 1 /\ ends = <<>> /\ cuts = <<>>
    BY DEF Init, S!Init
  <2>3. PICK wait \in Nat : wait = w % WAITS
    BY LibraryAssumption
  <2>4. pace = [wait |-> wait, adaptive |-> a, tv_start |-> 0, tv_first_time |-> 0,
                intervals |-> 0]
    BY <2>1, <2>3 DEF S!InitOutput
  <2>5. Len(ends) = 0 /\ ends \in Seq(Nat) /\ Len(cuts) = 0 /\ cuts \in Seq(Nat)
    BY <2>2
  <2>6. PaceTypes
    <3>1. pace \in [wait : Nat, adaptive : BOOLEAN, tv_start : Nat, tv_first_time : Nat,
                    intervals : Nat]
      BY <2>4
    <3>2. pace.wait = asked % WAITS
      BY <2>1, <2>3, <2>4
    <3>3. now \in Nat \ {0}
      BY <2>2
    <3>4. running \in BOOLEAN
      BY <2>2
    <3> QED
      BY <2>5, <3>1, <3>2, <3>3, <3>4 DEF PaceTypes
  <2>7. PaceCounts
    BY <2>2, <2>4, <2>5 DEF PaceCounts
  <2> QED
    BY <2>5, <2>6, <2>7 DEF EndsArePaced
<1>2. PaceInv /\ [Next]_vars => PaceInv'
  <2> SUFFICES ASSUME PaceInv, [Next]_vars, part = "pacifier" \/ part' = "pacifier"
               PROVE  PaceInv'
    BY DEF PaceInv
  <2>1. part' = part
    BY DEF Next, Rest, vars
  <2>2. CASE S!StartInterval
    BY <2>1, <2>2, StartKeepsPace
  <2>3. CASE S!EndInterval
    BY <2>1, <2>3, EndingKeepsPace
  <2>4. CASE S!Tick
    <3>1. now' = now + 1 /\ pace' = pace /\ running' = running /\ asked' = asked /\ ends' = ends
          /\ cuts' = cuts
      BY <2>4 DEF S!Tick
    <3>2. PaceTypes /\ PaceCounts /\ EndsArePaced(pace.tv_first_time, pace.wait, pace.adaptive)
      BY <2>1 DEF PaceInv
    <3>3. PaceTypes'
      BY <3>1, <3>2 DEF PaceTypes
    <3>4. PaceCounts'
      BY <3>1, <3>2 DEF PaceCounts, PaceTypes
    <3> QED
      BY <3>1, <3>2, <3>3, <3>4 DEF PaceInv, EndsArePaced
  <2>5. CASE UNCHANGED vars
    BY <2>5 DEF vars, pacifier_vars, PaceInv, PaceTypes, PaceCounts, EndsArePaced
  <2> QED
    BY <2>1, <2>2, <2>3, <2>4, <2>5 DEF Next, S!Next
<1>3. PaceInv => IntervalsArePaced
  <2> SUFFICES ASSUME PaceInv, part = "pacifier", NEW k \in 1..Len(ends)
               PROVE  /\ ends[k] >= pace.tv_first_time + (k - cuts[k]) * (asked % WAITS)
                      /\ ~S!Cut(k) =>
                           IF pace.adaptive
                           THEN ends[k] >= pace.tv_first_time + k * (asked % WAITS)
                           ELSE k > 1 => ends[k] - ends[k - 1] >= asked % WAITS
    BY DEF IntervalsArePaced, S!IntervalsArePaced
  <2>1. OnTime(k, ends[k], Before(ends, k), cuts[k], Before(cuts, k),
               pace.tv_first_time, pace.wait, pace.adaptive)
        /\ pace.wait = asked % WAITS /\ Len(ends) \in Nat
    BY DEF PaceInv, EndsArePaced, PaceTypes
  <2>2. k # 1 => k - 1 # 0 /\ k > 1
    BY <2>1
  <2>3. ~S!Cut(k) => cuts[k] = Before(cuts, k)
    BY <2>1, <2>2 DEF S!Cut, S!CutUpTo, Before
  <2> QED
    BY <2>1, <2>2, <2>3 DEF OnTime, Before
<1> QED
  BY <1>1, <1>2, <1>3, PTL DEF Spec

-----------------------------------------------------------------------------
(* The program bgpcorsaro                                                  *)

LEMMA SameMax == \A u : B!Max(u) = Max(u)
  BY Zenon DEF B!Max, Max

\* The loop over the windows goes through them one by one.
LEMMA MinimumTimeSteps ==
  ASSUME NEW W, W \subseteq [start : Nat, end : Nat], NEW s \in Seq(W)
  PROVE  \E f \in [0..Len(s) -> Nat] :
           /\ f[0] = 0 /\ B!MinimumTime(s) = f[Len(s)]
           /\ \A i \in 1..Len(s) : f[i] = B!Earlier(f[i - 1], s[i])
<1> DEFINE F == [p \in Nat \X W |-> B!Earlier(p[1], p[2])]
<1>3. FoldType(Nat, W, 0, F)
  BY DEF B!Earlier, FoldType
<1>4. \A m \in Nat, w \in W : F[<<m, w>>] = B!Earlier(m, w)
  OBVIOUS
<1> HIDE DEF F
<1> DEFINE Eq(it) == it = [u \in SUBSET DOMAIN s |->
                             IF u = {} THEN 0
                             ELSE B!Earlier(it[u \ {B!Max(u)}], s[B!Max(u)])]
<1>5. B!MinimumTime(s) = (CHOOSE it : Eq(it))[DOMAIN s]
  BY Zenon DEF B!MinimumTime, B!FoldLeft, B!MapThenFoldSet
<1>6. \E it : Eq(it)
  <2>0. SetFolds(Nat, 0, F, s) # {}
    BY <1>3, SetFoldsExist
  <2>1. PICK it \in [SUBSET DOMAIN s -> Nat] :
          \A u \in SUBSET DOMAIN s :
            it[u] = IF u = {} THEN 0 ELSE F[<<it[u \ {Max(u)}], s[Max(u)]>>]
    BY <2>0 DEF SetFolds
  <2>2. ASSUME NEW u \in SUBSET DOMAIN s, u # {}
        PROVE  F[<<it[u \ {Max(u)}], s[Max(u)]>>] = B!Earlier(it[u \ {B!Max(u)}], s[B!Max(u)])
    <3>1. DOMAIN s = 1..Len(s) /\ Len(s) \in Nat /\ \A i \in 1..Len(s) : s[i] \in W
      BY LenProperties
    <3>2. Max(u) \in u
      BY <2>2, <3>1, MaxOfPositions
    <3>3. s[Max(u)] \in W /\ it[u \ {Max(u)}] \in Nat
      BY <2>1, <3>1, <3>2
    <3> QED
      BY <1>4, <3>3, SameMax
  <2>3. Eq(it)
    BY <2>1, <2>2
  <2> QED
    BY <2>3
<1>7. PICK it : Eq(it) /\ B!MinimumTime(s) = it[DOMAIN s]
  BY <1>5, <1>6
<1>8. IsSetFold(it, Nat, 0, F, s)
  <2>1. it[{}] = 0
    BY <1>7
  <2>2. ASSUME NEW u \in SUBSET DOMAIN s, u # {}, it[u \ {Max(u)}] \in Nat
        PROVE  it[u] = F[<<it[u \ {Max(u)}], s[Max(u)]>>]
    <3>1. DOMAIN s = 1..Len(s) /\ Len(s) \in Nat /\ \A i \in 1..Len(s) : s[i] \in W
      BY LenProperties
    <3>2. Max(u) \in u
      BY <2>2, <3>1, MaxOfPositions
    <3>3. it[u] = B!Earlier(it[u \ {Max(u)}], s[Max(u)])
      BY <1>7, <2>2, SameMax
    <3>4. s[Max(u)] \in W
      BY <3>1, <3>2
    <3> QED
      BY <1>4, <2>2, <3>3, <3>4
  <2> QED
    BY <2>1, <2>2 DEF IsSetFold
<1>9. it[DOMAIN s] = Folded(Nat, 0, F, s)
  BY <1>3, <1>8, SetFoldIsFolded
<1>10. PICK f \in Steps(Nat, 0, F, s) : Folded(Nat, 0, F, s) = f[Len(s)]
  <2>1. Steps(Nat, 0, F, s) # {}
    BY <1>3, StepsExist
  <2> QED
    BY <2>1 DEF Folded
<1>11. /\ f \in [0..Len(s) -> Nat] /\ f[0] = 0
       /\ \A i \in 1..Len(s) : f[i] = F[<<f[i - 1], s[i]>>]
  BY DEF Steps
<1>12. ASSUME NEW i \in 1..Len(s) PROVE f[i] = B!Earlier(f[i - 1], s[i])
  <2>1. Len(s) \in Nat /\ s[i] \in W
    BY LenProperties
  <2>2. i - 1 \in 0..Len(s)
    BY <2>1
  <2>3. f[i - 1] \in Nat
    BY <1>11, <2>2
  <2> QED
    BY <1>4, <1>11, <2>1, <2>3
<1> QED
  BY <1>7, <1>9, <1>10, <1>11, <1>12

\* What is handed over grows with the stream.
AddFrom(e) == [p \in Seq(Nat) \X Nat |-> IF p[2] >= e THEN Append(p[1], p[2]) ELSE p[1]]

LEMMA FromType == \A e \in Nat : FoldType(Seq(Nat), Nat, <<>>, AddFrom(e))
<1> TAKE e \in Nat
<1>1. ASSUME NEW p \in Seq(Nat) \X Nat
      PROVE  (IF p[2] >= e THEN Append(p[1], p[2]) ELSE p[1]) \in Seq(Nat)
  <2>1. p[1] \in Seq(Nat) /\ p[2] \in Nat
    OBVIOUS
  <2> QED
    BY <2>1
<1>2. <<>> \in Seq(Nat)
  OBVIOUS
<1> QED
  BY <1>1, <1>2 DEF FoldType, AddFrom

LEMMA FromIsFolded ==
  ASSUME NEW e \in Nat, NEW s \in Seq(Nat)
  PROVE  B!From(s, e) = Folded(Seq(Nat), <<>>, AddFrom(e), s)
<1> DEFINE F == AddFrom(e)
<1>1. FoldType(Seq(Nat), Nat, <<>>, F)
  BY FromType
<1>2. \A f \in Seq(Nat), t \in Nat : F[<<f, t>>] = IF t >= e THEN Append(f, t) ELSE f
  BY DEF AddFrom
<1> HIDE DEF F
<1>3. DOMAIN s = 1..Len(s) /\ Len(s) \in Nat /\ \A i \in 1..Len(s) : s[i] \in Nat
  BY LenProperties
<1> DEFINE Eq(it) == it = [u \in SUBSET DOMAIN s |->
                             IF u = {} THEN <<>>
                             ELSE IF s[B!Max(u)] >= e
                                  THEN Append(it[u \ {B!Max(u)}], s[B!Max(u)])
                                  ELSE it[u \ {B!Max(u)}]]
<1>4. B!From(s, e) = (CHOOSE it : Eq(it))[DOMAIN s]
  BY Zenon DEF B!From, B!FoldLeft, B!MapThenFoldSet
<1>5. \A u \in SUBSET DOMAIN s : u # {} => Max(u) \in DOMAIN s
  BY <1>3, MaxOfPositions
<1>6. \E it : Eq(it)
  <2>0. SetFolds(Seq(Nat), <<>>, F, s) # {}
    BY <1>1, SetFoldsExist
  <2>1. PICK it \in [SUBSET DOMAIN s -> Seq(Nat)] :
          \A u \in SUBSET DOMAIN s :
            it[u] = IF u = {} THEN <<>> ELSE F[<<it[u \ {Max(u)}], s[Max(u)]>>]
    BY <2>0 DEF SetFolds
  <2>2. ASSUME NEW u \in SUBSET DOMAIN s, u # {}
        PROVE  F[<<it[u \ {Max(u)}], s[Max(u)]>>] =
                 IF s[B!Max(u)] >= e THEN Append(it[u \ {B!Max(u)}], s[B!Max(u)])
                 ELSE it[u \ {B!Max(u)}]
    <3>1. s[Max(u)] \in Nat /\ it[u \ {Max(u)}] \in Seq(Nat)
      BY <1>3, <1>5, <2>1, <2>2
    <3> QED
      BY <1>2, <3>1, SameMax
  <2>3. Eq(it)
    BY <2>1, <2>2
  <2> QED
    BY <2>3
<1>7. PICK it : Eq(it) /\ B!From(s, e) = it[DOMAIN s]
  BY <1>4, <1>6
<1>8. IsSetFold(it, Seq(Nat), <<>>, F, s)
  <2>1. it[{}] = <<>>
    BY <1>7
  <2>2. ASSUME NEW u \in SUBSET DOMAIN s, u # {}, it[u \ {Max(u)}] \in Seq(Nat)
        PROVE  it[u] = F[<<it[u \ {Max(u)}], s[Max(u)]>>]
    <3>1. it[u] = IF s[Max(u)] >= e THEN Append(it[u \ {Max(u)}], s[Max(u)])
                  ELSE it[u \ {Max(u)}]
      BY <1>7, <2>2, SameMax
    <3>2. s[Max(u)] \in Nat
      BY <1>3, <1>5, <2>2
    <3> QED
      BY <1>2, <2>2, <3>1, <3>2
  <2> QED
    BY <2>1, <2>2 DEF IsSetFold
<1>9. it[DOMAIN s] = Folded(Seq(Nat), <<>>, F, s)
  BY <1>1, <1>8, SetFoldIsFolded
<1> QED
  BY <1>7, <1>9 DEF F

LEMMA FromGrows ==
  ASSUME NEW e \in Nat, NEW s \in Seq(Nat)
  PROVE  /\ B!From(<<>>, e) = <<>>
         /\ \A t \in Nat : B!From(Append(s, t), e) =
                            IF t >= e THEN Append(B!From(s, e), t) ELSE B!From(s, e)
<1> DEFINE F == AddFrom(e)
<1>1. \A f \in Seq(Nat), t \in Nat : F[<<f, t>>] = IF t >= e THEN Append(f, t) ELSE f
  BY DEF AddFrom
<1>2. \A u \in Seq(Nat) : B!From(u, e) = Folded(Seq(Nat), <<>>, F, u)
  BY FromIsFolded
<1>3. FoldType(Seq(Nat), Nat, <<>>, F)
  BY FromType
<1> HIDE DEF F
<1>4. /\ Folded(Seq(Nat), <<>>, F, <<>>) = <<>>
      /\ Folded(Seq(Nat), <<>>, F, s) \in Seq(Nat)
  BY <1>3, FoldedEmpty, FoldedType
<1>7. \A t \in Nat : Folded(Seq(Nat), <<>>, F, Append(s, t)) = F[<<Folded(Seq(Nat), <<>>, F, s), t>>]
  BY <1>3, FoldedAppend
<1>5. /\ <<>> \in Seq(Nat)
      /\ \A t \in Nat : Append(s, t) \in Seq(Nat)
  OBVIOUS
<1>6. ASSUME NEW t \in Nat
      PROVE  B!From(Append(s, t), e) = IF t >= e THEN Append(B!From(s, e), t) ELSE B!From(s, e)
  <2>1. B!From(s, e) \in Seq(Nat)
    BY <1>2, <1>4
  <2>2. B!From(Append(s, t), e) = F[<<B!From(s, e), t>>]
    BY <1>2, <1>5, <1>7
  <2> QED
    BY <1>1, <2>1, <2>2
<1> QED
  BY <1>2, <1>4, <1>5, <1>6

\* The loop finds the earliest time, unless that is 0.
LEMMA MinimumTimeIsEarliest ==
  ASSUME NEW W, W \subseteq [start : Nat, end : Nat], NEW s \in Seq(W), s # <<>>
  PROVE  /\ B!MinimumTime(s) \in Nat /\ B!Earliest(s) \in Nat
         /\ B!Earliest(s) = 0 \/ B!Earliest(s) = B!MinimumTime(s)
<1>1. Len(s) \in Nat /\ Len(s) # 0 /\ DOMAIN s = 1..Len(s)
      /\ \A i \in 1..Len(s) : s[i] \in W
  BY LenProperties
<1>2. \A i \in 1..Len(s) : s[i].start \in Nat
  BY <1>1
<1>3. PICK f \in [0..Len(s) -> Nat] :
        /\ f[0] = 0 /\ B!MinimumTime(s) = f[Len(s)]
        /\ \A i \in 1..Len(s) : f[i] = B!Earlier(f[i - 1], s[i])
  BY MinimumTimeSteps
<1>4. PICK T : T = {s[i].start : i \in 1..Len(s)}
  OBVIOUS
<1>5. T \subseteq Nat /\ T # {}
  <2>1. 1 \in 1..Len(s)
    BY <1>1
  <2> QED
    BY <1>2, <1>4, <2>1
<1>6. Min(T) \in T /\ \A y \in T : Min(T) <= y
  BY <1>5, MinNat
<1>7. B!Earliest(s) = Min(T)
  BY <1>1, <1>4, Zenon DEF B!Earliest, B!Min, Min
<1>8. B!MinimumTime(s) \in Nat
  BY <1>1, <1>3
<1>9. ASSUME Min(T) # 0 PROVE B!MinimumTime(s) = Min(T)
  <2>1. ASSUME NEW y \in T PROVE y \in Nat /\ y # 0
    <3>1. PICK m : m = Min(T)
      OBVIOUS
    <3>2. m \in Nat /\ m # 0 /\ m <= y /\ y \in Nat
      BY <1>5, <1>6, <1>9, <3>1
    <3> QED
      BY <3>2
  <2>2. \A i \in 1..Len(s) : s[i].start \in Nat /\ s[i].start # 0
    BY <1>4, <2>1
  <2> DEFINE Found(n) == n # 0 => /\ \E i \in 1..n : f[n] = s[i].start
                                  /\ \A i \in 1..n : f[n] <= s[i].start
  <2>3. PICK Q : Q = {n \in 0..Len(s) : Found(n)}
    OBVIOUS
  <2>4. 0 \in Q
    BY <1>1, <2>3
  <2>5. ASSUME NEW n \in 1..Len(s), n - 1 \in Q PROVE n \in Q
    <3>6. n - 1 \in 0..Len(s) /\ n \in 0..Len(s)
      BY <1>1
    <3>7. f[n - 1] \in Nat
      BY <3>6
    <3>1. n - 1 \in 0..Len(s) /\ n \in 0..Len(s) /\ f[n - 1] \in Nat
      BY <3>6, <3>7
    <3>2. f[n] = IF f[n - 1] = 0 \/ s[n].start < f[n - 1] THEN s[n].start ELSE f[n - 1]
      BY <1>3 DEF B!Earlier
    <3>3. Found(n - 1)
      BY <2>3, <2>5
    <3>4. CASE n = 1
      <4>1. f[n] = s[1].start
        BY <1>3, <3>2, <3>4
      <4> QED
        BY <2>2, <2>3, <3>1, <3>4, <4>1
    <3>5. CASE n # 1
      <4>1. PICK i \in 1..(n - 1) : f[n - 1] = s[i].start
        BY <3>1, <3>3, <3>5
      <4>2. \A j \in 1..(n - 1) : f[n - 1] <= s[j].start
        BY <3>1, <3>3, <3>5
      <4>3. i \in 1..n /\ i \in 1..Len(s) /\ n \in 1..n
        BY <1>1
      <4>4. f[n - 1] # 0 /\ s[n].start \in Nat
        BY <2>2, <4>1, <4>3
      <4>5. \E j \in 1..n : f[n] = s[j].start
        BY <3>2, <4>1, <4>3
      <4>6. ASSUME NEW j \in 1..n PROVE f[n] <= s[j].start
        <5>1. j = n \/ j \in 1..(n - 1)
          BY <1>1
        <5>2. j \in 1..Len(s)
          BY <1>1
        <5>3. s[j].start \in Nat
          BY <1>2, <5>2
        <5>4. CASE j = n
          BY <3>2, <4>4, <5>4
        <5>5. CASE j \in 1..(n - 1)
          <6>1. f[n - 1] <= s[j].start
            BY <4>2, <5>5
          <6>2. PICK a, b, c : a = f[n - 1] /\ b = s[n].start /\ c = s[j].start
            OBVIOUS
          <6>3. a \in Nat /\ b \in Nat /\ c \in Nat /\ a <= c
            BY <3>1, <4>4, <5>3, <6>1, <6>2
          <6>4. f[n] = IF a = 0 \/ b < a THEN b ELSE a
            BY <3>2, <6>2
          <6>5. f[n] = a \/ (f[n] = b /\ b < a)
            BY <4>4, <6>2, <6>4
          <6>6. f[n] <= c
            BY <6>3, <6>5
          <6> QED
            BY <6>2, <6>6
        <5> QED
          BY <5>1, <5>4, <5>5
      <4> QED
        BY <2>3, <3>1, <4>5, <4>6
    <3> QED
      BY <3>4, <3>5
  <2>6. \A n \in 0..Len(s) : n \in Q
    BY <1>1, <2>4, <2>5, CountingUp
  <2>7. Found(Len(s))
    BY <1>1, <2>3, <2>6
  <2>8. PICK i \in 1..Len(s) : f[Len(s)] = s[i].start
    BY <1>1, <2>7
  <2>9. f[Len(s)] \in T
    BY <1>4, <2>8
  <2>10. \A y \in T : f[Len(s)] <= y
    BY <1>1, <1>4, <2>7
  <2>11. PICK m, v : m = Min(T) /\ v = f[Len(s)]
    OBVIOUS
  <2>12. m \in Nat /\ v \in Nat /\ m <= v /\ v <= m
    BY <1>5, <1>6, <2>9, <2>10, <2>11
  <2>13. m = v
    BY <2>12
  <2> QED
    BY <1>3, <2>11, <2>13
<1> QED
  BY <1>5, <1>6, <1>7, <1>8, <1>9

Streaming == {"loop", "getting", "record", "ended"}
Places == {"options", "setup", "filters", "loop", "getting", "record", "ended"}
States == {"NULL", "created", "allocated", "started", "on", "freed"}
Objects == [bgpcorsaro : States, record : States, stream : States]
Mains == [pc : Places, windows : Seq(CmdWindows), tmpl : BOOLEAN, gap_limit : Nat,
          minimum_time : Nat, last_time : Nat, rc : Int, time : Nat]

ToolTypes ==
  /\ main \in Mains
  /\ objects \in Objects
  /\ shutdown \in Nat /\ finalized \in Nat /\ late \in Nat
  /\ got \in Seq(Nat) /\ handed \in Seq(Nat)

\* Neighbours in a sequence of times are not further apart than the limit.
GapsAreShort(times, limit) ==
  \A i \in 1..Len(times) - 1 :
    limit = 0 \/ times[i] = 0 \/ times[i + 1] - times[i] <= limit
LastIs(times, t) == IF times = <<>> THEN t = 0 ELSE t = times[Len(times)]

\* While the program runs, what was handed over is what the stream returned, from
\* the earliest time on; at "record", without the record at hand.
HandedIsGot ==
  /\ main.pc \notin Streaming => got = <<>> /\ handed = <<>>
  /\ main.pc \in Streaming => main.minimum_time = B!MinimumTime(main.windows)
  /\ main.pc \in Streaming \ {"record"} => handed = B!From(got, main.minimum_time)
  /\ main.pc = "record" =>
       \E g \in Seq(Nat) : got = Append(g, main.time) /\ handed = B!From(g, main.minimum_time)
LateIsOne == late = 0 \/ (late = 1 /\ shutdown > 0 /\ main.pc \in {"loop", "ended"})
ToolRuns ==
  /\ objects.bgpcorsaro # "freed" /\ finalized = 0
  /\ main.pc # "options" => main.windows # <<>>
  /\ LastIs(handed, main.last_time)
  /\ HandedIsGot /\ LateIsOne

\* Once it has ended.
ToolEnds ==
  /\ finalized <= 1 /\ late <= 1
  /\ objects.bgpcorsaro = "freed" => code = -1
  /\ code = 0 /\ main.pc # "options" =>
       /\ finalized = 1 /\ main.rc >= 0 /\ objects.record = "NULL"
       /\ B!ZeroIsLost \/ handed = B!From(got, B!Earliest(main.windows))

ToolInv ==
  part = "tool" =>
    /\ ToolTypes /\ GapsAreShort(handed, main.gap_limit)
    /\ IF code = B!NONE THEN ToolRuns ELSE ToolEnds

LEMMA LonelyGaps == \A limit : GapsAreShort(<<>>, limit)
  BY DEF GapsAreShort

LEMMA GapsGrow ==
  ASSUME NEW s \in Seq(Nat), NEW t \in Nat, NEW last \in Nat, NEW limit \in Nat,
         GapsAreShort(s, limit), LastIs(s, last),
         ~(limit > 0 /\ last > 0 /\ t - last > limit)
  PROVE  GapsAreShort(Append(s, t), limit) /\ LastIs(Append(s, t), t)
<1>1. Len(s) \in Nat /\ Len(Append(s, t)) = Len(s) + 1 /\ Append(s, t)[Len(s) + 1] = t
      /\ \A i \in 1..Len(s) : Append(s, t)[i] = s[i] /\ s[i] \in Nat
  BY LenProperties
<1>2. LastIs(Append(s, t), t)
  BY <1>1 DEF LastIs
<1>3. ASSUME NEW i \in 1..Len(s)
      PROVE  limit = 0 \/ Append(s, t)[i] = 0 \/ Append(s, t)[i + 1] - Append(s, t)[i] <= limit
  <2>1. CASE i = Len(s)
    <3>1. s # <<>> /\ last = s[Len(s)] /\ Append(s, t)[i] = last
      BY <1>1, <2>1 DEF LastIs
    <3>2. Append(s, t)[i + 1] = t
      BY <1>1, <2>1
    <3> QED
      BY <3>1, <3>2
  <2>2. CASE i # Len(s)
    <3>1. i \in 1..Len(s) - 1 /\ i + 1 \in 1..Len(s)
      BY <1>1, <2>2
    <3>2. limit = 0 \/ s[i] = 0 \/ s[i + 1] - s[i] <= limit
      BY <3>1 DEF GapsAreShort
    <3> QED
      BY <1>1, <3>1, <3>2
  <2> QED
    BY <2>1, <2>2
<1>4. Len(Append(s, t)) - 1 = Len(s)
  BY <1>1
<1> QED
  BY <1>2, <1>3, <1>4 DEF GapsAreShort

LEMMA ToolInvEnough == ToolInv => OutputIsComplete
<1> SUFFICES ASSUME ToolInv, part = "tool" PROVE B!OutputIsComplete
  BY DEF OutputIsComplete
<1>1. ToolTypes /\ GapsAreShort(handed, main.gap_limit)
  BY DEF ToolInv
<1>2. CASE code = B!NONE
  <2>1. ToolRuns
    BY <1>2 DEF ToolInv
  <2>2. code # 0
    BY <1>2 DEF B!NONE
  <2>3. finalized <= 1 /\ late <= 1 /\ objects.bgpcorsaro # "freed"
    BY <2>1 DEF ToolRuns, LateIsOne
  <2> QED
    BY <1>1, <2>2, <2>3 DEF GapsAreShort, B!OutputIsComplete
<1>3. CASE code # B!NONE
  <2>1. ToolEnds
    BY <1>3 DEF ToolInv
  <2> QED
    BY <1>1, <2>1 DEF GapsAreShort, ToolEnds, B!OutputIsComplete
<1> QED
  BY <1>2, <1>3

\* Before the stream is started.
LEMMA ToolStarts ==
  ASSUME ToolInv, part = "tool", part' = part, code = B!NONE,
         B!Option \/ B!AllocOutput \/ B!StartOutput \/ B!StartStream
  PROVE  ToolInv'
<1>1. ToolTypes /\ ToolRuns /\ GapsAreShort(handed, main.gap_limit)
  BY DEF ToolInv
<1>2. main.pc \notin Streaming
  BY DEF B!Option, B!AllocOutput, B!StartOutput, B!StartStream, B!At, Streaming
<1>3. got = <<>> /\ handed = <<>> /\ late = 0 /\ finalized = 0 /\ main.last_time = 0
  BY <1>1, <1>2 DEF ToolRuns, HandedIsGot, LateIsOne, LastIs, Streaming
<1>4. got' = <<>> /\ handed' = <<>> /\ late' = 0 /\ shutdown' = shutdown
  BY <1>3 DEF B!Option, B!AllocOutput, B!StartOutput, B!StartStream
<1>5. GapsAreShort(handed', main'.gap_limit)
  BY <1>4, LonelyGaps
<1>6. CASE B!Option
  <2>1. objects' = objects /\ finalized' = 0 /\ main.pc = "options"
    BY <1>3, <1>6 DEF B!Option, B!At
  <2>2. /\ main' \in [pc : {"options"}, windows : Seq(CmdWindows), tmpl : BOOLEAN, gap_limit : Nat,
                     minimum_time : Nat, last_time : {0}, rc : Int, time : Nat]
        /\ code' \in {B!NONE, 0, -1}
    <3>1. main \in [pc : {"options"}, windows : Seq(CmdWindows), tmpl : BOOLEAN, gap_limit : Nat,
                     minimum_time : Nat, last_time : {0}, rc : Int, time : Nat]
      BY <1>1, <1>3, <2>1 DEF ToolTypes, Mains, Places
    <3>2. CASE main' = main
      <4>1. code' \in {B!NONE, 0, -1}
        BY <1>6, <3>2 DEF B!Option, B!Exit
      <4> QED
        BY <3>1, <3>2, <4>1
    <3>3. CASE \E w \in CmdWindows : main' = [main EXCEPT !.windows = Append(@, w)]
      <4>1. PICK w \in CmdWindows : main' = [main EXCEPT !.windows = Append(@, w)]
        BY <3>3
      <4>2. Append(main.windows, w) \in Seq(CmdWindows)
        BY <3>1
      <4>3. code' \in {B!NONE, 0, -1}
        BY <1>6 DEF B!Option, B!Exit
      <4> QED
        BY <3>1, <4>1, <4>2, <4>3
    <3>4. CASE main' = [main EXCEPT !.tmpl = TRUE] \/ \E g \in GapLimits : main' = [main EXCEPT !.gap_limit = g]
      <4>1. code' \in {B!NONE, 0, -1}
        BY <1>6 DEF B!Option, B!Exit
      <4> QED
        BY <3>1, <3>4, <4>1, LibraryAssumption
    <3> QED
      BY <1>6, <3>2, <3>3, <3>4 DEF B!Option
  <2>3. main'.pc = "options" /\ main'.last_time = 0
    BY <2>2
  <2>4. ToolTypes'
    BY <1>1, <1>4, <2>1, <2>2 DEF ToolTypes, Mains, Places
  <2>5. ToolRuns'
    BY <1>1, <1>4, <2>1, <2>3 DEF ToolRuns, LastIs, HandedIsGot, LateIsOne, Streaming
  <2>6. ToolEnds'
    BY <1>1, <1>4, <2>1, <2>3 DEF ToolRuns, ToolEnds
  <2> QED
    BY <1>5, <2>4, <2>5, <2>6 DEF ToolInv
<1>7. CASE code' = -1 /\ ~B!Option
  <2>1. main' = main
    BY <1>7 DEF B!AllocOutput, B!StartOutput, B!StartStream, B!Bail, B!Exit, B!NONE
  <2>2. finalized' \in {0, 1}
    BY <1>3, <1>7 DEF B!AllocOutput, B!StartOutput, B!StartStream, B!Bail, B!CleanFinalizes
  <2>3. objects' \in Objects
    BY <1>1, <1>7
    DEF B!AllocOutput, B!StartOutput, B!StartStream, B!Bail, B!Clean, ToolTypes, Objects, States
  <2>4. ToolTypes'
    BY <1>1, <1>4, <2>1, <2>2, <2>3 DEF ToolTypes, Mains, Places
  <2>5. ToolEnds'
    BY <1>4, <1>7, <2>2 DEF ToolEnds
  <2> QED
    BY <1>5, <1>7, <2>4, <2>5 DEF ToolInv, B!NONE
<1>8. CASE code' # -1 /\ ~B!Option
  <2>1. finalized' = 0 /\ code' = B!NONE
    BY <1>3, <1>8 DEF B!AllocOutput, B!StartOutput, B!StartStream, B!Bail, B!Exit
  <2>2. objects' \in Objects
        /\ objects'.bgpcorsaro # "freed"
    BY <1>1, <1>8
    DEF B!AllocOutput, B!StartOutput, B!StartStream, B!Bail, B!Exit, ToolTypes, ToolRuns,
        Objects, States
  <2>3. main.windows # <<>>
    BY <1>1, <1>8 DEF B!AllocOutput, B!StartOutput, B!StartStream, B!Bail, B!Exit, B!At, ToolRuns
  <2>4. B!MinimumTime(main.windows) \in Nat
    BY <1>1, <2>3, LibraryAssumption, MinimumTimeIsEarliest DEF ToolTypes, Mains, Places
  <2>5. /\ main' = [main EXCEPT !.pc = main'.pc, !.minimum_time = main'.minimum_time]
        /\ \/ main'.pc \in {"setup", "filters"} /\ main'.minimum_time = main.minimum_time
           \/ main'.pc = "loop" /\ main'.minimum_time = B!MinimumTime(main.windows)
    BY <1>1, <1>8
    DEF B!AllocOutput, B!StartOutput, B!StartStream, B!Bail, B!Exit, B!Goto, ToolTypes, Mains, Places
  <2>6. /\ main' \in Mains
        /\ main'.windows = main.windows /\ main'.last_time = 0
    BY <1>1, <1>3, <2>4, <2>5 DEF ToolTypes, Mains, Places
  <2>7. ToolTypes'
    BY <1>1, <1>4, <2>1, <2>2, <2>6 DEF ToolTypes, Mains, Places
  <2>8. HandedIsGot'
    <3>1. main'.pc = "loop" => B!From(<<>>, main'.minimum_time) = <<>>
      <4>1. <<>> \in Seq(Nat)
        OBVIOUS
      <4>2. B!From(<<>>, B!MinimumTime(main.windows)) = <<>>
        BY <2>4, <4>1, FromGrows
      <4> QED
        BY <2>5, <4>2
    <3> QED
      BY <1>4, <2>5, <2>6, <3>1 DEF HandedIsGot, Streaming
  <2>9. ToolRuns'
    BY <1>4, <2>1, <2>2, <2>3, <2>6, <2>8 DEF ToolRuns, LastIs, LateIsOne
  <2> QED
    BY <1>5, <2>1, <2>7, <2>9 DEF ToolInv
<1> QED
  BY <1>6, <1>7, <1>8

\* An interrupt only counts, or ends the program.
LEMMA ToolInterrupted ==
  ASSUME ToolInv, part = "tool", part' = part, B!Sigint
  PROVE  ToolInv'
<1>1. ToolTypes /\ ToolRuns /\ GapsAreShort(handed, main.gap_limit)
  BY DEF ToolInv, B!Sigint
<1>2. /\ shutdown' = shutdown + 1 /\ code' \in {-1, B!NONE}
      /\ main' = main /\ objects' = objects /\ got' = got /\ handed' = handed
      /\ late' = late /\ finalized' = finalized
  BY DEF B!Sigint
<1>3. ToolTypes' /\ GapsAreShort(handed, main.gap_limit)'
  BY <1>1, <1>2 DEF ToolTypes, Mains, Places
<1>4. ToolRuns'
  <2>1. LateIsOne'
    BY <1>1, <1>2 DEF ToolRuns, LateIsOne, ToolTypes, Mains, Places
  <2>2. HandedIsGot'
    BY <1>1, <1>2 DEF ToolRuns, HandedIsGot
  <2> QED
    BY <1>1, <1>2, <2>1, <2>2 DEF ToolRuns
<1>5. code' = -1 => ToolEnds'
  BY <1>1, <1>2 DEF ToolRuns, ToolEnds, LateIsOne
<1> QED
  BY <1>2, <1>3, <1>4, <1>5 DEF ToolInv, B!NONE

\* The loop's condition, and the stream's answer.
LEMMA ToolAsks ==
  ASSUME ToolInv, part = "tool", part' = part, B!Loop \/ B!Get
  PROVE  ToolInv'
<1>1. ToolTypes /\ ToolRuns /\ GapsAreShort(handed, main.gap_limit) /\ code = B!NONE
  BY DEF ToolInv, B!Loop, B!Get, B!At
<1>2. /\ objects' = objects /\ code' = code /\ shutdown' = shutdown
      /\ handed' = handed /\ late' = late /\ finalized' = finalized
  BY DEF B!Loop, B!Get
<1>3. main.pc \in {"loop", "getting"} /\ (main.pc = "loop" => main'.pc \in {"getting", "ended"})
  BY <1>1 DEF B!Loop, B!Get, B!At, B!Goto, ToolTypes, Mains, Places
<1>11. main \in Mains
  BY <1>1 DEF ToolTypes
<1>12. PICK pc \in {"getting", "ended", "record"}, r \in Int, t \in Nat :
         main' = [pc |-> pc, windows |-> main.windows, tmpl |-> main.tmpl,
                  gap_limit |-> main.gap_limit, minimum_time |-> main.minimum_time,
                  last_time |-> main.last_time, rc |-> r, time |-> t]
  <2>1. CASE B!Loop
    BY <1>11, <2>1 DEF B!Loop, B!Goto, Mains
  <2>2. CASE \E t \in RecordTimes : main' = [main EXCEPT !.rc = 1, !.time = t, !.pc = "record"]
    <3>1. PICK t \in RecordTimes : main' = [main EXCEPT !.rc = 1, !.time = t, !.pc = "record"]
      BY <2>2
    <3>2. main' = [pc |-> "record", windows |-> main.windows, tmpl |-> main.tmpl,
                   gap_limit |-> main.gap_limit, minimum_time |-> main.minimum_time,
                   last_time |-> main.last_time, rc |-> 1, time |-> t]
      BY <1>11, <3>1 DEF Mains
    <3>3. t \in Nat /\ 1 \in Int
      BY LibraryAssumption
    <3> QED
      BY <3>2, <3>3
  <2>3. CASE \E rc \in {0, -1} : main' = [main EXCEPT !.rc = rc, !.pc = "ended"]
    <3>1. PICK rc \in {0, -1} : main' = [main EXCEPT !.rc = rc, !.pc = "ended"]
      BY <2>3
    <3>2. main' = [pc |-> "ended", windows |-> main.windows, tmpl |-> main.tmpl,
                   gap_limit |-> main.gap_limit, minimum_time |-> main.minimum_time,
                   last_time |-> main.last_time, rc |-> rc, time |-> main.time]
      BY <1>11, <3>1 DEF Mains
    <3>3. rc \in Int /\ main.time \in Nat
      BY <1>11 DEF Mains
    <3> QED
      BY <3>2, <3>3
  <2> QED
    BY <2>1, <2>2, <2>3 DEF B!Get
<1>4. /\ main' \in Mains
      /\ main'.windows = main.windows /\ main'.minimum_time = main.minimum_time
      /\ main'.last_time = main.last_time /\ main'.gap_limit = main.gap_limit
      /\ main'.pc \in {"getting", "ended", "record"}
  BY <1>11, <1>12 DEF Mains, Places
<1>5. \/ got' = got /\ main'.pc # "record"
      \/ main'.pc = "record" /\ main'.time \in Nat /\ got' = Append(got, main'.time)
  BY <1>1, LibraryAssumption DEF B!Loop, B!Get, B!Goto, ToolTypes, Mains, Places
<1>6. got' \in Seq(Nat)
  <2>1. got \in Seq(Nat)
    BY <1>1 DEF ToolTypes
  <2>2. \A u \in Nat : Append(got, u) \in Seq(Nat)
    BY <2>1
  <2> QED
    BY <1>5, <2>1, <2>2
<1>7. ToolTypes'
  BY <1>1, <1>2, <1>4, <1>6 DEF ToolTypes, Mains, Places
<1>8. HandedIsGot'
  <2>1. main.minimum_time = B!MinimumTime(main.windows) /\ handed = B!From(got, main.minimum_time)
    BY <1>1, <1>3 DEF ToolRuns, HandedIsGot, Streaming
  <2> QED
    BY <1>1, <1>2, <1>4, <1>5, <2>1 DEF HandedIsGot, Streaming, ToolTypes, Mains, Places
<1>9. LateIsOne'
  <2>1. CASE late = 0
    BY <1>2, <2>1 DEF LateIsOne
  <2>2. CASE late = 1 /\ shutdown > 0 /\ main.pc = "loop"
    <3>1. main'.pc = "ended"
      BY <1>1, <2>2 DEF B!Loop, B!Get, B!At, B!Goto, ToolTypes, Mains, Places
    <3> QED
      BY <1>2, <2>2, <3>1 DEF LateIsOne
  <2> QED
    BY <1>1, <1>3, <2>1, <2>2 DEF ToolRuns, LateIsOne
<1>10. ToolRuns'
  <2>1. main'.windows # <<>>
    BY <1>1, <1>3, <1>4 DEF ToolRuns
  <2> QED
    BY <1>1, <1>2, <1>4, <1>8, <1>9, <2>1 DEF ToolRuns
<1> QED
  BY <1>1, <1>2, <1>4, <1>7, <1>10 DEF ToolInv

\* Q record is left out, handed over, or ends the program.
LEMMA ToolHandsOver ==
  ASSUME ToolInv, part = "tool", part' = part, B!Record
  PROVE  ToolInv'
<1>1. /\ ToolTypes /\ ToolRuns /\ GapsAreShort(handed, main.gap_limit)
      /\ code = B!NONE /\ main.pc = "record"
  BY DEF ToolInv, B!Record, B!At
<1>2. shutdown' = shutdown /\ got' = got /\ finalized' = finalized /\ finalized = 0
  BY <1>1 DEF B!Record, ToolRuns
<1>3. PICK g \in Seq(Nat) : got = Append(g, main.time) /\ handed = B!From(g, main.minimum_time)
  BY <1>1 DEF ToolRuns, HandedIsGot
<1>4. /\ main.minimum_time = B!MinimumTime(main.windows) /\ main.windows # <<>> /\ late = 0
      /\ objects.bgpcorsaro # "freed"
  BY <1>1 DEF ToolRuns, HandedIsGot, LateIsOne, Streaming
<1>5. /\ main.time \in Nat /\ main.minimum_time \in Nat /\ main.last_time \in Nat
      /\ main.gap_limit \in Nat /\ handed \in Seq(Nat) /\ shutdown \in Nat /\ got \in Seq(Nat)
  BY <1>1 DEF ToolTypes, Mains, Places
<1>6. B!From(got, main.minimum_time) =
        IF main.time >= main.minimum_time THEN Append(handed, main.time) ELSE handed
  BY <1>3, <1>5, FromGrows
<1>7. CASE B!TooEarly
  <2>1. /\ main' = [main EXCEPT !.pc = "loop"] /\ handed' = handed /\ late' = late
        /\ objects' = objects /\ code' = code
    BY <1>7 DEF B!Record, B!Goto
  <2>2. B!From(got, main.minimum_time) = handed
    BY <1>5, <1>6, <1>7 DEF B!TooEarly
  <2>3. ToolTypes'
    BY <1>1, <1>2, <2>1 DEF ToolTypes, Mains, Places
  <2>4. main'.pc = "loop" /\ main'.windows = main.windows /\ main'.last_time = main.last_time
        /\ main'.minimum_time = main.minimum_time /\ main'.gap_limit = main.gap_limit
    BY <1>1, <2>1 DEF ToolTypes, Mains, Places
  <2>5. HandedIsGot'
    BY <1>2, <1>4, <2>1, <2>2, <2>4 DEF HandedIsGot, Streaming
  <2>6. ToolRuns'
    BY <1>1, <1>2, <1>4, <2>1, <2>4, <2>5 DEF ToolRuns, LateIsOne
  <2> QED
    BY <1>1, <2>1, <2>3, <2>4, <2>6 DEF ToolInv
<1>8. CASE ~B!TooEarly /\ B!GapExceeded
  <2>1. main' = main /\ handed' = handed /\ late' = late /\ objects' = objects /\ code' = -1
    BY <1>8 DEF B!Record, B!Exit
  <2>2. ToolTypes'
    BY <1>1, <1>2, <2>1 DEF ToolTypes, Mains, Places
  <2>3. ToolEnds'
    BY <1>2, <1>4, <2>1 DEF ToolEnds
  <2> QED
    BY <1>1, <2>1, <2>2, <2>3 DEF ToolInv, B!NONE
<1>9. CASE ~B!TooEarly /\ ~B!GapExceeded
  <2>1. /\ main' = [main EXCEPT !.last_time = main.time, !.pc = "loop"]
        /\ handed' = Append(handed, main.time) /\ late' = IF shutdown > 0 THEN late + 1 ELSE late
    BY <1>9 DEF B!Record
  <2>2. \/ objects' = objects /\ code' = code
        \/ /\ code' = -1
           /\ \E s \in {"started", "freed"} : objects' = [objects EXCEPT !.bgpcorsaro = s]
    BY <1>9 DEF B!Record, B!Exit
  <2>3. B!From(got, main.minimum_time) = handed'
    BY <1>5, <1>6, <1>9, <2>1 DEF B!TooEarly
  <2>4. handed' \in Seq(Nat)
    BY <1>5, <2>1
  <2>5. late' = 0 \/ (late' = 1 /\ shutdown > 0)
    BY <1>4, <1>5, <2>1
  <2>6. objects' \in Objects
    BY <1>1, <2>2 DEF ToolTypes, Objects, States
  <2>7. /\ main' \in Mains
        /\ main'.pc = "loop" /\ main'.windows = main.windows /\ main'.last_time = main.time
        /\ main'.minimum_time = main.minimum_time /\ main'.gap_limit = main.gap_limit
    BY <1>1, <2>1 DEF ToolTypes, Mains, Places
  <2>8. ToolTypes'
    BY <1>2, <1>5, <2>4, <2>5, <2>6, <2>7 DEF ToolTypes, Mains, Places
  <2>9. ~(main.gap_limit > 0 /\ main.last_time > 0 /\ main.time - main.last_time > main.gap_limit)
    BY <1>9 DEF B!GapExceeded
  <2>10. GapsAreShort(handed', main.gap_limit) /\ LastIs(handed', main.time)
    <3>1. LastIs(handed, main.last_time)
      BY <1>1 DEF ToolRuns
    <3> QED
      BY <1>1, <1>5, <2>1, <2>9, <3>1, GapsGrow
  <2>11. HandedIsGot'
    BY <1>2, <1>4, <2>3, <2>7 DEF HandedIsGot, Streaming
  <2>12. CASE objects' = objects /\ code' = code
    <3>1. LateIsOne'
      BY <1>2, <2>5, <2>7 DEF LateIsOne
    <3>2. ToolRuns'
      BY <1>2, <1>4, <2>7, <2>10, <2>11, <2>12, <3>1 DEF ToolRuns
    <3> QED
      BY <1>1, <2>7, <2>8, <2>10, <2>12, <3>2 DEF ToolInv
  <2>13. CASE code' = -1
    <3>1. ToolEnds'
      BY <1>2, <2>5, <2>13 DEF ToolEnds
    <3> QED
      BY <2>7, <2>8, <2>10, <2>13, <3>1 DEF ToolInv, B!NONE
  <2> QED
    BY <2>2, <2>12, <2>13
<1> QED
  BY <1>7, <1>8, <1>9

\* After the loop.
LEMMA ToolFinishes ==
  ASSUME ToolInv, part = "tool", part' = part, B!Finish
  PROVE  ToolInv'
<1>1. /\ ToolTypes /\ ToolRuns /\ GapsAreShort(handed, main.gap_limit)
      /\ code = B!NONE /\ main.pc = "ended"
  BY DEF ToolInv, B!Finish, B!At
<1>2. main' = main /\ shutdown' = shutdown /\ got' = got /\ handed' = handed /\ late' = late
  BY DEF B!Finish
<1>3. /\ main.minimum_time = B!MinimumTime(main.windows) /\ main.windows # <<>>
      /\ handed = B!From(got, main.minimum_time)
      /\ objects.bgpcorsaro # "freed" /\ finalized = 0 /\ late <= 1
  BY <1>1 DEF ToolRuns, HandedIsGot, LateIsOne, Streaming
<1>4. main.rc \in Int
  BY <1>1 DEF ToolTypes, Mains, Places
<1>5. CASE main.rc < 0
  <2>1. objects' = objects /\ finalized' = finalized /\ code' = 1
    BY <1>5 DEF B!Finish, B!Exit
  <2>2. ToolTypes' /\ ToolEnds'
    BY <1>1, <1>2, <1>3, <2>1 DEF ToolTypes, ToolEnds
  <2> QED
    BY <1>1, <1>2, <2>1, <2>2 DEF ToolInv, B!NONE
<1>6. CASE ~(main.rc < 0)
  <2>1. /\ code' = 0 /\ finalized' = 1
        /\ objects' \in Objects
        /\ objects'.bgpcorsaro = "NULL" /\ objects'.record = "NULL"
    <3>1. objects \in Objects
      BY <1>1 DEF ToolTypes
    <3>2. PICK o \in Objects : o.bgpcorsaro = "NULL" /\ B!Ended(o)
      BY <1>6, <3>1 DEF B!Finish, Objects, States
    <3>3. objects' = [[o EXCEPT !.stream = "NULL"] EXCEPT !.record = "NULL", !.bgpcorsaro = "NULL"]
      BY <3>2 DEF B!Ended, B!Clean, Objects
    <3>4. code' = 0 /\ finalized' = 1
      BY <1>3, <3>2 DEF B!Ended, B!Exit, B!CleanFinalizes
    <3> QED
      BY <3>2, <3>3, <3>4 DEF Objects, States
  <2>2. B!ZeroIsLost \/ handed = B!From(got, B!Earliest(main.windows))
    <3>1. /\ B!MinimumTime(main.windows) \in Nat /\ B!Earliest(main.windows) \in Nat
          /\ B!Earliest(main.windows) = 0 \/ B!Earliest(main.windows) = B!MinimumTime(main.windows)
      BY <1>1, <1>3, LibraryAssumption, MinimumTimeIsEarliest DEF ToolTypes, Mains, Places
    <3> QED
      BY <1>3, <3>1 DEF B!ZeroIsLost
  <2>3. B!ZeroIsLost' = B!ZeroIsLost
    BY <1>2 DEF B!ZeroIsLost
  <2>4. ToolEnds'
    BY <1>2, <1>3, <1>4, <1>6, <2>1, <2>2, <2>3 DEF ToolEnds
  <2>5. ToolTypes'
    BY <1>1, <1>2, <2>1 DEF ToolTypes, Mains, Places
  <2> QED
    BY <1>1, <1>2, <2>1, <2>4, <2>5 DEF ToolInv, B!NONE
<1> QED
  BY <1>5, <1>6

\* bgpcorsaro finalizes its output once, hands it what the stream returned, and
\* reports no error as success (main of bgpcorsaro.c), for any windows, limits
\* and streams, and interrupts at any moment.
THEOREM OutputHolds == Spec => []OutputIsComplete
<1>1. Init => ToolInv
  <2> SUFFICES ASSUME Init PROVE ToolInv
    OBVIOUS
  <2>1. /\ main = [pc |-> "options", windows |-> <<>>, tmpl |-> FALSE, gap_limit |-> 0,
                   minimum_time |-> 0, last_time |-> 0, rc |-> 0, time |-> 0]
        /\ objects = [bgpcorsaro |-> "NULL", record |-> "NULL", stream |-> "created"]
        /\ shutdown = 0 /\ code = B!NONE /\ got = <<>> /\ handed = <<>> /\ late = 0
        /\ finalized = 0
    BY DEF Init, B!Init
  <2>2. ToolTypes
    BY <2>1 DEF ToolTypes, Mains, Places, Objects, States
  <2>3. ToolRuns
    BY <2>1 DEF ToolRuns, LastIs, HandedIsGot, LateIsOne, Streaming
  <2> QED
    BY <2>1, <2>2, <2>3, LonelyGaps DEF ToolInv
<1>2. ToolInv /\ [Next]_vars => ToolInv'
  <2> SUFFICES ASSUME ToolInv, [Next]_vars, part' = "tool" PROVE ToolInv'
    BY DEF ToolInv
  <2>1. part' = part
    BY DEF Next, Rest, vars
  <2>2. CASE B!Next /\ part = "tool"
    BY <2>1, <2>2, ToolStarts, ToolInterrupted, ToolAsks, ToolHandsOver, ToolFinishes
    DEF B!Next, B!Option, B!AllocOutput, B!StartOutput, B!StartStream, B!At
  <2>3. CASE UNCHANGED vars
    <3>1. /\ main' = main /\ objects' = objects /\ code' = code /\ got' = got
          /\ handed' = handed /\ late' = late /\ finalized' = finalized
          /\ shutdown' = shutdown /\ part' = part
      BY <2>3 DEF vars, tool_vars
    <3>2. ToolTypes' = ToolTypes /\ LateIsOne' = LateIsOne /\ HandedIsGot' = HandedIsGot
          /\ B!ZeroIsLost' = B!ZeroIsLost
      BY <3>1 DEF ToolTypes, LateIsOne, HandedIsGot, B!ZeroIsLost
    <3>3. ToolRuns' = ToolRuns /\ ToolEnds' = ToolEnds
      BY <3>1, <3>2 DEF ToolRuns, ToolEnds
    <3> QED
      BY <3>1, <3>2, <3>3 DEF ToolInv
  <2> QED
    BY <2>1, <2>2, <2>3 DEF Next
<1>3. ToolInv => OutputIsComplete
  BY ToolInvEnough
<1> QED
  BY <1>1, <1>2, <1>3, PTL DEF Spec

-----------------------------------------------------------------------------
(* Setting up a stream                                                     *)

LEMMA SameMaxOfCalls == \A u : G!Max(u) = Max(u)
  BY Zenon DEF G!Max, Max

\* The calls among some, call by call.
AddCall(which) == [p \in Seq(Calls) \X Calls |-> IF p[2] \in which THEN Append(p[1], p[2]) ELSE p[1]]

LEMMA AddCallType == \A which : FoldType(Seq(Calls), Calls, <<>>, AddCall(which))
<1> TAKE which
<1>1. ASSUME NEW p \in Seq(Calls) \X Calls
      PROVE  (IF p[2] \in which THEN Append(p[1], p[2]) ELSE p[1]) \in Seq(Calls)
  <2>1. p[1] \in Seq(Calls) /\ p[2] \in Calls
    OBVIOUS
  <2> QED
    BY <2>1
<1>2. <<>> \in Seq(Calls)
  OBVIOUS
<1> QED
  BY <1>1, <1>2 DEF FoldType, AddCall

LEMMA AmongIsFolded ==
  ASSUME NEW which, NEW s \in Seq(Calls)
  PROVE  G!Among(s, which) = Folded(Seq(Calls), <<>>, AddCall(which), s)
<1> DEFINE F == AddCall(which)
<1>1. FoldType(Seq(Calls), Calls, <<>>, F)
  BY AddCallType
<1>2. \A f \in Seq(Calls), c \in Calls : F[<<f, c>>] = IF c \in which THEN Append(f, c) ELSE f
  BY DEF AddCall
<1> HIDE DEF F
<1>3. DOMAIN s = 1..Len(s) /\ Len(s) \in Nat /\ \A i \in 1..Len(s) : s[i] \in Calls
  BY LenProperties
<1> DEFINE Eq(it) == it = [u \in SUBSET DOMAIN s |->
                             IF u = {} THEN <<>>
                             ELSE IF s[G!Max(u)] \in which
                                  THEN Append(it[u \ {G!Max(u)}], s[G!Max(u)])
                                  ELSE it[u \ {G!Max(u)}]]
<1>4. G!Among(s, which) = (CHOOSE it : Eq(it))[DOMAIN s]
  BY Zenon DEF G!Among, G!FoldLeft, G!MapThenFoldSet
<1>5. \A u \in SUBSET DOMAIN s : u # {} => Max(u) \in DOMAIN s
  BY <1>3, MaxOfPositions
<1>6. \E it : Eq(it)
  <2>0. SetFolds(Seq(Calls), <<>>, F, s) # {}
    BY <1>1, SetFoldsExist
  <2>1. PICK it \in [SUBSET DOMAIN s -> Seq(Calls)] :
          \A u \in SUBSET DOMAIN s :
            it[u] = IF u = {} THEN <<>> ELSE F[<<it[u \ {Max(u)}], s[Max(u)]>>]
    BY <2>0 DEF SetFolds
  <2>2. ASSUME NEW u \in SUBSET DOMAIN s, u # {}
        PROVE  F[<<it[u \ {Max(u)}], s[Max(u)]>>] =
                 IF s[G!Max(u)] \in which THEN Append(it[u \ {G!Max(u)}], s[G!Max(u)])
                 ELSE it[u \ {G!Max(u)}]
    <3>1. s[Max(u)] \in Calls /\ it[u \ {Max(u)}] \in Seq(Calls)
      BY <1>3, <1>5, <2>1, <2>2
    <3> QED
      BY <1>2, <3>1, SameMaxOfCalls
  <2>3. Eq(it)
    BY <2>1, <2>2
  <2> QED
    BY <2>3
<1>7. PICK it : Eq(it) /\ G!Among(s, which) = it[DOMAIN s]
  BY <1>4, <1>6
<1>8. IsSetFold(it, Seq(Calls), <<>>, F, s)
  <2>1. it[{}] = <<>>
    BY <1>7
  <2>2. ASSUME NEW u \in SUBSET DOMAIN s, u # {}, it[u \ {Max(u)}] \in Seq(Calls)
        PROVE  it[u] = F[<<it[u \ {Max(u)}], s[Max(u)]>>]
    <3>1. it[u] = IF s[Max(u)] \in which THEN Append(it[u \ {Max(u)}], s[Max(u)])
                  ELSE it[u \ {Max(u)}]
      BY <1>7, <2>2, SameMaxOfCalls
    <3>2. s[Max(u)] \in Calls
      BY <1>3, <1>5, <2>2
    <3> QED
      BY <1>2, <2>2, <3>1, <3>2
  <2> QED
    BY <2>1, <2>2 DEF IsSetFold
<1>9. it[DOMAIN s] = Folded(Seq(Calls), <<>>, F, s)
  BY <1>1, <1>8, SetFoldIsFolded
<1> QED
  BY <1>7, <1>9 DEF F

LEMMA AmongGrows ==
  ASSUME NEW which, NEW s \in Seq(Calls)
  PROVE  /\ G!Among(<<>>, which) = <<>> /\ G!Among(s, which) \in Seq(Calls)
         /\ \A c \in Calls : G!Among(Append(s, c), which) =
                              IF c \in which THEN Append(G!Among(s, which), c) ELSE G!Among(s, which)
<1> DEFINE F == AddCall(which)
<1>1. \A f \in Seq(Calls), c \in Calls : F[<<f, c>>] = IF c \in which THEN Append(f, c) ELSE f
  BY DEF AddCall
<1>2. \A u \in Seq(Calls) : G!Among(u, which) = Folded(Seq(Calls), <<>>, F, u)
  BY AmongIsFolded
<1>3. FoldType(Seq(Calls), Calls, <<>>, F)
  BY AddCallType
<1> HIDE DEF F
<1>4. /\ Folded(Seq(Calls), <<>>, F, <<>>) = <<>>
      /\ Folded(Seq(Calls), <<>>, F, s) \in Seq(Calls)
  BY <1>3, FoldedEmpty, FoldedType
<1>7. \A c \in Calls : Folded(Seq(Calls), <<>>, F, Append(s, c)) = F[<<Folded(Seq(Calls), <<>>, F, s), c>>]
  BY <1>3, FoldedAppend
<1>5. /\ <<>> \in Seq(Calls)
      /\ \A c \in Calls : Append(s, c) \in Seq(Calls)
  OBVIOUS
<1>8. G!Among(s, which) \in Seq(Calls)
  BY <1>2, <1>4
<1>6. ASSUME NEW c \in Calls
      PROVE  G!Among(Append(s, c), which) =
               IF c \in which THEN Append(G!Among(s, which), c) ELSE G!Among(s, which)
  <2>2. G!Among(Append(s, c), which) = F[<<G!Among(s, which), c>>]
    BY <1>2, <1>5, <1>7
  <2> QED
    BY <1>1, <1>8, <2>2
<1> QED
  BY <1>2, <1>4, <1>5, <1>6, <1>8

\* What one more call asks for.
LEMMA OneMoreCall ==
  ASSUME NEW c \in Calls, calls \in Seq(Calls), calls' = Append(calls, c)
  PROVE  /\ G!AskedInterface' = IF c.op = "interface" THEN c.interface ELSE G!AskedInterface
         /\ G!AskedPeriod' = IF c.op = "rib_period" THEN c.period ELSE G!AskedPeriod
         /\ \A o : G!AskedOption(o)' = IF c.op = "option" /\ c.option = o THEN c.value
                                       ELSE G!AskedOption(o)
         /\ G!AskedParams' = IF c.op = "option" /\ c.option = G!PARAM
                             THEN Append(G!AskedParams, c.value) ELSE G!AskedParams
         /\ G!AskedTimes \in Seq(Calls)
         /\ G!AskedTimes' = IF c \in G!Times THEN Append(G!AskedTimes, c) ELSE G!AskedTimes
         /\ G!AskedLive' = (c \in G!Live \/ G!AskedLive)
<1>1. \A which : /\ G!Among(calls, which) \in Seq(Calls)
                /\ G!Among(calls', which) = IF c \in which THEN Append(G!Among(calls, which), c)
                                           ELSE G!Among(calls, which)
  BY AmongGrows
<1>2. ASSUME NEW q \in Seq(Calls)
      PROVE  Append(q, c) # <<>> /\ G!Last(Append(q, c)) = c
  <2>1. Len(Append(q, c)) = Len(q) + 1 /\ Append(q, c)[Len(q) + 1] = c /\ Len(q) \in Nat
    OBVIOUS
  <2> QED
    BY <2>1 DEF G!Last
<1>3. \A which : c \in which =>
        G!Among(calls', which) # <<>> /\ G!Last(G!Among(calls', which)) = c
  BY <1>1, <1>2
<1>4. \A which : c \notin which => G!Among(calls', which) = G!Among(calls, which)
  BY <1>1
<1>5. G!AskedInterface' = IF c.op = "interface" THEN c.interface ELSE G!AskedInterface
  <2>1. (c \in G!Choosing) = (c.op = "interface")
    BY DEF G!Choosing
  <2> QED
    BY <1>3, <1>4, <2>1 DEF G!AskedInterface, G!Made, G!Choosing
<1>6. G!AskedPeriod' = IF c.op = "rib_period" THEN c.period ELSE G!AskedPeriod
  <2>1. (c \in G!Periods) = (c.op = "rib_period")
    BY DEF G!Periods
  <2> QED
    BY <1>3, <1>4, <2>1 DEF G!AskedPeriod, G!Made, G!Periods
<1>7. ASSUME NEW o
      PROVE  G!AskedOption(o)' = IF c.op = "option" /\ c.option = o THEN c.value
                                 ELSE G!AskedOption(o)
  <2>1. (c \in G!Setting(o)) = (c.op = "option" /\ c.option = o)
    BY DEF G!Setting
  <2> QED
    BY <1>3, <1>4, <2>1 DEF G!AskedOption, G!Made, G!Setting
<1>8. G!AskedParams' = IF c.op = "option" /\ c.option = G!PARAM
                       THEN Append(G!AskedParams, c.value) ELSE G!AskedParams
  <2>1. (c \in G!Setting(G!PARAM)) = (c.op = "option" /\ c.option = G!PARAM)
    BY DEF G!Setting
  <2>2. PICK q \in Seq(Calls) : q = G!Among(calls, G!Setting(G!PARAM))
    BY <1>1
  <2>8. Append(q, c) \in Seq(Calls)
    BY <2>2
  <2>3. PICK r \in Seq(Calls) : r = Append(q, c)
    BY <2>8
  <2>4. [i \in DOMAIN r |-> r[i].value] = Append([i \in DOMAIN q |-> q[i].value], c.value)
    <3>1. Len(q) \in Nat /\ DOMAIN q = 1..Len(q) /\ DOMAIN r = 1..(Len(q) + 1)
          /\ (\A i \in 1..Len(q) : r[i] = q[i]) /\ r[Len(q) + 1] = c
      BY <2>3, LenProperties
    <3>2. Len([i \in DOMAIN q |-> q[i].value]) = Len(q)
      BY <3>1
    <3> QED
      BY <3>1, <3>2
  <2>5. G!AskedParams = [i \in DOMAIN q |-> q[i].value]
    BY <2>2 DEF G!AskedParams, G!Made
  <2>6. CASE c \in G!Setting(G!PARAM)
    <3>1. G!Among(calls', G!Setting(G!PARAM)) = r
      BY <1>1, <2>2, <2>3, <2>6
    <3>2. G!AskedParams' = [i \in DOMAIN r |-> r[i].value]
      BY <3>1 DEF G!AskedParams, G!Made, G!Setting, G!PARAM
    <3> QED
      BY <2>1, <2>4, <2>5, <2>6, <3>2
  <2>7. CASE c \notin G!Setting(G!PARAM)
    <3>1. G!Among(calls', G!Setting(G!PARAM)) = q
      BY <1>1, <2>2, <2>7
    <3>2. G!AskedParams' = [i \in DOMAIN q |-> q[i].value]
      BY <3>1 DEF G!AskedParams, G!Made, G!Setting, G!PARAM
    <3> QED
      BY <2>1, <2>5, <2>7, <3>2
  <2> QED
    BY <2>6, <2>7
<1>9. /\ G!AskedTimes \in Seq(Calls)
      /\ G!AskedTimes' = IF c \in G!Times THEN Append(G!AskedTimes, c) ELSE G!AskedTimes
  BY <1>1 DEF G!AskedTimes, G!Made, G!Times, G!UnitSecs
<1>10. G!AskedLive' = (c \in G!Live \/ G!AskedLive)
  <2>1. c \in G!Live => G!Among(calls', G!Live) # <<>>
    BY <1>3
  <2>2. c \notin G!Live => G!Among(calls', G!Live) = G!Among(calls, G!Live)
    BY <1>4
  <2>3. G!AskedLive' = (G!Among(calls', G!Live) # <<>>)
    BY DEF G!AskedLive, G!Made, G!Live, G!UnitSecs, G!FOREVER
  <2>4. G!AskedLive = (G!Among(calls, G!Live) # <<>>)
    BY DEF G!AskedLive, G!Made
  <2> QED
    BY <2>1, <2>2, <2>3, <2>4
<1> QED
  BY <1>5, <1>6, <1>7, <1>8, <1>9, <1>10

Statuses == {"ALLOCATED", "ON", "OFF", "FREED"}
Values == STRING \cup {"default", G!NOT_SET}
Interval == [begin_time : Nat, end_time : Nat]
SetupTypes ==
  /\ bs \in [status : Statuses, datasource : G!Interfaces, blocking : BOOLEAN,
             ds_status : {"OFF", "ON", "ERROR"}, options : [G!Options -> Values],
             broker_params : Seq(STRING), time_intervals : Seq(Interval), rib_period : Nat]
  /\ calls \in Seq(Calls)

\* The intervals are the newest first.
TimesAsked(intervals, asked_times) ==
  /\ Len(intervals) = Len(asked_times)
  /\ \A i \in 1..Len(asked_times) :
       G!IsAsked(intervals[Len(intervals) - i + 1], asked_times[i])

\* Started or not, the stream is set up as was asked for.
SetupIsAsked ==
  /\ bs.datasource = G!AskedInterface
  /\ bs.rib_period = G!AskedPeriod
  /\ bs.blocking = G!AskedLive
  /\ bs.broker_params = G!AskedParams
  /\ \A o \in G!Options : o # G!URL => bs.options[o] = G!AskedOption(o)
  /\ \/ bs.options[G!URL] = G!AskedOption(G!URL)
     \/ G!AskedOption(<<"sqlite", 0>>) # G!NOT_SET
  /\ G!AskedTimes \in Seq(Calls)
  /\ TimesAsked(bs.time_intervals, G!AskedTimes)

SourceIsMade ==
  IF bs.status = "ON"
  THEN /\ bs.ds_status = "ON" /\ G!Valid(bs)
       /\ ds = [i \in G!Interfaces |-> IF i = bs.datasource THEN G!Created(bs) ELSE G!NULL]
  ELSE ds = [i \in G!Interfaces |-> G!NULL]

SetupInv ==
  part = "setup" => SetupTypes /\ SourceIsMade /\ (bs.status # "FREED" => SetupIsAsked)

LEMMA OneMoreTime ==
  ASSUME NEW ti \in Seq(Interval), NEW at \in Seq(Calls), TimesAsked(ti, at),
         NEW c \in Calls, NEW t \in Interval, G!IsAsked(t, c)
  PROVE  TimesAsked(<<t>> \o ti, Append(at, c))
<1>1. /\ Len(<<t>> \o ti) = Len(ti) + 1 /\ Len(ti) \in Nat /\ (<<t>> \o ti)[1] = t
      /\ \A i \in 1..Len(ti) : (<<t>> \o ti)[i + 1] = ti[i]
  OBVIOUS
<1>2. /\ Len(Append(at, c)) = Len(at) + 1 /\ Append(at, c)[Len(at) + 1] = c
      /\ \A i \in 1..Len(at) : Append(at, c)[i] = at[i]
  OBVIOUS
<1>3. Len(ti) = Len(at)
  BY DEF TimesAsked
<1>4. ASSUME NEW i \in 1..Len(Append(at, c))
      PROVE  G!IsAsked((<<t>> \o ti)[Len(<<t>> \o ti) - i + 1], Append(at, c)[i])
  <2>1. CASE i = Len(at) + 1
    <3>1. Len(<<t>> \o ti) - i + 1 = 1
      BY <1>1, <1>3, <2>1
    <3> QED
      BY <1>1, <1>2, <2>1, <3>1
  <2>2. CASE i # Len(at) + 1
    <3>1. i \in 1..Len(at)
      BY <1>1, <1>2, <1>3, <2>2
    <3>2. Len(ti) - i + 1 \in 1..Len(ti) /\ Len(<<t>> \o ti) - i + 1 = (Len(ti) - i + 1) + 1
      BY <1>1, <1>3, <3>1
    <3>3. (<<t>> \o ti)[Len(<<t>> \o ti) - i + 1] = ti[Len(ti) - i + 1]
      BY <1>1, <3>2
    <3>4. G!IsAsked(ti[Len(ti) - i + 1], at[i])
      BY <3>1 DEF TimesAsked
    <3> QED
      BY <1>2, <3>1, <3>3, <3>4
  <2> QED
    BY <2>1, <2>2
<1> QED
  BY <1>1, <1>2, <1>3, <1>4 DEF TimesAsked

\* An interval that goes back from now.
LEMMA RecentIsAsked ==
  ASSUME NEW count \in Nat, NEW unit \in DOMAIN G!UnitSecs
  PROVE  /\ G!RecentStart(count, unit) \in Nat
         /\ count * G!UnitSecs[unit] <= Now
              => G!RecentStart(count, unit) = Now - count * G!UnitSecs[unit]
<1>1. DOMAIN G!UnitSecs = {"s", "m", "h", "d"} /\ G!UnitSecs[unit] \in Nat
  BY DEF G!UnitSecs
<1>2. PICK secs : secs = count * G!UnitSecs[unit]
  OBVIOUS
<1>3. secs \in Nat
  BY <1>1, <1>2
<1>4. TIMES \in Nat /\ TIMES > 0 /\ Now \in Nat /\ Now < TIMES
  BY SetupAssumption
<1>5. G!RecentStart(count, unit) = (Now - (secs % TIMES)) % TIMES
  BY <1>2 DEF G!RecentStart
<1>6. secs % TIMES \in Nat
  BY <1>3, <1>4
<1>7. (Now - (secs % TIMES)) % TIMES \in Nat
  BY <1>4, <1>6
<1>8. \A x \in Nat : x < TIMES => x % TIMES = x
  BY <1>4
<1>9. ASSUME secs <= Now PROVE (Now - (secs % TIMES)) % TIMES = Now - secs
  <2>1. secs % TIMES = secs
    BY <1>3, <1>4, <1>8, <1>9
  <2>2. Now - secs \in Nat /\ Now - secs < TIMES
    BY <1>3, <1>4, <1>9
  <2> QED
    BY <1>8, <2>1, <2>2
<1> QED
  BY <1>2, <1>5, <1>7, <1>9

\* A setter sets what was asked for.
LEMMA SettersSet ==
  ASSUME NEW c \in Calls, SetupTypes, SetupIsAsked,
         bs' = G!Apply(bs, c), calls' = Append(calls, c)
  PROVE  SetupTypes' /\ SetupIsAsked' /\ bs'.status = bs.status
<1> DEFINE Streams == [status : Statuses, datasource : G!Interfaces, blocking : BOOLEAN,
             ds_status : {"OFF", "ON", "ERROR"}, options : [G!Options -> Values],
             broker_params : Seq(STRING), time_intervals : Seq(Interval), rib_period : Nat]
<1>1. bs \in Streams /\ calls \in Seq(Calls)
  BY DEF SetupTypes
<1>2. calls' \in Seq(Calls)
  BY <1>1
<1>3. c \in G!SetterCalls
  BY SetupAssumption
<1>4. \A o : G!AskedOption(o)' = IF c.op = "option" /\ c.option = o THEN c.value
                                 ELSE G!AskedOption(o)
  BY <1>1, OneMoreCall
<1>5. /\ G!AskedInterface' = IF c.op = "interface" THEN c.interface ELSE G!AskedInterface
      /\ G!AskedPeriod' = IF c.op = "rib_period" THEN c.period ELSE G!AskedPeriod
      /\ G!AskedParams' = IF c.op = "option" /\ c.option = G!PARAM
                          THEN Append(G!AskedParams, c.value) ELSE G!AskedParams
      /\ G!AskedTimes \in Seq(Calls)
      /\ G!AskedTimes' = IF c \in G!Times THEN Append(G!AskedTimes, c) ELSE G!AskedTimes
      /\ G!AskedLive' = (c \in G!Live \/ G!AskedLive)
  BY <1>1, OneMoreCall
<1>6. /\ bs.datasource = G!AskedInterface
      /\ bs.rib_period = G!AskedPeriod
      /\ bs.blocking = G!AskedLive
      /\ bs.broker_params = G!AskedParams
      /\ \A o \in G!Options : o # G!URL => bs.options[o] = G!AskedOption(o)
      /\ \/ bs.options[G!URL] = G!AskedOption(G!URL)
         \/ G!AskedOption(<<"sqlite", 0>>) # G!NOT_SET
      /\ TimesAsked(bs.time_intervals, G!AskedTimes)
  BY DEF SetupIsAsked
<1>7. CASE c.op = "live"
  <2>1. bs' = [bs EXCEPT !.blocking = TRUE]
    BY <1>7 DEF G!Apply, G!SetLiveMode
  <2>2. c \in G!Live /\ c \notin G!Times
    BY <1>7 DEF G!Live, G!Times
  <2>3. bs' \in Streams
    BY <1>1, <2>1
  <2>4. SetupIsAsked'
    BY <1>1, <1>4, <1>5, <1>6, <1>7, <2>1, <2>2 DEF SetupIsAsked
  <2> QED
    BY <1>1, <1>2, <2>1, <2>3, <2>4 DEF SetupTypes
<1>8. CASE c.op = "rib_period"
  <2>1. bs' = [bs EXCEPT !.rib_period = c.period] /\ c.period \in Nat
    BY <1>3, <1>8 DEF G!Apply, G!SetterCalls
  <2>2. c \notin G!Live /\ c \notin G!Times
    BY <1>8 DEF G!Live, G!Times
  <2>3. bs' \in Streams
    BY <1>1, <2>1
  <2>4. SetupIsAsked'
    BY <1>1, <1>4, <1>5, <1>6, <1>8, <2>1, <2>2 DEF SetupIsAsked
  <2> QED
    BY <1>1, <1>2, <2>1, <2>3, <2>4 DEF SetupTypes
<1>9. CASE c.op = "interface"
  <2>1. bs' = [bs EXCEPT !.datasource = c.interface] /\ c.interface \in G!Interfaces
    BY <1>3, <1>9 DEF G!Apply, G!SetterCalls
  <2>2. c \notin G!Live /\ c \notin G!Times
    BY <1>9 DEF G!Live, G!Times
  <2>3. bs' \in Streams
    BY <1>1, <2>1
  <2>4. SetupIsAsked'
    BY <1>1, <1>4, <1>5, <1>6, <1>9, <2>1, <2>2 DEF SetupIsAsked
  <2> QED
    BY <1>1, <1>2, <2>1, <2>3, <2>4 DEF SetupTypes
<1>10. ASSUME NEW t \in Interval, NEW live \in BOOLEAN, c.op \in {"interval", "recent"},
              G!IsAsked(t, c), c \in G!Times, (c \in G!Live) = live,
              bs' = [bs EXCEPT !.blocking = IF live THEN TRUE ELSE @,
                               !.time_intervals = <<t>> \o @]
       PROVE  SetupTypes' /\ SetupIsAsked' /\ bs'.status = bs.status
  <2>1. bs.time_intervals \in Seq(Interval) /\ bs.blocking \in BOOLEAN
    BY <1>1
  <2>2. <<t>> \o bs.time_intervals \in Seq(Interval)
    BY <2>1
  <2>3. (IF live THEN TRUE ELSE bs.blocking) \in BOOLEAN
    BY <2>1
  <2>4. bs' \in Streams
    BY <1>1, <1>10, <2>2, <2>3
  <2>5. TimesAsked(<<t>> \o bs.time_intervals, Append(G!AskedTimes, c))
    BY <1>5, <1>6, <1>10, <2>1, OneMoreTime
  <2>6. Append(G!AskedTimes, c) \in Seq(Calls) /\ G!AskedTimes' = Append(G!AskedTimes, c)
    BY <1>5, <1>10
  <2>7. /\ bs'.time_intervals = <<t>> \o bs.time_intervals
        /\ bs'.blocking = IF live THEN TRUE ELSE bs.blocking
        /\ bs'.datasource = bs.datasource /\ bs'.options = bs.options
        /\ bs'.broker_params = bs.broker_params /\ bs'.rib_period = bs.rib_period
        /\ bs'.status = bs.status
    BY <1>1, <1>10
  <2>8. c.op # "option" /\ c.op # "interface" /\ c.op # "rib_period"
    BY <1>10
  <2>9. bs'.blocking = G!AskedLive'
    BY <1>5, <1>6, <1>10, <2>1, <2>7
  <2>10. SetupIsAsked'
    BY <1>4, <1>5, <1>6, <2>5, <2>6, <2>7, <2>8, <2>9 DEF SetupIsAsked
  <2> QED
    BY <1>2, <2>4, <2>7, <2>10 DEF SetupTypes
<1>11. CASE c.op = "interval"
  <2>1. c.begin \in Nat /\ c.end \in Nat
    BY <1>3, <1>11 DEF G!SetterCalls
  <2>2. PICK t \in Interval : t = [begin_time |-> c.begin, end_time |-> c.end]
    BY <2>1 DEF Interval
  <2>3. PICK live \in BOOLEAN : live = (c.end = G!FOREVER)
    OBVIOUS
  <2>4. G!IsAsked(t, c) /\ c \in G!Times /\ (c \in G!Live) = live
    BY <1>11, <2>2, <2>3 DEF G!IsAsked, G!Times, G!Live
  <2>5. bs' = [bs EXCEPT !.blocking = IF live THEN TRUE ELSE @, !.time_intervals = <<t>> \o @]
    <3>1. bs' = [(IF live THEN [bs EXCEPT !.blocking = TRUE] ELSE bs) EXCEPT
                   !.time_intervals = <<t>> \o @]
      BY <1>11, <2>2, <2>3
      DEF G!Apply, G!AddIntervalFilter, G!IntervalFilterAdd, G!SetLiveMode
    <3> QED
      BY <1>1, <3>1
  <2> QED
    BY <1>10, <1>11, <2>4, <2>5
<1>12. CASE c.op = "recent" /\ c.unit \notin DOMAIN G!UnitSecs
  <2>1. bs' = bs
    BY <1>12 DEF G!Apply, G!AddRecentIntervalFilter
  <2>2. c \notin G!Live /\ c \notin G!Times
    BY <1>12 DEF G!Live, G!Times
  <2>3. SetupIsAsked'
    <3>1. c.op # "option" /\ c.op # "interface" /\ c.op # "rib_period"
      BY <1>12
    <3>2. /\ G!AskedInterface' = G!AskedInterface /\ G!AskedPeriod' = G!AskedPeriod
          /\ G!AskedParams' = G!AskedParams /\ G!AskedTimes' = G!AskedTimes
          /\ G!AskedLive' = G!AskedLive
      BY <1>5, <2>2, <3>1 DEF G!AskedLive
    <3>3. \A o : G!AskedOption(o)' = G!AskedOption(o)
      BY <1>4, <3>1
    <3> QED
      BY <1>5, <1>6, <2>1, <3>2, <3>3 DEF SetupIsAsked
  <2> QED
    BY <1>1, <1>2, <2>1, <2>3 DEF SetupTypes
<1>13. CASE c.op = "recent" /\ c.unit \in DOMAIN G!UnitSecs
  <2>1. c.count \in Nat /\ c.islive \in BOOLEAN /\ Now \in Nat
    BY <1>3, <1>13, SetupAssumption DEF G!SetterCalls
  <2>2. /\ G!RecentStart(c.count, c.unit) \in Nat
        /\ c.count * G!UnitSecs[c.unit] <= Now
              => G!RecentStart(c.count, c.unit) = Now - c.count * G!UnitSecs[c.unit]
    BY <1>13, <2>1, RecentIsAsked
  <2>3. PICK t \in Interval : t = [begin_time |-> G!RecentStart(c.count, c.unit),
                                   end_time |-> IF c.islive THEN G!FOREVER ELSE Now]
    BY <2>1, <2>2 DEF Interval, G!FOREVER
  <2>4. G!IsAsked(t, c) /\ c \in G!Times /\ (c \in G!Live) = c.islive
    <3>1. G!IsAsked(t, c)
      BY <1>13, <2>1, <2>2, <2>3 DEF G!IsAsked
    <3>2. c \in G!Times
      BY <1>13 DEF G!Times
    <3>3. (c \in G!Live) = c.islive
      BY <1>13, <2>1 DEF G!Live
    <3> QED
      BY <3>1, <3>2, <3>3
  <2>5. bs' = [bs EXCEPT !.blocking = IF c.islive THEN TRUE ELSE @, !.time_intervals = <<t>> \o @]
    <3>1. bs' = [(IF c.islive THEN [bs EXCEPT !.blocking = TRUE] ELSE bs) EXCEPT
                   !.time_intervals = <<t>> \o @]
      BY <1>13, <2>1, <2>3
      DEF G!Apply, G!AddRecentIntervalFilter, G!IntervalFilterAdd, G!SetLiveMode
    <3> QED
      BY <1>1, <2>1, <3>1
  <2> QED
    BY <1>10, <1>13, <2>1, <2>4, <2>5
<1>14. CASE c.op = "option"
  <2>1. c.value \in STRING /\ c.value # G!NOT_SET /\ c.option \in G!Options \cup {G!PARAM}
    BY <1>3, <1>14 DEF G!SetterCalls
  <2>2. c \notin G!Live /\ c \notin G!Times
    BY <1>14 DEF G!Live, G!Times
  <2>7. c.value \in Values
    BY <2>1 DEF Values
  <2>3. c.option # G!PARAM => c.option \in G!Options
    BY <2>1
  <2>4. G!URL \in G!Options /\ G!PARAM \notin G!Options /\ <<"sqlite", 0>> # G!PARAM
        /\ <<"sqlite", 0>> \in G!Options /\ <<"sqlite", 0>> # G!URL
        /\ \A o \in G!Options : o[1] = "sqlite" => o = <<"sqlite", 0>> /\ <<"broker", o[2]>> = G!URL
    BY DEF G!URL, G!Options, G!PARAM
  <2>5. CASE c.option = G!PARAM
    <3>1. bs' = [bs EXCEPT !.broker_params = Append(@, c.value)]
      BY <1>14, <2>5
      DEF G!Apply, G!SetDataInterfaceOption, G!StoreOption, G!PARAM
    <3>2. Append(bs.broker_params, c.value) \in Seq(STRING)
      BY <1>1, <2>1
    <3>3. bs' \in Streams
      BY <1>1, <3>1, <3>2
    <3>4. \A o \in G!Options : G!AskedOption(o)' = G!AskedOption(o)
      BY <1>4, <2>4, <2>5
    <3>5. SetupIsAsked'
      BY <1>1, <1>5, <1>6, <1>14, <2>2, <2>4, <2>5, <3>1, <3>4 DEF SetupIsAsked
    <3> QED
      BY <1>1, <1>2, <3>1, <3>3, <3>5 DEF SetupTypes
  <2>6. CASE c.option \in G!Options
    <3>1. c.option # G!PARAM /\ bs.options \in [G!Options -> Values]
      BY <1>1, <2>4, <2>6
    <3>2. PICK opts \in [G!Options -> Values] :
            /\ bs' = [bs EXCEPT !.options = opts]
            /\ \A o \in G!Options : o # G!URL =>
                 opts[o] = IF o = c.option THEN c.value ELSE bs.options[o]
            /\ c.option = G!URL => opts[G!URL] = c.value
            /\ opts[G!URL] = bs.options[G!URL] \/ c.option \in {G!URL, <<"sqlite", 0>>}
      <4>1. CASE c.option[1] = "sqlite"
        <5>1. c.option = <<"sqlite", 0>> /\ <<"broker", c.option[2]>> = G!URL /\ G!URL # G!PARAM
          BY <2>4, <2>6, <4>1
        <5>2. bs' = [[bs EXCEPT !.options[c.option] = c.value] EXCEPT !.options[G!URL] = c.value]
          BY <1>14, <3>1, <4>1, <5>1 DEF G!Apply, G!SetDataInterfaceOption, G!StoreOption
        <5>3. PICK opts : opts = [[bs.options EXCEPT ![c.option] = c.value] EXCEPT ![G!URL] = c.value]
          OBVIOUS
        <5>4. opts \in [G!Options -> Values]
          BY <2>7, <2>4, <2>6, <3>1, <5>3
        <5>5. bs' = [bs EXCEPT !.options = opts]
          BY <1>1, <5>2, <5>3
        <5>6. \A o \in G!Options : o # G!URL =>
                 opts[o] = IF o = c.option THEN c.value ELSE bs.options[o]
          BY <3>1, <5>3
        <5> QED
          BY <2>4, <5>1, <5>4, <5>5, <5>6
      <4>2. CASE c.option[1] # "sqlite"
        <5>1. bs' = [bs EXCEPT !.options[c.option] = c.value]
          BY <1>14, <3>1, <4>2 DEF G!Apply, G!SetDataInterfaceOption, G!StoreOption
        <5>2. PICK opts : opts = [bs.options EXCEPT ![c.option] = c.value]
          OBVIOUS
        <5>3. opts \in [G!Options -> Values]
          BY <2>6, <2>7, <3>1, <5>2
        <5>4. bs' = [bs EXCEPT !.options = opts]
          BY <1>1, <5>1, <5>2
        <5>5. \A o \in G!Options : opts[o] = IF o = c.option THEN c.value ELSE bs.options[o]
          BY <2>6, <3>1, <5>2
        <5> QED
          BY <2>4, <2>6, <5>3, <5>4, <5>5
      <4> QED
        BY <4>1, <4>2
    <3>3. /\ bs'.options = opts /\ bs'.datasource = bs.datasource
          /\ bs'.broker_params = bs.broker_params /\ bs'.rib_period = bs.rib_period
          /\ bs'.blocking = bs.blocking /\ bs'.time_intervals = bs.time_intervals
          /\ bs'.status = bs.status
      BY <1>1, <3>2
    <3>4. bs' \in Streams
      BY <1>1, <3>2
    <3>5. /\ G!AskedInterface' = G!AskedInterface /\ G!AskedPeriod' = G!AskedPeriod
          /\ G!AskedParams' = G!AskedParams /\ G!AskedTimes' = G!AskedTimes
          /\ G!AskedLive' = G!AskedLive
      BY <1>5, <1>14, <2>2, <3>1 DEF G!AskedLive
    <3>6. \A o \in G!Options : G!AskedOption(o)' = IF c.option = o THEN c.value ELSE G!AskedOption(o)
      BY <1>4, <1>14
    <3>7. \A o \in G!Options : o # G!URL => opts[o] = G!AskedOption(o)'
      BY <1>6, <3>2, <3>6
    <3>8. opts[G!URL] = G!AskedOption(G!URL)' \/ G!AskedOption(<<"sqlite", 0>>)' # G!NOT_SET
      BY <1>6, <2>1, <2>4, <3>2, <3>6
    <3>9. SetupIsAsked'
      BY <1>5, <1>6, <3>3, <3>5, <3>7, <3>8 DEF SetupIsAsked, G!URL, G!NOT_SET, G!Options
    <3> QED
      BY <1>2, <3>3, <3>4, <3>9 DEF SetupTypes
  <2> QED
    BY <2>3, <2>5, <2>6
<1> QED
  BY <1>3, <1>7, <1>8, <1>9, <1>11, <1>12, <1>13, <1>14 DEF G!SetterCalls

LEMMA SetupInvEnough == SetupInv => SetupIsTheUsers
<1> SUFFICES ASSUME SetupInv, part = "setup" PROVE G!SetupIsTheUsers
  BY DEF SetupIsTheUsers
<1>1. SetupTypes /\ SourceIsMade
  BY DEF SetupInv
<1>2. bs.status # "ON" => \A i \in G!Interfaces : ds[i] = G!NULL
  BY <1>1 DEF SourceIsMade
<1>3. ASSUME bs.status = "ON"
      PROVE  /\ {i \in G!Interfaces : ds[i] # G!NULL} = {G!AskedInterface}
             /\ bs.ds_status = "ON"
             /\ ds[G!AskedInterface] = G!Created(bs) /\ G!AskedInterface = bs.datasource
             /\ SetupIsAsked /\ G!Valid(bs)
  <2>1. SetupIsAsked
    BY <1>3 DEF SetupInv
  <2>2. /\ bs.ds_status = "ON" /\ G!Valid(bs)
        /\ ds = [i \in G!Interfaces |-> IF i = bs.datasource THEN G!Created(bs) ELSE G!NULL]
    BY <1>1, <1>3 DEF SourceIsMade
  <2>3. G!Created(bs) # G!NULL
    <3>1. "params" \in DOMAIN G!Created(bs)
      BY DEF G!Created
    <3>2. DOMAIN G!NULL = {}
      BY DEF G!NULL
    <3> QED
      BY <3>1, <3>2
  <2>4. G!AskedInterface = bs.datasource /\ bs.datasource \in G!Interfaces
    BY <1>1, <2>1 DEF SetupTypes, SetupIsAsked
  <2> QED
    BY <2>1, <2>2, <2>3, <2>4
<1>4. ASSUME bs.status = "ON", NEW made, made = G!Created(bs)
      PROVE  /\ \A o \in DOMAIN made.options :
                   \/ made.options[o] = G!AskedOption(o)
                   \/ o = G!URL /\ G!AskedOption(<<"sqlite", 0>>) # G!NOT_SET
             /\ G!AskedInterface = "broker" => made.params = G!AskedParams
             /\ made.time_intervals = bs.time_intervals
  <2>1. /\ made.options = [o \in {p \in G!Options : p[1] = bs.datasource} |-> bs.options[o]]
        /\ made.params = IF bs.datasource = "broker" THEN bs.broker_params ELSE <<>>
        /\ made.time_intervals = bs.time_intervals
    BY <1>4 DEF G!Created
  <2> QED
    BY <1>3, <1>4, <2>1 DEF SetupIsAsked
<1>5. ASSUME bs.status = "ON", NEW intervals, intervals = G!Reverse(bs.time_intervals)
      PROVE  /\ Len(intervals) = Len(G!AskedTimes)
             /\ \A i \in DOMAIN intervals :
                   /\ G!IsAsked(intervals[i], G!AskedTimes[i])
                   /\ \/ intervals[i].end_time = G!FOREVER
                      \/ intervals[i].begin_time <= intervals[i].end_time
  <2>1. PICK ti \in Seq(Interval) : ti = bs.time_intervals
    BY <1>1 DEF SetupTypes
  <2>2. Len(ti) \in Nat /\ DOMAIN ti = 1..Len(ti)
    BY <2>1, LenProperties
  <2>3. intervals = [i \in 1..Len(ti) |-> ti[(Len(ti) - i) + 1]]
    BY <1>5, <2>1 DEF G!Reverse
  <2>4. DOMAIN intervals = 1..Len(ti) /\ Len(intervals) = Len(ti)
    BY <2>2, <2>3
  <2>5. TimesAsked(ti, G!AskedTimes) /\ G!Valid(bs)
    BY <1>3, <1>5, <2>1 DEF SetupIsAsked
  <2>6. ASSUME NEW i \in 1..Len(ti)
        PROVE  /\ G!IsAsked(intervals[i], G!AskedTimes[i])
               /\ \/ intervals[i].end_time = G!FOREVER
                  \/ intervals[i].begin_time <= intervals[i].end_time
    <3>1. intervals[i] = ti[Len(ti) - i + 1] /\ Len(ti) - i + 1 \in DOMAIN ti
      BY <2>2, <2>3
    <3>2. G!IsAsked(intervals[i], G!AskedTimes[i])
      BY <2>5, <3>1 DEF TimesAsked
    <3> QED
      BY <2>1, <2>5, <3>1, <3>2 DEF G!Valid
  <2> QED
    BY <2>4, <2>5, <2>6 DEF TimesAsked
<1> QED
  BY <1>2, <1>3, <1>4, <1>5 DEF SetupIsAsked, G!SetupIsTheUsers

LEMMA SetupStep == SetupInv /\ part = "setup" /\ part' = part /\ G!Next => SetupInv'
<1> SUFFICES ASSUME SetupInv, part = "setup", part' = part, G!Next PROVE SetupInv'
  OBVIOUS
<1>1. SetupTypes /\ SourceIsMade /\ (bs.status # "FREED" => SetupIsAsked)
  BY DEF SetupInv
<1>2. bs.status \in Statuses /\ bs.datasource \in G!Interfaces
  BY <1>1 DEF SetupTypes
<1>3. ASSUME NEW c \in Calls, G!Configure(c) PROVE SetupInv'
  <2>1. CASE bs.status = "ALLOCATED"
    <3>1. bs' = G!Apply(bs, c) /\ calls' = Append(calls, c) /\ ds' = ds
      BY <1>3, <2>1 DEF G!Configure
    <3>2. SetupTypes' /\ SetupIsAsked' /\ bs'.status = bs.status
      BY <1>1, <2>1, <3>1, SettersSet
    <3>3. SourceIsMade'
      BY <1>1, <2>1, <3>1, <3>2 DEF SourceIsMade
    <3> QED
      BY <3>2, <3>3 DEF SetupInv
  <2>2. CASE bs.status # "ALLOCATED"
    <3>1. bs' = bs /\ calls' = calls /\ ds' = ds
      BY <1>3, <2>2 DEF G!Configure
    <3> QED
      BY <1>1, <3>1 DEF SetupInv, SetupTypes, SourceIsMade, SetupIsAsked, G!AskedInterface,
         G!AskedPeriod, G!AskedLive, G!AskedParams, G!AskedOption, G!AskedTimes, G!Made
  <2> QED
    BY <2>1, <2>2
<1>4. ASSUME NEW st \in Statuses, NEW dst \in {"OFF", "ON", "ERROR"},
             bs' = [bs EXCEPT !.status = st, !.ds_status = dst], calls' = calls,
             bs.status # "FREED", SourceIsMade'
      PROVE  SetupInv'
  <2>1. SetupTypes'
    BY <1>1, <1>4 DEF SetupTypes
  <2>2. /\ bs'.datasource = bs.datasource /\ bs'.options = bs.options
        /\ bs'.broker_params = bs.broker_params /\ bs'.rib_period = bs.rib_period
        /\ bs'.blocking = bs.blocking /\ bs'.time_intervals = bs.time_intervals
    BY <1>1, <1>4 DEF SetupTypes
  <2>3. SetupIsAsked'
    BY <1>1, <1>4, <2>2 DEF SetupIsAsked, G!AskedInterface,
         G!AskedPeriod, G!AskedLive, G!AskedParams, G!AskedOption, G!AskedTimes, G!Made
  <2> QED
    BY <1>4, <2>1, <2>3 DEF SetupInv
<1>5. CASE G!Start
  <2>1. /\ bs.status = "ALLOCATED" /\ G!Valid(bs) /\ calls' = calls
        /\ ds = [i \in G!Interfaces |-> G!NULL]
    BY <1>1, <1>5 DEF G!Start, SourceIsMade
  <2>2. CASE /\ ds' = [ds EXCEPT ![bs.datasource] = G!Created(bs)]
             /\ bs' = [bs EXCEPT !.status = "ON", !.ds_status = "ON"]
    <3>1. /\ bs'.status = "ON" /\ bs'.ds_status = "ON" /\ bs'.datasource = bs.datasource
          /\ bs'.time_intervals = bs.time_intervals
          /\ bs'.options = bs.options /\ bs'.broker_params = bs.broker_params
      BY <1>1, <2>2 DEF SetupTypes
    <3>2. G!Created(bs') = G!Created(bs) /\ (G!Valid(bs) => G!Valid(bs'))
      BY <3>1 DEF G!Created, G!Valid
    <3>3. ds' = [i \in G!Interfaces |-> IF i = bs.datasource THEN G!Created(bs) ELSE G!NULL]
      BY <2>1, <2>2
    <3>4. SourceIsMade'
      BY <2>1, <3>1, <3>2, <3>3 DEF SourceIsMade
    <3> QED
      BY <1>4, <2>1, <2>2, <3>4 DEF Statuses
  <2>3. CASE /\ ds' = [ds EXCEPT ![bs.datasource] = G!NULL]
             /\ bs' = [bs EXCEPT !.ds_status = "ERROR"]
    <3>1. ds' = ds
      BY <2>1, <2>3
    <3>2. bs' = [bs EXCEPT !.status = "ALLOCATED", !.ds_status = "ERROR"]
      BY <1>1, <2>1, <2>3 DEF SetupTypes
    <3>3. SourceIsMade'
      BY <1>1, <2>1, <3>1, <3>2 DEF SourceIsMade, SetupTypes
    <3> QED
      BY <1>4, <2>1, <3>2, <3>3 DEF Statuses
  <2> QED
    BY <1>5, <2>2, <2>3 DEF G!Start
<1>6. CASE G!Stop
  <2>1. /\ bs' = [bs EXCEPT !.status = "OFF", !.ds_status = "OFF"] /\ calls' = calls
        /\ bs.status = "ON" /\ ds' = [ds EXCEPT ![bs.datasource] = G!NULL]
    BY <1>6 DEF G!Stop
  <2>2. ds' = [i \in G!Interfaces |-> G!NULL]
    BY <1>1, <1>2, <2>1 DEF SourceIsMade
  <2>3. SourceIsMade'
    BY <1>1, <2>1, <2>2 DEF SourceIsMade, SetupTypes
  <2> QED
    BY <1>4, <2>1, <2>3 DEF Statuses
<1>7. CASE G!Destroy
  <2>1. bs' = [bs EXCEPT !.status = "FREED"] /\ ds' = [i \in G!Interfaces |-> G!NULL]
        /\ calls' = calls
    BY <1>7 DEF G!Destroy
  <2>2. SetupTypes'
    BY <1>1, <2>1 DEF SetupTypes, Statuses
  <2>3. SourceIsMade' /\ bs'.status = "FREED"
    BY <1>1, <2>1 DEF SourceIsMade, SetupTypes
  <2> QED
    BY <2>2, <2>3 DEF SetupInv
<1> QED
  BY <1>3, <1>5, <1>6, <1>7 DEF G!Next

\* A stream runs with what its user asked for before it started
\* (bgpstream_set_data_interface and the other setters), for any sequence of
\* calls, with any values in them, and however often a start fails.  Nothing is
\* said of the RIB period once it was set again on a running stream.
THEOREM SetupHolds == Spec => []SetupIsTheUsers
<1>1. Init => SetupInv
  <2> SUFFICES ASSUME Init PROVE SetupInv
    OBVIOUS
  <2>1. /\ bs = [status |-> "ALLOCATED", datasource |-> "broker", blocking |-> FALSE,
                 ds_status |-> "OFF", options |-> G!Defaults, broker_params |-> <<>>,
                 time_intervals |-> <<>>, rib_period |-> 0]
        /\ ds = [i \in G!Interfaces |-> G!NULL] /\ calls = <<>>
    BY DEF Init, G!Init
  <2>2. G!Defaults \in [G!Options -> Values]
    <3>2. \A o \in G!Options : (IF o = G!URL THEN "default" ELSE G!NOT_SET) \in Values
      BY DEF Values
    <3> QED
      BY <3>2, Zenon DEF G!Defaults
  <2>3. SetupTypes
    BY <2>1, <2>2 DEF SetupTypes, Statuses, G!Interfaces
  <2>4. SourceIsMade
    BY <2>1 DEF SourceIsMade
  <2>5. \A which : G!Among(calls, which) = <<>>
    BY <2>1, <2>3, AmongGrows DEF SetupTypes
  <2>6. SetupIsAsked
    <3>1. G!AskedInterface = "broker" /\ G!AskedPeriod = 0 /\ G!AskedLive = FALSE
      BY <2>5 DEF G!AskedInterface, G!AskedPeriod, G!AskedLive, G!Made
    <3>2. G!AskedParams = <<>> /\ G!AskedTimes = <<>>
      BY <2>5 DEF G!AskedParams, G!AskedTimes, G!Made
    <3>3. \A o : G!AskedOption(o) = G!Defaults[o]
      BY <2>5 DEF G!AskedOption, G!Made
    <3>4. TimesAsked(<<>>, <<>>) /\ <<>> \in Seq(Calls)
      BY DEF TimesAsked
    <3> QED
      BY <2>1, <3>1, <3>2, <3>3, <3>4 DEF SetupIsAsked
  <2> QED
    BY <2>3, <2>4, <2>6 DEF SetupInv
<1>2. SetupInv /\ [Next]_vars => SetupInv'
  <2> SUFFICES ASSUME SetupInv, [Next]_vars, part' = "setup" PROVE SetupInv'
    BY DEF SetupInv
  <2>1. part' = part
    BY DEF Next, Rest, vars
  <2>2. CASE G!Next /\ part = "setup"
    BY <2>1, <2>2, SetupStep
  <2>3. CASE UNCHANGED vars
    <3>1. bs' = bs /\ ds' = ds /\ calls' = calls /\ part' = part
      BY <2>3 DEF vars, setup_vars
    <3> QED
      BY <3>1 DEF SetupInv, SetupTypes, SourceIsMade, SetupIsAsked, G!AskedInterface,
         G!AskedPeriod, G!AskedLive, G!AskedParams, G!AskedOption, G!AskedTimes, G!Made
  <2> QED
    BY <2>1, <2>2, <2>3 DEF Next
<1>3. SetupInv => SetupIsTheUsers
  BY SetupInvEnough
<1> QED
  BY <1>1, <1>2, <1>3, PTL DEF Spec

=============================================================================
