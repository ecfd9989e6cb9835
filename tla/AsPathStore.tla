----------------------------- MODULE AsPathStore -----------------------------
(***************************************************************************)
(* AS paths, lib/utils/bgpstream_utils_as_path.c, and the store that keeps *)
(* each of them once, bgpstream_utils_as_path_store.c.  A path is a byte   *)
(* array of segments with the number of segments and the offset of the     *)
(* last one kept beside it; the array is modelled as the sequence of its   *)
(* segments, which have their sizes.  A path that begins with the ASN of   *)
(* the peer that announced it is kept in the store without it, as a core   *)
(* path that peers share.  The path of an elem is filled, copied, stored.  *)
(***************************************************************************)
EXTENDS Integers, Sequences, FiniteSets, SequencesExt, FiniteSetsExt

CONSTANTS
  BdPaths,      \* AS_PATH attributes: sequences of [type, asns, cut]
  Peers,        \* ASNs of peers
  ID_MAX,       \* UINT16_MAX: the largest path_id, which stands for an error
  MaxPaths      \* bound: paths added to the store

VARIABLES
  elem_path,    \* the path of an elem
  path_set,     \* the paths of each hash: [paths, cnt]
  paths_cnt,    \* number of paths in the store
  issued,       \* ids given out: [id, peer, data]
  overflowed    \* a path set ran out of ids

store_vars == <<elem_path, path_set, paths_cnt, issued, overflowed>>

-----------------------------------------------------------------------------

\* AS paths.

\* origin_offset of a path without segments.
NO_OFFSET == 65535

SEG_ASN == "asn"

\* SIZEOF_SEG: packed structures, a set has its count and its members.
SegSize(seg) == IF seg.type = SEG_ASN THEN 5 ELSE 2 + 4 * Len(seg.asn)

DataLen(segs) == FoldLeft(LAMBDA n, seg : n + SegSize(seg), 0, segs)

Offset(segs, i) == DataLen(SubSeq(segs, 1, i - 1))

\* create and clear; a path that is cleared keeps its memory.
Cleared(path) ==
  [path EXCEPT !.data = <<>>, !.seg_cnt = 0, !.origin_offset = NO_OFFSET]

NewPath == [data |-> <<>>, data_alloc_len |-> 0, seg_cnt |-> 0, origin_offset |-> NO_OFFSET]

\* The memory grows when it has to and never shrinks.
Grown(path, len) ==
  IF path.data_alloc_len < len THEN [path EXCEPT !.data_alloc_len = len] ELSE path

\* One segment of the attribute: a sequence is broken into its ASNs.
AddSeg(path, bd_seg) ==
  LET set == [type |-> bd_seg.type, asn |-> bd_seg.asns]
      new == IF bd_seg.type = "AS_SEQUENCE"
             THEN [i \in DOMAIN bd_seg.asns |-> [type |-> SEG_ASN, asn |-> <<bd_seg.asns[i]>>]]
             ELSE <<set>>
      data == path.data \o new
  IN  [Grown(path, DataLen(data)) EXCEPT
         !.data = data,
         !.seg_cnt = @ + Len(new),
         !.origin_offset = IF new = <<>> THEN @ ELSE Offset(data, Len(data))]

SegTypes == {"AS_SET", "AS_SEQUENCE", "AS_CONFED_SET", "AS_CONFED_SEQUENCE"}

\* A segment of an unknown type, or one that is longer than the attribute, ends it.
BadSeg(bd_seg) == bd_seg.type \notin SegTypes \/ bd_seg.cut

\* populate: the path and whether the attribute was whole.
Populate(path, bd_path) ==
  LET good == SelectInSeq(bd_path, BadSeg)
      upto == IF good = 0 THEN bd_path ELSE SubSeq(bd_path, 1, good - 1)
  IN  [path |-> FoldLeft(AddSeg, Cleared(path), upto), ok |-> good = 0]

\* get_next_seg until it returns NULL.
Iterate(path) ==
  LET Go[offset \in 0..DataLen(path.data)] ==
        IF offset >= DataLen(path.data) THEN <<>>
        ELSE LET i == CHOOSE k \in DOMAIN path.data : Offset(path.data, k) = offset
             IN  <<path.data[i]>> \o Go[offset + SegSize(path.data[i])]
  IN  Go[0]

\* update_fields: count again, behind a change of the array.
UpdateFields(path) ==
  [path EXCEPT !.seg_cnt = Len(Iterate(path)),
               !.origin_offset = IF path.data = <<>> THEN @
                                 ELSE Offset(path.data, Len(Iterate(path)))]

\* Mutant of Copy: origin_offset stays as it was.
CopyKeepsOrigin(dst, src) ==
  [Grown(dst, DataLen(src.data)) EXCEPT !.data = src.data, !.seg_cnt = src.seg_cnt]

Copy(dst, src) ==
  [Grown(dst, DataLen(src.data)) EXCEPT
     !.data = src.data, !.seg_cnt = src.seg_cnt, !.origin_offset = src.origin_offset]

PopulateFromData(path, data) ==
  UpdateFields([Grown(Cleared(path), DataLen(data)) EXCEPT !.data = data])

\* The segment at an offset, and the origin of a path.
SegAt(path, offset) ==
  path.data[CHOOSE i \in DOMAIN path.data : Offset(path.data, i) = offset]

GetOriginSeg(path) ==
  IF path.data = <<>> THEN <<>> ELSE <<SegAt(path, path.origin_offset)>>

\* get_origin_val: an origin that is a set has no value.
GetOriginVal(path) ==
  LET seg == GetOriginSeg(path)
  IN  IF seg = <<>> \/ seg[1].type # SEG_ASN THEN <<>> ELSE seg[1].asn

SegHash(seg) == IF seg.asn = <<>> THEN 0 ELSE seg.asn[1]

\* hash, by the first segment and the origin; mixbits only stirs.
Hash(path) ==
  IF path.data = <<>> THEN 0
  ELSE 16 * SegHash(path.data[1]) + SegHash(SegAt(path, path.origin_offset))

\* Two paths are equal when their arrays are.
Equal(a, b) == a.data = b.data

-----------------------------------------------------------------------------

\* The store.

Init ==
  /\ elem_path = NewPath
  /\ path_set = <<>>
  /\ paths_cnt = 0
  /\ issued = {}
  /\ overflowed = FALSE

\* Mutant of StorePathEqual: a core path is taken for a whole one.
StorePathEqualAnyCore(a, b) == Equal(a.path, b.path)

StorePathEqual(a, b) == a.is_core = b.is_core /\ Equal(a.path, b.path)

NoPaths == [paths |-> <<>>, cnt |-> 0]

PathSet(hash) == IF hash \in DOMAIN path_set THEN path_set[hash] ELSE NoPaths

\* pathset_get_path_id: the position of an equal path among the first cnt ones,
\* or that of the copy appended.  cnt is 16 bits wide; the array is cut to it.
Find(ps, findme) == {i \in 1..ps.cnt : StorePathEqual(ps.paths[i], findme)}

Appended(ps, findme) ==
  [paths |-> Append(SubSeq(ps.paths, 1, ps.cnt),
                    [findme EXCEPT !.path.data_alloc_len = DataLen(findme.path.data)]),
   cnt |-> (ps.cnt + 1) % (ID_MAX + 1)]

\* get_path_id of the store, for a path that its caller hands in.
GetId(findme, peer, data) ==
  LET hash == Hash(findme.path)
      ps == PathSet(hash)
      found == Find(ps, findme)
      path_id == IF found = {} THEN ps.cnt ELSE Min(found) - 1
  IN  /\ IF found = {}
         THEN /\ path_set' = (hash :> Appended(ps, [findme EXCEPT !.idx = paths_cnt])) @@ path_set
              /\ paths_cnt < MaxPaths
              /\ paths_cnt' = paths_cnt + 1
         ELSE UNCHANGED <<path_set, paths_cnt>>
      /\ issued' = IF path_id = ID_MAX THEN issued
                   ELSE issued \cup {[id |-> <<hash, path_id>>, peer |-> peer, data |-> data]}
      /\ overflowed' = (overflowed \/ path_id = ID_MAX)

\* The core of a path: without the peer that prepended itself.
HasCore(path, peer) ==
  /\ path.data # <<>>
  /\ path.seg_cnt > 1
  /\ path.data[1] = [type |-> SEG_ASN, asn |-> <<peer>>]

CorePath(path) ==
  [data |-> Tail(path.data), data_alloc_len |-> NO_OFFSET, seg_cnt |-> path.seg_cnt - 1,
   origin_offset |-> path.origin_offset - SegSize(path.data[1])]

GetPathId(peer) ==
  /\ LET core == HasCore(elem_path, peer)
     IN  GetId([path |-> IF core THEN CorePath(elem_path) ELSE elem_path,
                is_core |-> core, idx |-> 0], peer, elem_path.data)
  /\ UNCHANGED elem_path

\* insert_path: the array and is_core as they were saved from another store.
InsertPath(saved) ==
  /\ GetId([path |-> UpdateFields([NewPath EXCEPT !.data = saved.path.data,
                                                  !.data_alloc_len = NO_OFFSET]),
            is_core |-> saved.is_core, idx |-> 0],
           CHOOSE p \in Peers : TRUE,
           IF saved.is_core
           THEN <<[type |-> SEG_ASN, asn |-> <<CHOOSE p \in Peers : TRUE>>]>> \o saved.path.data
           ELSE saved.path.data)
  /\ UNCHANGED elem_path

\* An elem takes the path of the next message, whole or not.
Fill(bd_path) ==
  /\ elem_path' = Populate(elem_path, bd_path).path
  /\ UNCHANGED <<path_set, paths_cnt, issued, overflowed>>

\* get_store_path; cnt - 1 is computed in int.
GetStorePath(id) ==
  IF id[1] \notin DOMAIN path_set \/ id[2] > path_set[id[1]].cnt - 1 THEN <<>>
  ELSE <<path_set[id[1]].paths[id[2] + 1]>>

\* store_path_get_path: a copy, a core path with the peer in front again.
GetPath(spath, peer) ==
  IF ~spath.is_core THEN Copy(NewPath, spath.path)
  ELSE LET data == <<[type |-> SEG_ASN, asn |-> <<peer>>]>> \o spath.path.data
       IN  UpdateFields([NewPath EXCEPT !.data = data, !.data_alloc_len = DataLen(data)])

\* The segments of a stored path one by one, the peer first.
IterateStored(spath, peer) ==
  (IF spath.is_core THEN <<[type |-> SEG_ASN, asn |-> <<peer>>]>> ELSE <<>>)
    \o Iterate(spath.path)

\* The elem takes a path back from the store.
TakeBack(i) ==
  /\ GetStorePath(i.id) # <<>>
  /\ elem_path' = Copy(elem_path, GetPath(GetStorePath(i.id)[1], i.peer))
  /\ UNCHANGED <<path_set, paths_cnt, issued, overflowed>>

\* The iterator: a path set, in the order of the hash table, and a path in it.
Keys == SetToSortSeq(DOMAIN path_set, LAMBDA a, b : a < b)

IterFirst == [pathset |-> 1, path |-> 0]

HasMore(it) == it.pathset <= Len(Keys) /\ it.path < path_set[Keys[it.pathset]].cnt

\* iter_get_path moves on within the path set, next_path only to the next one.
IterGetPath(it) ==
  [spath |-> path_set[Keys[it.pathset]].paths[it.path + 1], it |-> [it EXCEPT !.path = @ + 1]]

IterNext(it) ==
  IF it.pathset > Len(Keys) \/ it.path < path_set[Keys[it.pathset]].cnt THEN it
  ELSE [pathset |-> it.pathset + 1, path |-> 0]

\* The path that the iterator stands at: behind iter_get_path the next one.
IterGetPathId(it) == <<Keys[it.pathset], it.path>>

\* The loop of a caller that asks for the id before it takes the path.
IterAll ==
  LET Go[it \in [pathset : 1..(Len(Keys) + 1), path : 0..ID_MAX]] ==
        IF ~HasMore(it) THEN <<>>
        ELSE LET got == IterGetPath(it)
             IN  <<[id |-> IterGetPathId(it), spath |-> got.spath]>> \o Go[IterNext(got.it)]
  IN  Go[IterFirst]

Next ==
  \/ \E bd_path \in BdPaths : Fill(bd_path)
  \/ \E peer \in Peers : GetPathId(peer)
  \/ \E h \in DOMAIN path_set : \E i \in DOMAIN path_set[h].paths :
       InsertPath(path_set[h].paths[i])
  \/ \E i \in issued : TakeBack(i)

-----------------------------------------------------------------------------

\* The fields beside the array of a path agree with it: what iteration finds
\* is what was put in, the origin is the last segment, and the memory is large
\* enough; also after an attribute that broke off, after copies between paths
\* and for the cores that point into another path.
Consistent(path) ==
  /\ Iterate(path) = path.data
  /\ path.seg_cnt = Len(path.data)
  /\ path.origin_offset = IF path.data = <<>> THEN NO_OFFSET
                          ELSE Offset(path.data, Len(path.data))
  /\ DataLen(path.data) <= path.data_alloc_len

PathsAreConsistent ==
  /\ Consistent(elem_path)
  /\ \A h \in DOMAIN path_set : \A i \in DOMAIN path_set[h].paths :
       Consistent(path_set[h].paths[i].path)

\* An id stays good for the path it was given out for: as long as no path set
\* ran out of ids, it leads back to the path the peer announced, by copy and
\* segment by segment, and a path has one id per peer.
IdsLeadBack ==
  ~overflowed =>
    /\ \A i \in issued :
         LET found == GetStorePath(i.id)
         IN  /\ found # <<>>
             /\ GetPath(found[1], i.peer).data = i.data
             /\ IterateStored(found[1], i.peer) = i.data
    /\ \A i, j \in issued :
         i.peer = j.peer /\ i.data = j.data /\ i # j =>
           GetStorePath(i.id)[1].is_core # GetStorePath(j.id)[1].is_core

\* The store keeps a path once, numbers the paths from 0, and the iterator gives
\* each of them once, with its id if that is asked for first: asked for behind
\* iter_get_path it is another path's or none's, although the header calls both
\* those of the current path.
IterationIsComplete ==
  ~overflowed =>
    LET all == IterAll
    IN  /\ Len(all) = paths_cnt
        /\ {all[i].spath.idx : i \in DOMAIN all} = 0..(paths_cnt - 1)
        /\ \A i, j \in DOMAIN all : StorePathEqual(all[i].spath, all[j].spath) => i = j
        /\ \A i \in DOMAIN all : GetStorePath(all[i].id) = <<all[i].spath>>

=============================================================================
