------------------------------- MODULE Library -------------------------------
(***************************************************************************)
(* Parts of libbgpstream and bgpcorsaro that one caller uses: sets of      *)
(* communities, the hash sets, the map of peers, the elem generator, the   *)
(* setters of a stream, the pacifier and the program bgpcorsaro.  Each     *)
(* belongs to one object and is called by one thread, so they do not       *)
(* interleave: a behaviour is that of one of them, chosen at first.  The   *)
(* other parts of this kind are in Structures.                             *)
(***************************************************************************)
EXTENDS Integers, Sequences

CONSTANTS
  Parts,                                             \* the parts to be checked
  Halves, MaxComms,                                  \* CommunitySets
  Members, MaxBuckets,                               \* HashSets
  Sigs, PEER_IDS, MaxIds,                            \* PeerSigMap
  Records, Passes(_),                                \* ElemGenerator
  Waits, WAITS, MaxNow, MaxIntervals,                \* Pacifier
  Calls, Now, TIMES, MaxCalls,                       \* StreamSetup
  CmdWindows, CMD_CNT, GapLimits, RecordTimes, MaxGot   \* CorsaroTool

ASSUME LibraryAssumption ==
  /\ MaxComms \in Nat
  /\ Waits \subseteq Nat /\ WAITS \in Nat \ {0}
  /\ CmdWindows \subseteq [start : Nat, end : Nat]
  /\ GapLimits \subseteq Nat /\ RecordTimes \subseteq Nat

VARIABLES
  part,
  comms, comms_meant,
  kind, sets, strings, sets_meant, told, disturbed,
  ps_id, id_ps, next_id, sigs, ids_given, reused,
  record, elems, elems_cnt, iter, given, ended,
  pace, running, now, asked, ends, cuts,
  bs, ds, calls, period_late,
  main, shutdown, objects, code, got, handed, late, finalized

community_vars == <<comms, comms_meant>>
hashset_vars == <<kind, sets, strings, sets_meant, told, disturbed>>
peersig_vars == <<ps_id, id_ps, next_id, sigs, ids_given, reused>>
elem_vars == <<record, elems, elems_cnt, iter, given, ended>>
pacifier_vars == <<pace, running, now, asked, ends, cuts>>
setup_vars == <<bs, ds, calls, period_late>>
tool_vars == <<main, shutdown, objects, code, got, handed, late, finalized>>
vars == <<part, community_vars, hashset_vars, peersig_vars, elem_vars, pacifier_vars,
          setup_vars, tool_vars>>

C == INSTANCE CommunitySets WITH meant <- comms_meant
H == INSTANCE HashSets WITH meant <- sets_meant
P == INSTANCE PeerSigMap WITH given <- ids_given
E == INSTANCE ElemGenerator
S == INSTANCE Pacifier
G == INSTANCE StreamSetup
B == INSTANCE CorsaroTool

ASSUME ElemsAssumption == (\A rec \in Records : E!HasLists(rec)) /\ E!PassesSetFields
ASSUME SetsAssumption == MaxBuckets \in Nat /\ \A x \in Members : x # H!NONE /\ x[1] \in {4, 6}
ASSUME SetupAssumption == Calls \subseteq G!SetterCalls /\ TIMES \in Nat /\ Now \in 0..TIMES - 1

\* What a part that is not checked is set to does not matter.
Init ==
  /\ part \in Parts
  /\ C!Init /\ H!Init /\ P!Init /\ E!Init /\ S!Init /\ G!Init /\ B!Init
  /\ part # "sets" => kind = H!IdSet
  /\ part # "pacifier" => ~pace.adaptive /\ asked = CHOOSE w \in Waits : TRUE

\* The other parts keep still.
Keep(names, state) == IF part \in names THEN TRUE ELSE UNCHANGED state

Rest ==
  /\ Keep({"communities"}, community_vars)
  /\ Keep({"sets"}, hashset_vars)
  /\ Keep({"peers"}, peersig_vars)
  /\ Keep({"elems"}, elem_vars)
  /\ Keep({"pacifier"}, pacifier_vars)
  /\ Keep({"setup"}, setup_vars)
  /\ Keep({"tool"}, tool_vars)
  /\ UNCHANGED part

Next ==
  \/ part = "communities" /\ C!Next /\ Rest
  \/ part = "sets" /\ H!Next /\ Rest
  \/ part = "peers" /\ P!Next /\ Rest
  \/ part = "elems" /\ E!Next /\ Rest
  \/ part = "pacifier" /\ S!Next /\ Rest
  \/ part = "setup" /\ G!Next /\ Rest
  \/ part = "tool" /\ B!Next /\ Rest

Spec == Init /\ [][Next]_vars

-----------------------------------------------------------------------------
(* Properties, each of one part *)

\* CommunitySets: a match means that a community agrees with the mask, and one
\* that agrees is found unless a half of it is 0, whatever the set held before.
MatchIsRight == part = "communities" => C!MatchIsRight

\* HashSets: the sets hold what was put into them, count it, iterate over it and
\* own the strings they copied.
SetsAreRight == part = "sets" => H!SetsAreRight

\* PeerSigMap: until ids wrap around, an id names one peer and keeps naming it.
IdsNamePeers == part = "peers" => P!IdsNamePeers

\* ElemGenerator: the elems returned for a record are those of the record that
\* pass the filters, in order and with nothing left from earlier records.
ElemsAreTheRecords == part = "elems" => E!ElemsAreTheRecords

\* Pacifier: intervals do not end before their time, unless a signal ends them.
IntervalsArePaced == part = "pacifier" => S!IntervalsArePaced

\* StreamSetup: a stream runs with what its user asked for before it started,
\* but for a RIB period set again while it runs.
SetupIsTheUsers == part = "setup" => G!SetupIsTheUsers

\* CorsaroTool: the output is handed the records of the windows, finalized once
\* and complete whenever the program reports success.
OutputIsComplete == part = "tool" => B!OutputIsComplete

=============================================================================
