------------------------------ MODULE AsMonitor ------------------------------
(***************************************************************************)
(* The AS monitor plugin, bgpcorsaro/lib/plugins/bgpcorsaro_asmonitor.c:   *)
(* the prefixes that the monitored ASes announced within a window are kept *)
(* in a Patricia tree, and the prefixes that overlap with them are counted *)
(* as by PfxMonitor.  Output files and their rotation are those of any     *)
(* plugin, see Corsaro.                                                    *)
(***************************************************************************)
EXTENDS PatriciaTree, Functions

CONSTANTS
  Records,       \* records: the sequences of their elems [type, pfx, peer, path]
  Ases,          \* ASes that can be monitored
  Windows,       \* values of the option -w
  Threshold,     \* the value of the option -n
  MaxIntervals,  \* bound: the start of the last interval
  MaxActive      \* bound: the tree's counter of prefixes, which lookups can raise

VARIABLES
  mon,           \* the state of the plugin, without the tree
  tree,          \* the prefixes of the monitored ASes; user data is <<last_observed>>
  phase,         \* "args", "idle", "interval", "closed"
  metrics,       \* the last metrics, per version: [prefixes, overlapping, origins]
  announced,     \* prefix -> the last interval in which a monitored AS announced it
  withdrawn      \* <<prefix, peer>>: routes withdrawn and not announced since

asmonitor_vars == <<mon, tree, phase, metrics, announced, withdrawn>>

-----------------------------------------------------------------------------
(* init_output, parse_args and close_output *)

\* init_output: the defaults.
Defaults ==
  [monitored_ases |-> {}, pfx_window |-> 24, peer_asns_th |-> 10, more_specific |-> FALSE,
   interval_start |-> 0, pfx_info |-> <<>>, unique_origins |-> [v \in Versions |-> {}]]

NoMetrics == [v \in Versions |-> [prefixes |-> 0, overlapping |-> 0, origins |-> 0]]

Init ==
  /\ mon = Defaults
  /\ tree = Empty
  /\ phase = "args"
  /\ metrics = NoMetrics
  /\ announced = <<>>
  /\ withdrawn = {}

\* -a, and every line of the file of -A.
AddAsnOption(asn) ==
  /\ phase = "args"
  /\ mon' = [mon EXCEPT !.monitored_ases = @ \cup {asn}]
  /\ UNCHANGED <<tree, phase, metrics, announced, withdrawn>>

\* The other options, and the end of parse_args, which needs an AS.
ParseArgs(window, more) ==
  /\ phase = "args"
  /\ phase' = IF mon.monitored_ases = {} THEN "closed" ELSE "idle"
  /\ mon' = [mon EXCEPT !.pfx_window = window, !.peer_asns_th = Threshold,
                        !.more_specific = more]
  /\ UNCHANGED <<tree, metrics, announced, withdrawn>>

CloseOutput ==
  /\ phase = "idle"
  /\ phase' = "closed"
  /\ tree' = Empty
  /\ mon' = Defaults
  /\ UNCHANGED <<metrics, announced, withdrawn>>

-----------------------------------------------------------------------------
(* Records *)

InBounds == \A v \in Versions : tree'.active[v] <= MaxActive

\* The origin: the last segment, if it is an ASN and no set or confederation.
OriginAsn(path) == IF path = <<>> THEN 0 ELSE Last(path)

SetPfxPeerOrigin(m, pfx, peer, origin) ==
  LET pam == IF pfx \in DOMAIN m.pfx_info THEN m.pfx_info[pfx] ELSE <<>>
  IN  IF origin = 0 THEN m
      ELSE [m EXCEPT !.pfx_info = (pfx :> ((peer :> origin) @@ pam)) @@ @]

RmPfxPeer(m, pfx, peer) ==
  IF pfx \notin DOMAIN m.pfx_info THEN m
  ELSE [m EXCEPT !.pfx_info[pfx] = Restrict(@, DOMAIN @ \ {peer})]

ProcessOverlappingPfx(m, e) ==
  IF e.type = "W" THEN RmPfxPeer(m, e.pfx, e.peer)
  ELSE SetPfxPeerOrigin(m, e.pfx, e.peer, OriginAsn(e.path))

\* A prefix counts if it overlaps with the tree, with -M if it is in the tree or
\* more specific than a prefix of it.
Overlaps(o, more) == o.exact \/ o.info.less \/ (o.info.more /\ ~more)

\* perpfx_info_create and perpfx_info_set_ts
Observed(t, pfx, ts) ==
  LET i == Insert(t, pfx) IN [i.tree EXCEPT !.heap[i.node].user = <<ts>>]

\* An elem: w is [mon, tree, done].  An announcement without a simple origin
\* ends the record.
ProcessElem(w, e) ==
  LET route == e.type \in {"A", "R"}
      seen == IF route /\ OriginAsn(e.path) \in w.mon.monitored_ases
              THEN Observed(w.tree, e.pfx, w.mon.interval_start) ELSE w.tree
      Looked(o) == [w EXCEPT !.tree = o.tree,
                             !.mon = IF Overlaps(o, @.more_specific)
                                     THEN ProcessOverlappingPfx(@, e) ELSE @]
  IN  IF w.done \/ e.type = "S" \/ (e.type # "W" /\ e.path = <<>>) THEN w
      ELSE IF route /\ OriginAsn(e.path) = 0 THEN [w EXCEPT !.done = TRUE]
      ELSE With(seen, LAMBDA t : With(PfxOverlapInfo(t, e.pfx), Looked))

\* The elems of a record before the first announcement without a simple origin,
\* and the prefixes that they announce for a monitored AS.
Reached(rec) ==
  {i \in DOMAIN rec : \A j \in 1..i : rec[j].type \in {"A", "R"} /\ rec[j].path # <<>>
                                       => OriginAsn(rec[j].path) # 0}

Announces(rec) ==
  {rec[i].pfx : i \in {i \in Reached(rec) :
     rec[i].type \in {"A", "R"} /\ OriginAsn(rec[i].path) \in mon.monitored_ases}}

\* process_record.  Records that are not valid, or ignored by another plugin,
\* have no elems here.
ProcessRecord(rec) ==
  LET w == FoldLeft(ProcessElem, [mon |-> mon, tree |-> tree, done |-> FALSE], rec)
      gone == {<<e.pfx, e.peer>> : e \in {e \in ToSet(rec) : e.type = "W"}}
      back == {<<e.pfx, e.peer>> : e \in {e \in ToSet(rec) : e.type # "W"}}
  IN  /\ phase = "interval"
      /\ mon' = w.mon
      /\ tree' = w.tree
      /\ InBounds
      /\ announced' = [pfx \in Announces(rec) |-> mon.interval_start] @@ announced
      /\ withdrawn' = (withdrawn \cup gone) \ back
      /\ UNCHANGED <<phase, metrics>>

-----------------------------------------------------------------------------
(* Intervals *)

StartInterval ==
  /\ phase = "idle" /\ mon.interval_start < MaxIntervals
  /\ phase' = "interval"
  /\ mon' = [mon EXCEPT !.interval_start = @ + 1]
  /\ UNCHANGED <<tree, metrics, announced, withdrawn>>

\* The origins that enough peers report for a prefix.
VisibleOrigins(pam, th) ==
  {o \in Range(pam) : Cardinality({p \in DOMAIN pam : pam[p] = o}) >= th}

Stats(m, t) ==
  LET visible == [pfx \in DOMAIN m.pfx_info |->
                    VisibleOrigins(m.pfx_info[pfx], m.peer_asns_th)]
      Of(v) == {pfx \in DOMAIN visible : pfx.version = v}
  IN  [v \in Versions |->
        [prefixes |-> PrefixCount(t, v),
         overlapping |-> Cardinality({pfx \in Of(v) : visible[pfx] # {}}),
         origins |-> Cardinality(m.unique_origins[v] \cup UNION {visible[pfx] : pfx \in Of(v)})]]

LastValidTs(m) ==
  IF m.interval_start > m.pfx_window THEN m.interval_start - m.pfx_window ELSE 0

\* Mutant of RemoveOldPrefixes: a prefix goes one interval early.
RemoveOldPrefixesEarly(t, last_valid_ts) ==
  LET old == {p \in DOMAIN t.heap : t.heap[p].user # NULL /\ t.heap[p].user[1] <= last_valid_ts}
  IN  FoldLeft(LAMBDA a, v : WalkRemoving(a, v, old), t, SetToSeq(Versions))

\* remove_old_prefixes, called for the nodes of the tree.
RemoveOldPrefixes(t, last_valid_ts) ==
  LET old == {p \in DOMAIN t.heap : t.heap[p].user # NULL /\ t.heap[p].user[1] < last_valid_ts}
  IN  FoldLeft(LAMBDA a, v : WalkRemoving(a, v, old), t, SetToSeq(Versions))

\* The prefixes that still overlap.  The lookups insert and remove, so the tree
\* comes out as the last of them leaves it.
StillOverlapping(m, t) ==
  FoldLeft(LAMBDA acc, pfx :
             With(PfxOverlapInfo(acc.tree, pfx),
                  LAMBDA o : [tree |-> o.tree,
                              kept |-> IF Overlaps(o, m.more_specific)
                                       THEN acc.kept \cup {pfx} ELSE acc.kept]),
           [tree |-> t, kept |-> {}], SetToSeq(DOMAIN m.pfx_info))

OutputStatsAndReset(m, t) ==
  LET Result(still) == [metrics |-> Stats(m, t), tree |-> still.tree,
                        pfx_info |-> Restrict(m.pfx_info, still.kept)]
  IN  With(RemoveOldPrefixes(t, LastValidTs(m)),
           LAMBDA walked : With(StillOverlapping(m, walked), Result))

EndInterval ==
  LET out == OutputStatsAndReset(mon, tree)
  IN  /\ phase = "interval"
      /\ phase' = "idle"
      /\ metrics' = out.metrics
      /\ tree' = out.tree
      /\ InBounds
      /\ mon' = [mon EXCEPT !.pfx_info = out.pfx_info,
                            !.unique_origins = [v \in Versions |-> {}]]
      /\ UNCHANGED <<announced, withdrawn>>

Next ==
  \/ \E asn \in Ases : AddAsnOption(asn)
  \/ \E window \in Windows, more \in BOOLEAN : ParseArgs(window, more)
  \/ \E rec \in Records : ProcessRecord(rec)
  \/ StartInterval
  \/ EndInterval
  \/ CloseOutput

-----------------------------------------------------------------------------
(* Properties *)

Nodes == {p \in DOMAIN tree.heap : ~tree.heap[p].glue}

\* The tree holds the prefixes that a monitored AS announced within the window
\* (as far as records are looked at: an origin that is a set drops the rest of
\* its record), each with the interval of its last announcement: the walk that removes nodes
\* from the tree it walks forgets none, keeps none for longer, and the lookups
\* that insert and remove leave it alone.
TreeIsTheWindow ==
  phase \in {"idle", "interval"} =>
    LET end == IF phase = "idle" THEN mon.interval_start ELSE mon.interval_start - 1
        valid == {pfx \in DOMAIN announced :
                    announced[pfx] >= LastValidTs([mon EXCEPT !.interval_start = end])}
    IN  /\ {Masked(tree.heap[p].pfx) : p \in Nodes} = {Masked(pfx) : pfx \in valid}
        /\ \A p \in Nodes : \E pfx \in valid :
             /\ Masked(pfx) = Masked(tree.heap[p].pfx)
             /\ tree.heap[p].user = <<announced[pfx]>>

\* A route that its peer withdrew is not counted: withdrawals of prefixes that
\* do not overlap are not looked at, so a prefix that leaves the window must
\* take its routes along, or they would count again when it comes back.
WithdrawnRoutesAreGone ==
  \A r \in withdrawn :
    r[1] \in DOMAIN mon.pfx_info => r[2] \notin DOMAIN mon.pfx_info[r[1]]

=============================================================================
