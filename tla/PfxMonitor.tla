----------------------------- MODULE PfxMonitor -----------------------------
(***************************************************************************)
(* The prefix monitor plugin,                                              *)
(* bgpcorsaro/lib/plugins/bgpcorsaro_pfxmonitor.c: how many prefixes that  *)
(* overlap with the prefixes of interest, and how many of their origins,   *)
(* enough peers see.  The prefixes of interest are an IpCounter.  Output   *)
(* files and their rotation are those of any plugin, see Corsaro; metrics  *)
(* are what is printed, without names.                                     *)
(***************************************************************************)
EXTENDS IpCounter, Functions

CONSTANTS
  Elems,         \* elems: [type, pfx, peer, path], a path is <<>> or its segments: ASNs, 0 for a set
  Thresholds,    \* values of the option -n
  MaxIntervals   \* bound: the start of the last interval

VARIABLES
  mon,           \* the state of the plugin, without the prefixes of interest
  phase,         \* "args", "idle", "interval", "closed"
  interest,      \* the prefixes of interest, as they were given
  metrics,       \* the last metrics: [time, prefixes, origins]
  routes         \* <<prefix, peer>> -> origin: the routes announced and not withdrawn

pfxmonitor_vars == <<v4list, v6list, covered, mon, phase, interest, metrics, routes>>

-----------------------------------------------------------------------------
(* init_output and parse_args *)

\* init_output: the defaults.
Defaults ==
  [peer_asns_th |-> 10, more_specific |-> FALSE, interval_start |-> 0,
   overlapping |-> {}, non_overlapping |-> {}, pfx_info |-> <<>>, unique_origins |-> {}]

MonInit ==
  /\ Init
  /\ mon = Defaults
  /\ phase = "args"
  /\ interest = {}
  /\ metrics = [time |-> 0, prefixes |-> 0, origins |-> 0]
  /\ routes = <<>>

\* -l, and every line of the file of -L.
AddPrefixOption(net) ==
  /\ phase = "args"
  /\ Add(net)
  /\ interest' = interest \cup {net}
  /\ UNCHANGED <<mon, phase, metrics, routes>>

\* The end of parse_args, which needs a prefix, and of init_output.  A failure
\* closes the output.
ParseArgs(th, more) ==
  /\ phase = "args"
  /\ IF IpCount4 = 0 /\ IpCount6 = 0
     THEN /\ phase' = "closed"
          /\ Clear
          /\ UNCHANGED mon
     ELSE /\ phase' = "idle"
          /\ mon' = [mon EXCEPT !.peer_asns_th = th, !.more_specific = more]
          /\ UNCHANGED counter_vars
  /\ UNCHANGED <<interest, metrics, routes>>

-----------------------------------------------------------------------------
(* Records *)

SetPfxPeerOrigin(m, pfx, peer, origin) ==
  LET pam == IF pfx \in DOMAIN m.pfx_info THEN m.pfx_info[pfx] ELSE <<>>
  IN  [m EXCEPT !.pfx_info = (pfx :> ((peer :> origin) @@ pam)) @@ @]

RmPfxPeer(m, pfx, peer) ==
  IF pfx \notin DOMAIN m.pfx_info THEN m
  ELSE [m EXCEPT !.pfx_info[pfx] = Restrict(@, DOMAIN @ \ {peer})]

\* The origin: the last segment, if it is an ASN and no set or confederation.
OriginAsn(path) == IF path = <<>> THEN 0 ELSE Last(path)

\* Mutant of ProcessOverlappingPfx: an origin that is a set withdraws the route.
ProcessOverlappingPfxDropsSets(m, e) ==
  IF e.type = "W" \/ OriginAsn(e.path) = 0 THEN RmPfxPeer(m, e.pfx, e.peer)
  ELSE SetPfxPeerOrigin(m, e.pfx, e.peer, OriginAsn(e.path))

ProcessOverlappingPfx(m, e) ==
  IF e.type = "W" THEN RmPfxPeer(m, e.pfx, e.peer)
  ELSE IF OriginAsn(e.path) = 0 THEN m
  ELSE SetPfxPeerOrigin(m, e.pfx, e.peer, OriginAsn(e.path))

\* An elem of a record: the caches first, then the prefixes of interest.  The
\* length is that of the prefix but for the undefined shifts of a /0.
Considered(e) == e.type # "S" /\ (e.type # "W" => e.path # <<>>)

Overlaps(m, e, len) ==
  LET p == Interval(e.pfx.addr, len, e.pfx.version)
      o == IF e.pfx.version = 4 THEN Overlap4(p) ELSE Overlap6(p)
  IN  o.count > 0 /\ (m.more_specific => o.more_specific)

ProcessElem(m, e, len) ==
  IF ~Considered(e) \/ e.pfx \in m.non_overlapping THEN m
  ELSE IF e.pfx \in m.overlapping THEN ProcessOverlappingPfx(m, e)
  ELSE IF Overlaps(m, e, len)
       THEN ProcessOverlappingPfx([m EXCEPT !.overlapping = @ \cup {e.pfx}], e)
       ELSE [m EXCEPT !.non_overlapping = @ \cup {e.pfx}]

Heard(e) ==
  IF e.type = "W" THEN Restrict(routes, DOMAIN routes \ {<<e.pfx, e.peer>>})
  ELSE IF Considered(e) /\ OriginAsn(e.path) # 0
       THEN (<<e.pfx, e.peer>> :> OriginAsn(e.path)) @@ routes ELSE routes

\* process_record: the elems of a record are processed alike, one by one.
\* Records that are not valid, or ignored by another plugin, have none.
ProcessRecord(e) ==
  /\ phase = "interval"
  /\ \E len \in LengthsAsked(e.pfx) : mon' = ProcessElem(mon, e, len)
  /\ routes' = Heard(e)
  /\ UNCHANGED <<counter_vars, phase, interest, metrics>>

-----------------------------------------------------------------------------
(* Intervals *)

StartInterval ==
  /\ phase = "idle" /\ mon.interval_start < MaxIntervals
  /\ phase' = "interval"
  /\ mon' = [mon EXCEPT !.interval_start = @ + 1]
  /\ UNCHANGED <<counter_vars, interest, metrics, routes>>

\* The origins that enough peers report for a prefix.
VisibleOrigins(pam, th) ==
  {o \in Range(pam) : Cardinality({p \in DOMAIN pam : pam[p] = o}) >= th}

\* end_interval: output_stats_and_reset.
EndInterval ==
  LET visible == [pfx \in DOMAIN mon.pfx_info |->
                    VisibleOrigins(mon.pfx_info[pfx], mon.peer_asns_th)]
      origins == mon.unique_origins \cup UNION Range(visible)
  IN  /\ phase = "interval"
      /\ phase' = "idle"
      /\ metrics' = [time |-> mon.interval_start,
                     prefixes |-> Cardinality({pfx \in DOMAIN visible : visible[pfx] # {}}),
                     origins |-> Cardinality(origins)]
      /\ mon' = [mon EXCEPT !.unique_origins = {}]
      /\ UNCHANGED <<counter_vars, interest, routes>>

CloseOutput ==
  /\ phase = "idle"
  /\ phase' = "closed"
  /\ Clear
  /\ mon' = Defaults
  /\ UNCHANGED <<interest, metrics, routes>>

MonNext ==
  \/ \E net \in Nets : AddPrefixOption(net)
  \/ \E th \in Thresholds, more \in BOOLEAN : ParseArgs(th, more)
  \/ \E e \in Elems : ProcessRecord(e)
  \/ StartInterval
  \/ EndInterval
  \/ CloseOutput

-----------------------------------------------------------------------------
(* Properties *)

Space(pfx) ==
  LET p == Interval(pfx.addr, pfx.len, pfx.version) IN p.start..p.end

\* What the user asked for: a prefix that shares addresses with a prefix of
\* interest, with -M one that lies within it.
Asked(pfx) ==
  \E net \in interest :
    /\ net.version = pfx.version
    /\ Space(pfx) \cap Space(net) # {}
    /\ mon.more_specific => Space(pfx) \subseteq Space(net)

RoutesOf(pfx) ==
  [peer \in {k[2] : k \in {r \in DOMAIN routes : r[1] = pfx}} |-> routes[<<pfx, peer>>]]

\* Where the comparison is exact: not for a /0, and for IPv6 only down to the
\* /64, with -M also of the prefixes of interest.  The others are told apart by
\* their upper halves at best, and may be monitored when they share a /64 with a
\* prefix of interest, or be missed although they lie within it.
Exact(pfx) ==
  /\ pfx.len > 0
  /\ pfx.version = 6 =>
       /\ pfx.len <= HALF
       /\ \A net \in interest : net.version = 6 =>
            net.len > 0 /\ (mon.more_specific => net.len <= HALF)

Near(pfx) ==
  \E net \in interest :
    net.version = pfx.version /\ Units(Space(pfx)) \cap Units(Space(net)) # {}

\* After an interval: the metrics count exactly the monitored prefixes, and
\* their origins, that at least -n peers announce with one origin and have not
\* withdrawn, whatever the order of announcements, withdrawals, sets and
\* intervals, and although a prefix is compared with the prefixes of interest
\* only the first time it is seen; and of the prefixes whose comparison is not
\* exact some, which are near.
MetricsAreCurrent ==
  LET known == {k[1] : k \in DOMAIN routes}
      Origins(pfx) == VisibleOrigins(RoutesOf(pfx), mon.peer_asns_th)
      visible == {pfx \in known : Origins(pfx) # {}}
      asked == {pfx \in visible : Exact(pfx) /\ Asked(pfx)}
      unclear == {pfx \in visible : ~Exact(pfx) /\ Near(pfx)}
  IN  phase = "idle" /\ metrics.time = mon.interval_start /\ metrics.time > 0
      => \E some \in SUBSET unclear :
           /\ metrics.prefixes = Cardinality(asked \cup some)
           /\ metrics.origins = Cardinality(UNION {Origins(pfx) : pfx \in asked \cup some})

=============================================================================
