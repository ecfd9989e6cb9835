------------------------------ MODULE Structures ------------------------------
(***************************************************************************)
(* The data structures of lib/utils and what is built on them: Patricia    *)
(* trees, the filters and the plugin asmonitor, which keep prefixes in     *)
(* one, the AS path store, the IP counter and the plugin pfxmonitor, which *)
(* extends it, and the filter parser.  As in Library, a behaviour is that  *)
(* of one of these parts, chosen at first.                                 *)
(***************************************************************************)
EXTENDS Integers, Sequences

CONSTANTS
  Parts,                                             \* the parts to be checked
  Versions, MAXBITS, COUNTBITS, MaxActive,           \* Patricia trees
  Pfxs, Other, Users, MaxStored,                     \* Patricia
  Filters, Elems, W, MaxFilters,                     \* Filter
  Records, Ases, Windows, Threshold, MaxIntervals,   \* AsMonitor
  BdPaths, Peers, ID_MAX, MaxPaths,                  \* AsPathStore
  W4, HALF, Nets,                                    \* IpCounter and PfxMonitor
  Interest, PfxElems, Thresholds, PfxIntervals,      \* PfxMonitor
  Words, MaxWords                                    \* FilterParser

VARIABLES
  part,
  pt, stored, live,
  filter_mgr, added,
  mon, tree, phase, metrics, announced, withdrawn,
  elem_path, path_set, paths_cnt, issued, overflowed,
  v4list, v6list, covered,
  pfx_mon, pfx_phase, interest, pfx_metrics, routes,
  parser, text

patricia_vars == <<pt, stored, live>>
filter_vars == <<filter_mgr, added>>
asmonitor_vars == <<mon, tree, phase, metrics, announced, withdrawn>>
store_vars == <<elem_path, path_set, paths_cnt, issued, overflowed>>
counter_vars == <<v4list, v6list, covered>>
pfxmonitor_vars == <<pfx_mon, pfx_phase, interest, pfx_metrics, routes>>
parser_vars == <<parser, text>>
vars == <<part, patricia_vars, filter_vars, asmonitor_vars, store_vars, counter_vars,
          pfxmonitor_vars, parser_vars>>

T == INSTANCE Patricia
F == INSTANCE Filter
N == INSTANCE AsMonitor
A == INSTANCE AsPathStore
I == INSTANCE IpCounter
M == INSTANCE PfxMonitor WITH Nets <- Interest, Elems <- PfxElems, MaxIntervals <- PfxIntervals,
       mon <- pfx_mon, phase <- pfx_phase, metrics <- pfx_metrics
R == INSTANCE FilterParser

\* What a part that is not checked is set to does not matter.
Init ==
  /\ part \in Parts
  /\ T!Init /\ F!Init /\ N!Init /\ A!Init /\ I!Init /\ M!MonInit /\ R!Init

\* The other parts keep still.
Keep(names, state) == IF part \in names THEN TRUE ELSE UNCHANGED state

Rest ==
  /\ Keep({"tree"}, patricia_vars)
  /\ Keep({"filter"}, filter_vars)
  /\ Keep({"asmonitor"}, asmonitor_vars)
  /\ Keep({"paths"}, store_vars)
  /\ Keep({"counter", "pfxmonitor"}, counter_vars)
  /\ Keep({"pfxmonitor"}, pfxmonitor_vars)
  /\ Keep({"parser"}, parser_vars)
  /\ UNCHANGED part

Next ==
  \/ part = "tree" /\ T!Next /\ Rest
  \/ part = "filter" /\ F!Next /\ Rest
  \/ part = "asmonitor" /\ N!Next /\ Rest
  \/ part = "paths" /\ A!Next /\ Rest
  \/ part = "counter" /\ I!Next /\ Rest
  \/ part = "pfxmonitor" /\ M!MonNext /\ Rest
  \/ part = "parser" /\ R!Next /\ Rest

Spec == Init /\ [][Next]_vars

-----------------------------------------------------------------------------
(* Properties, each of one part *)

\* Patricia: every allocated node hangs where its bits tell, a glue node has
\* two children, and user data is attached to one node or destroyed.  Lookups
\* answer what the set of the prefixes inserted and not removed says, counts of
\* subnets as far as they fit, and leave the tree as it was.
TreeIsRight == part = "tree" => (T!TreeIsSound /\ T!UsersAreOwned /\ T!AnswersAreRight)

\* Filter: an elem that the filters ask for passes, but for the named exceptions.
AskedElemsPass == part = "filter" => F!AskedElemsPass

\* Filter: only elems that the filters ask for pass.
PassingElemsAreAsked == part = "filter" => F!PassingElemsAreAsked

\* AsMonitor: the tree holds what a monitored AS announced within the window,
\* and a withdrawn route is not counted.
TreeIsTheWindow == part = "asmonitor" => (N!TreeIsTheWindow /\ N!WithdrawnRoutesAreGone)

\* AsPathStore: the fields of a path agree with its segments, however it was
\* filled; an id leads back to the path it was given for, and an iteration meets
\* every stored path once, with its id when that is asked for before the path.
StoreIsRight ==
  part = "paths" => (A!PathsAreConsistent /\ A!IdsLeadBack /\ A!IterationIsComplete)

\* IpCounter: the lists are sorted, disjoint and exact, and the counts and
\* overlaps are those of the addresses, but for the named exceptions.
CounterIsRight == part = "counter" => (I!ListsAreExact /\ I!CountsAreRight /\ I!OverlapsAreRight)

\* PfxMonitor: metrics count the monitored prefixes that are visible now, and
\* some of those that it compares by their upper halves only.
MetricsAreCurrent == part = "pfxmonitor" => M!MetricsAreCurrent

\* FilterParser: the filters added are the clauses of the string up to an error.
ClausesAreAdded == part = "parser" => R!ClausesAreAdded

=============================================================================
