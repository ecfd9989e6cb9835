------------------------------- MODULE Filter -------------------------------
(***************************************************************************)
(* The filter manager, lib/bgpstream_filter.c, and the filtering of elems, *)
(* lib/bgpstream_record.c.  Filters are added to the manager one by one;   *)
(* every elem a user asks for is then checked against it.  The check of a  *)
(* prefix inserts the prefix of the elem into the tree of the filters and  *)
(* removes it again.                                                       *)
(*                                                                         *)
(* What a value denotes is given in place of its text: a prefix, an ASN, a *)
(* community pattern, an expression on AS paths.  An expression is an ASN  *)
(* that has to be, or with negate must not be, in the path: how regcomp    *)
(* and regexec match text is not modelled.                                 *)
(***************************************************************************)
EXTENDS PatriciaTree, Community, TLC

CONSTANTS
  Filters,       \* filters a user may add: [type, value]
  Elems,         \* elems: [type, peer_asnumber, prefix, aspath, communities]
  W,             \* bits of a half of a community
  MaxFilters,    \* bound: filters added
  MaxActive      \* bound: the counter of active nodes, see Patricia

VARIABLES
  filter_mgr,
  added          \* the filters that were added

filter_vars == <<filter_mgr, added>>

\* A text that is no community.
BAD_TEXT == [asn |-> -2, value |-> -2]

\* BGPSTREAM_PREFIX_MATCH_*
MATCH_EXACT == 1
MATCH_MORE == 2
MATCH_LESS == 3

\* create: everything is 0.  Sets that are NULL are empty; of the communities
\* NULL and an empty table differ.
FilterMgrCreate ==
  [projects |-> {}, collectors |-> {}, bgp_types |-> {}, aspath_exprs |-> {},
   peer_asns |-> {}, elemtype_mask |-> {}, ipversion |-> 0, prefixes |-> Empty,
   communities |-> [made |-> FALSE, masks |-> <<>>]]

ElemTypes ==
  "ribs" :> "RIB" @@ "announcements" :> "ANNOUNCEMENT" @@
  "withdrawals" :> "WITHDRAWAL" @@ "peerstates" :> "PEERSTATE"

MatchType ==
  "PREFIX" :> MATCH_MORE @@ "PREFIX_MORE" :> MATCH_MORE @@ "PREFIX_LESS" :> MATCH_LESS @@
  "PREFIX_EXACT" :> MATCH_EXACT @@ "PREFIX_ANY" :> MATCH_ANY

\* Mutant of AddElemType: = in the place of |=.
AddElemTypeReplaces(mgr, value) ==
  IF value \in DOMAIN ElemTypes THEN [mgr EXCEPT !.elemtype_mask = {ElemTypes[value]}] ELSE mgr

AddElemType(mgr, value) ==
  IF value \in DOMAIN ElemTypes
  THEN [mgr EXCEPT !.elemtype_mask = @ \cup {ElemTypes[value]}] ELSE mgr

AddPrefix(mgr, type, pfx) ==
  [mgr EXCEPT !.prefixes = Insert(@, [pfx EXCEPT !.allowed = MatchType[type]]).tree]

\* The table is made before the text is looked at.  Patterns with the same
\* community share an entry, and only what all of them want has to agree.
AddCommunity(mgr, str) ==
  LET made == [mgr EXCEPT !.communities.made = TRUE]
      c == Str2Community(str, W)
      masks == mgr.communities.masks
  IN  IF str = BAD_TEXT THEN made
      ELSE [made EXCEPT !.communities.masks =
              (c.com :> (IF c.com \in DOMAIN masks THEN masks[c.com] \cap c.mask ELSE c.mask))
                @@ masks]

AddIpVersion(mgr, value) ==
  IF value \in {4, 6} THEN [mgr EXCEPT !.ipversion = value] ELSE mgr

\* filter_add.
FilterAdd(mgr, f) ==
  CASE f.type = "PEER_ASN" -> [mgr EXCEPT !.peer_asns = @ \cup {f.value}]
    [] f.type = "ELEM_TYPE" -> AddElemType(mgr, f.value)
    [] f.type = "ASPATH" -> [mgr EXCEPT !.aspath_exprs = @ \cup {f.value}]
    [] f.type \in DOMAIN MatchType -> AddPrefix(mgr, f.type, f.value)
    [] f.type = "COMMUNITY" -> AddCommunity(mgr, f.value)
    [] f.type = "IP_VERSION" -> AddIpVersion(mgr, f.value)
    [] f.type = "PROJECT" -> [mgr EXCEPT !.projects = @ \cup {f.value}]
    [] f.type = "COLLECTOR" -> [mgr EXCEPT !.collectors = @ \cup {f.value}]
    [] f.type = "RECORD_TYPE" -> [mgr EXCEPT !.bgp_types = @ \cup {f.value}]

-----------------------------------------------------------------------------
(* The check of an elem *)

\* Nodes of a result set from the cursor on that allow a match.
Allows(t, nodes, cursor, type) ==
  \E i \in DOMAIN nodes :
    i > cursor /\ t.heap[nodes[i]].pfx.allowed \in {MATCH_ANY, type}

\* elem_prefix_match: the result set is filled twice; its cursor stays behind
\* the less specific prefixes when the more specific ones are read.
ElemPrefixMatch(t, search) ==
  LET Looked(i) ==
        LET less == GetLessSpecifics(i.tree, i.node)
            more == GetMoreSpecifics(i.tree, i.node)
        IN  [pass |-> \/ Allows(i.tree, less, 0, MATCH_MORE)
                      \/ Allows(i.tree, more, Len(less), MATCH_LESS),
             tree |-> RemoveNode(i.tree, i.node)]
  IN  IF SearchExact(t, search) # NULL THEN [pass |-> TRUE, tree |-> t]
      ELSE With(Insert(t, search), Looked)

HasPath(elem) == elem.type \in {"RIB", "ANNOUNCEMENT"}

\* The path holds the ASN of every expression and of none with negate.
PathMatches(exprs, elem) ==
  /\ HasPath(elem)
  /\ elem.aspath # <<>>
  /\ \A e \in exprs : (e.asn \in ToSet(elem.aspath)) = ~e.negate

CommunityMatches(masks, elem) ==
  /\ HasPath(elem)
  /\ \E c \in DOMAIN masks :
       SetMatch(SetPopulate(SetCreate, elem.communities), c, masks[c])

\* elem_check_filters: the first of the filters on prefixes, paths and
\* communities that is set decides.
ElemCheckFilters(mgr, elem) ==
  LET rightKind ==
        /\ mgr.elemtype_mask = {} \/ elem.type \in mgr.elemtype_mask
        /\ mgr.peer_asns = {} \/ elem.peer_asnumber \in mgr.peer_asns
        /\ \/ mgr.ipversion = 0
           \/ elem.type # "PEERSTATE" /\ elem.prefix.version = mgr.ipversion
      match == ElemPrefixMatch(mgr.prefixes, elem.prefix)
      keep == mgr.prefixes
  IN  IF ~rightKind THEN [pass |-> FALSE, tree |-> keep]
      ELSE IF mgr.prefixes # Empty
           THEN IF elem.type = "PEERSTATE" THEN [pass |-> FALSE, tree |-> keep] ELSE match
      ELSE IF mgr.aspath_exprs # {}
           THEN [pass |-> PathMatches(mgr.aspath_exprs, elem), tree |-> keep]
      ELSE IF mgr.communities.made
           THEN [pass |-> CommunityMatches(mgr.communities.masks, elem), tree |-> keep]
      ELSE [pass |-> TRUE, tree |-> keep]

-----------------------------------------------------------------------------

Init ==
  /\ filter_mgr = FilterMgrCreate
  /\ added = {}

AddFilter(f) ==
  /\ Cardinality(added) < MaxFilters
  /\ filter_mgr' = FilterAdd(filter_mgr, f)
  /\ added' = added \cup {f}

CheckElem(elem) ==
  /\ filter_mgr' = [filter_mgr EXCEPT !.prefixes = ElemCheckFilters(filter_mgr, elem).tree]
  /\ \A v \in Versions : filter_mgr'.prefixes.active[v] <= MaxActive
  /\ UNCHANGED added

Next ==
  \/ \E f \in Filters : AddFilter(f)
  \/ \E elem \in Elems : CheckElem(elem)

-----------------------------------------------------------------------------
(* What the FILTERING document says *)

Of(types) == {f.value : f \in {g \in added : g.type \in types}}

Inside(a, b) == a.version = b.version /\ a.len > b.len /\ CompWithMask(a, b, b.len)
Same(a, b) == Masked(a) = Masked(b)

PrefixAsked(f, pfx) ==
  \/ Same(pfx, f.value)
  \/ f.type \in {"PREFIX", "PREFIX_MORE", "PREFIX_ANY"} /\ Inside(pfx, f.value)
  \/ f.type \in {"PREFIX_LESS", "PREFIX_ANY"} /\ Inside(f.value, pfx)

CommunityAsked(str, c) ==
  str # BAD_TEXT /\ \A half \in FILTER_EXACT : str[half] = STAR \/ c[half] = Bits(str[half], W)

\* Filters on one thing are alternatives, but for paths, where all have to match;
\* filters on different things all have to match.
KindAsked(elem) ==
  LET types == Of({"ELEM_TYPE"}) \cap DOMAIN ElemTypes
      versions == Of({"IP_VERSION"}) \cap {4, 6}
  IN  /\ types # {} => \E v \in types : ElemTypes[v] = elem.type
      /\ Of({"PEER_ASN"}) # {} => elem.peer_asnumber \in Of({"PEER_ASN"})
      /\ versions # {} => elem.type # "PEERSTATE" /\ elem.prefix.version \in versions

OnPrefix == {f \in added : f.type \in DOMAIN MatchType}

Asked(elem) ==
  /\ KindAsked(elem)
  /\ OnPrefix # {} => elem.type # "PEERSTATE" /\ \E f \in OnPrefix : PrefixAsked(f, elem.prefix)
  /\ Of({"ASPATH"}) # {} => PathMatches(Of({"ASPATH"}), elem)
  /\ Of({"COMMUNITY"}) # {} =>
       /\ HasPath(elem)
       /\ \E str \in Of({"COMMUNITY"}), i \in DOMAIN elem.communities :
            CommunityAsked(str, elem.communities[i])

PassesFilters(elem) == ElemCheckFilters(filter_mgr, elem).pass

\* Known exceptions: two versions asked for, of which the last one counts; a
\* prefix whose node was a glue node keeps its kind of match and may hide more
\* specific ones; a community with a half that is 0.
Excepted ==
  \/ Cardinality(Of({"IP_VERSION"}) \cap {4, 6}) > 1
  \/ \E p \in DOMAIN filter_mgr.prefixes.heap :
       filter_mgr.prefixes.heap[p].pfx.allowed # MATCH_ANY
  \/ \E str \in Of({"COMMUNITY"}) : str # BAD_TEXT /\ 0 \in {str.asn, str.value}

\* Whatever filters are added in whatever order, and however many elems were
\* looked up in the tree before: an elem that is asked for passes, and one that
\* passes is of the kind asked for and overlaps a prefix asked for.  The check
\* leaves the tree of prefixes as it was.
AskedElemsPass ==
  \A elem \in Elems :
    /\ Excepted \/ (Asked(elem) => PassesFilters(elem))
    /\ PassesFilters(elem) =>
         /\ Excepted \/ KindAsked(elem)
         /\ OnPrefix # {} => \E f \in OnPrefix :
              PrefixAsked([f EXCEPT !.type = "PREFIX_ANY"], elem.prefix)
    /\ LET t == ElemCheckFilters(filter_mgr, elem).tree
       IN  DOMAIN t.heap = DOMAIN filter_mgr.prefixes.heap /\ t.head = filter_mgr.prefixes.head

\* FILTERING: an elem passes only if it matches the filters.
PassingElemsAreAsked == \A elem \in Elems : PassesFilters(elem) => Asked(elem)

=============================================================================
