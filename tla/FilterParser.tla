---------------------------- MODULE FilterParser ----------------------------
(***************************************************************************)
(* The parser of filter strings, lib/bgpstream_filter_parser.c, word by    *)
(* word.  A word is a sequence of quotes and of the texts between them; a  *)
(* value is the sequence of its words.                                     *)
(***************************************************************************)
EXTENDS Integers, Sequences, SequencesExt, FiniteSets, TLC

CONSTANTS
  Words,         \* the words of filter strings
  MaxWords       \* bound: words in a string

VARIABLES
  parser,        \* [state, item, adds]: the state, the current item, and the
                 \* filters added so far
  text           \* the words read

parser_vars == <<parser, text>>

QUOTE == "quote"

NoItem == [termtype |-> "NONE", value |-> <<>>]

\* parse_filter_term: terms and their short forms.
Terms ==
  "project" :> "PROJECT" @@ "proj" :> "PROJECT" @@
  "collector" :> "COLLECTOR" @@ "coll" :> "COLLECTOR" @@
  "type" :> "RECORD_TYPE" @@ "peer" :> "PEER_ASN" @@
  "prefix" :> "PREFIX_MORE" @@ "pref" :> "PREFIX_MORE" @@
  "community" :> "COMMUNITY" @@ "comm" :> "COMMUNITY" @@
  "aspath" :> "ASPATH" @@ "path" :> "ASPATH" @@
  "extcommunity" :> "EXTENDED_COMMUNITY" @@ "extc" :> "EXTENDED_COMMUNITY" @@
  "ipversion" :> "IP_VERSION" @@ "ipv" :> "IP_VERSION" @@ "elemtype" :> "ELEM_TYPE"

Exts ==
  "any" :> "PREFIX_ANY" @@ "more" :> "PREFIX_MORE" @@
  "less" :> "PREFIX_LESS" @@ "exact" :> "PREFIX_EXACT"

Is(tok, words) == Len(tok) = 1 /\ Head(tok) \in words

\* instantiate_filter: the types it does not know are left out.
Instantiate(p) ==
  IF p.item.termtype = "EXTENDED_COMMUNITY" THEN p
  ELSE [p EXCEPT !.adds = Append(@, p.item)]

ParseTerm(p, tok) ==
  IF ~Is(tok, DOMAIN Terms) THEN [p EXCEPT !.state = "FAIL"]
  ELSE [p EXCEPT !.item.termtype = Terms[Head(tok)],
                 !.state = IF Terms[Head(tok)] = "PREFIX_MORE" THEN "PREFIXEXT" ELSE "VALUE"]

\* The first quote, wherever it stands in the word, ends the value and cuts the
\* word; what is left is appended to the value.
ParseQuotedValue(p, tok) ==
  LET endquote == SelectInSeq(tok, LAMBDA c : c = QUOTE)
      value == IF endquote = 0 THEN tok ELSE SubSeq(tok, 1, endquote - 1)
  IN  [p EXCEPT !.state = IF endquote # 0 THEN "ENDVALUE" ELSE @,
                !.item.value = IF value = <<>> THEN @ ELSE Append(@, value)]

\* A value without a quote in front is one word as it stands.
ParseValue(p, tok) ==
  IF Head(tok) = QUOTE THEN ParseQuotedValue([p EXCEPT !.state = "QUOTEDVALUE"], Tail(tok))
  ELSE [p EXCEPT !.state = "ENDVALUE", !.item.value = <<tok>>]

ParsePrefixExt(p, tok) ==
  IF Is(tok, DOMAIN Exts)
  THEN [p EXCEPT !.item.termtype = Exts[Head(tok)], !.state = "VALUE"]
  ELSE ParseValue(p, tok)

\* Mutant of ParseEndValue: the item stays.
ParseEndValueKeepsItem(p, tok) ==
  [p EXCEPT !.state = IF Is(tok, {"and"}) THEN "TERM" ELSE "FAIL"]

\* The item is freed; only "and" goes on.
ParseEndValue(p, tok) ==
  [p EXCEPT !.item = NoItem, !.state = IF Is(tok, {"and"}) THEN "TERM" ELSE "FAIL"]

\* One round of parse_filter_string.  In the state VALUE the filter is added
\* whatever the value has become.
Step(p, tok) ==
  LET q == CASE p.state = "TERM" -> ParseTerm(p, tok)
             [] p.state = "PREFIXEXT" -> ParsePrefixExt(p, tok)
             [] p.state = "VALUE" -> ParseValue(p, tok)
             [] p.state = "QUOTEDVALUE" -> ParseQuotedValue(p, tok)
             [] p.state = "ENDVALUE" -> ParseEndValue(p, tok)
  IN  IF \/ p.state = "VALUE"
         \/ p.state \in {"PREFIXEXT", "QUOTEDVALUE"} /\ q.state = "ENDVALUE"
      THEN Instantiate(q) ELSE q

Init ==
  /\ parser = [state |-> "TERM", item |-> NoItem, adds |-> <<>>]
  /\ text = <<>>

Read(tok) ==
  /\ parser.state # "FAIL"
  /\ Len(text) < MaxWords
  /\ parser' = Step(parser, tok)
  /\ text' = Append(text, tok)

Next == \E tok \in Words : Read(tok)

-----------------------------------------------------------------------------
(* What the language says: clauses, joined by "and", of a term, for        *)
(* prefixes a kind of match, and a word or a quoted list of words, which   *)
(* ends at the next quote; what stands behind it in its word is dropped.   *)

IsOpen(i) == Head(text[i]) = QUOTE

\* The words of a value that begins at i, and has a quote in front.
Quoted(i) == [k \in i..Len(text) |-> IF k = i THEN Tail(text[k]) ELSE text[k]]

Closes(word) == QUOTE \in ToSet(word)

UpToQuote(word) ==
  SubSeq(word, 1, Max({n \in 0..Len(word) : ~Closes(SubSeq(word, 1, n))}))

\* The end of the value that begins at i, 0 if it is still open.
ValueEnd(i) ==
  LET closing == {k \in i..Len(text) : Closes(Quoted(i)[k])}
  IN  IF i > Len(text) THEN 0
      ELSE IF ~IsOpen(i) THEN i
      ELSE IF closing = {} THEN 0
      ELSE CHOOSE k \in closing : \A m \in closing : k <= m

ValueOf(i, end) ==
  IF IsOpen(i)
  THEN SelectSeq([k \in 1..(end - i + 1) |-> UpToQuote(Quoted(i)[i + k - 1])],
                 LAMBDA w : w # <<>>)
  ELSE <<text[i]>>

\* The clauses from the word i on that have been read.
Clauses ==
  LET From[i \in 1..(MaxWords + 2)] ==
        LET term == text[i]
            typed == /\ i < Len(text) /\ Is(term, {"prefix", "pref"})
                     /\ Is(text[i + 1], DOMAIN Exts)
            start == IF typed THEN i + 2 ELSE i + 1
            end == ValueEnd(start)
            clause == [termtype |-> IF typed THEN Exts[Head(text[i + 1])] ELSE Terms[Head(term)],
                       value |-> ValueOf(start, end)]
        IN  IF i > Len(text) \/ ~Is(term, DOMAIN Terms) \/ end = 0 THEN <<>>
            ELSE (IF clause.termtype = "EXTENDED_COMMUNITY" THEN <<>> ELSE <<clause>>)
                 \o (IF end < Len(text) /\ Is(text[end + 1], {"and"})
                     THEN From[end + 2] ELSE <<>>)
  IN  From[1]

\* The beginning of a quoted value that goes on in the next word, which is
\* added on its own.
Cut(a) == \E i \in DOMAIN text :
            /\ IsOpen(i) /\ ~Closes(Tail(text[i]))
            /\ a.value = IF Tail(text[i]) = <<>> THEN <<>> ELSE <<Tail(text[i])>>

\* Of any string, accepted or not, the filters of the clauses read so far have
\* been added, in their order and with their whole values; nothing else is,
\* but the first words of values that are quoted and longer.
ClausesAreAdded ==
  \E whole \in SUBSET DOMAIN parser.adds :
    /\ Clauses = [k \in 1..Cardinality(whole) |->
                    parser.adds[CHOOSE i \in whole :
                      Cardinality({j \in whole : j < i}) = k - 1]]
    /\ \A i \in DOMAIN parser.adds \ whole : Cut(parser.adds[i])

=============================================================================
