------------------------------- MODULE HotSet -------------------------------
(***************************************************************************)
(* What the graph puts forward for a prompt (graph.py hot_set,              *)
(* typed_projection): its active items, by kind and salience, within a      *)
(* number of characters.  An item is an open item or a fact; items are       *)
(* numbered as they were inserted.  Lengths are counted, texts are not       *)
(* spelled.                                                                *)
(***************************************************************************)
EXTENDS Listing

CONSTANTS
  Items,
  Kind,          \* of an item; a link is an identifier that reads like a path
  Size,          \* characters of its text
  Salience,
  Mentions,      \* identifiers named in its text
  Strong,        \* salience of a decision
  HotMax,        \* hot_set_max_chars
  Slots,         \* n_slots
  HotCut,        \* a summary longer than this is cut
  Prefix,        \* characters of "OpenItem: " and the like
  TopK           \* lines of a typed projection

Kinds == {"open", "decision", "path", "identifier", "link", "other"}
ASSUME HotAssumption ==
  /\ Items \subseteq Nat \ {0} /\ Kind \in [Items -> Kinds] /\ Size \in [Items -> Nat \ {0}]
  /\ Salience \in [Items -> Nat] /\ Mentions \in [Items -> SUBSET Items]
  /\ {Strong, HotMax, Slots, HotCut, Prefix, TopK} \subseteq Nat

IsOpen(i) == Kind[i] = "open"
IsPathOrHeading(i) == Kind[i] \in {"path", "link"}
IsIdentifier(i) == Kind[i] \in {"identifier", "link"}
IsDecision(i) ==
  ~IsOpen(i) /\ ~IsPathOrHeading(i) /\ (Kind[i] = "decision" \/ Salience[i] >= Strong)
IsOther(i) == ~IsOpen(i) /\ ~IsPathOrHeading(i) /\ ~IsIdentifier(i) /\ ~IsDecision(i)

\* _rank, in reverse: salience and half the overlap with the query, then the later one.
Score(i, query) == 2 * Salience[i] + IF i \in query THEN 1 ELSE 0
Ahead(i, j, query) ==
  \/ Score(i, query) > Score(j, query)
  \/ Score(i, query) = Score(j, query) /\ i > j
ByRank(S, query) == Ranked(S, LAMBDA i, j : Ahead(i, j, query))

\* Length of the line an item has in the hot set.
LineChars(i) ==
  Prefix + Size[i] + IF IsIdentifier(i) THEN 0 ELSE AtMost(Size[i], HotCut)

Buckets(active, query) ==
  LET In(bucket, S) == LET r == ByRank(S, query)
                       IN [n \in 1..Len(r) |-> [bucket |-> bucket, item |-> r[n]]]
  IN In("decision", {i \in active : IsDecision(i)})
     \o In("open", {i \in active : IsOpen(i)})
     \o In("path", {i \in active : IsPathOrHeading(i)})
     \o In("path", {i \in active : IsIdentifier(i)})
     \o In("other", {i \in active : IsOther(i)})
Quota(bucket) ==
  CASE bucket \in {"decision", "open"} -> AtLeast(1, (2 * Slots) \div 5)
    [] bucket = "path" -> AtLeast(1, Slots \div 5)
    [] bucket = "other" -> Slots

Nothing == [parts |-> <<>>, used |-> 0, seen |-> {}, stop |-> FALSE,
            taken |-> [b \in {"decision", "open", "path", "other"} |-> 0]]
\* Mutant: no room is left for the line's end.
FitsBarely(s, i) == s.used + LineChars(i) <= HotMax
Fits(s, i) == s.used + LineChars(i) + 1 <= HotMax
Puts(s, i) == [parts |-> Append(s.parts, i), used |-> s.used + LineChars(i) + 1,
               seen |-> s.seen \cup {i}, stop |-> s.stop, taken |-> s.taken]
Emit(s, b) ==
  IF s.taken[b.bucket] >= Quota(b.bucket) \/ b.item \in s.seen \/ ~Fits(s, b.item) THEN s
  ELSE [Puts(s, b.item) EXCEPT !.taken[b.bucket] = @ + 1]

\* The identifier vault: one that is missing takes the place of the first line of a fact that
\* is no identifier and names none.
Droppable(s, active) ==
  {n \in DOMAIN s.parts : LET i == s.parts[n] IN
     /\ ~IsOpen(i) /\ ~IsIdentifier(i)
     /\ \A d \in Mentions[i] \cap active : ~IsIdentifier(d)}
Drop(s, n) == [parts |-> RemoveAt(s.parts, n), used |-> s.used - LineChars(s.parts[n]) - 1,
               seen |-> s.seen, stop |-> s.stop, taken |-> s.taken]
ForceIn(s, i, active) ==
  LET room == Droppable(s, active)
      cleared == IF Fits(s, i) THEN s
                 ELSE Drop(s, CHOOSE n \in room : \A m \in room : n <= m)
  IN IF s.stop \/ i \in s.seen THEN s
     ELSE IF s.used >= HotMax \/ (~Fits(s, i) /\ room = {}) THEN [s EXCEPT !.stop = TRUE]
     ELSE IF Fits(cleared, i) THEN Puts(cleared, i) ELSE [cleared EXCEPT !.stop = TRUE]

Filled(buckets) == FoldLeft(Emit, Nothing, buckets)
Vault(filled, ids, active) == FoldLeft(LAMBDA s, i : ForceIn(s, i, active), filled, ids)
\* The items of the hot set, in the order of their lines.
hot_set(active, query) ==
  Vault(Filled(Buckets(active, query)), ByRank({i \in active : IsIdentifier(i)}, query), active).parts
HotChars(parts) == Total([n \in DOMAIN parts |-> LineChars(parts[n]) + 1])

\* A line for each active item, the ones the query is about first.
typed_projection(active, query) ==
  LET lines == Ascending(active \cap query) \o Ascending(active \ query)
  IN SubSeq(lines, 1, AtMost(TopK, Len(lines)))
=============================================================================
