------------------------------- MODULE Reading -------------------------------
(***************************************************************************)
(* What is read out of the text of one message: the chunks that become rows *)
(* of the matrix (chunks.py), and the items, designs and paths that become  *)
(* nodes of the graph (graph.py).                                            *)
(*                                                                         *)
(* A message is a sequence of lines.  A line is what the expressions of the *)
(* code take it for, the name it bears, the level of a heading, and whether *)
(* it stands in a block of code; a block is shown with the one line of it   *)
(* that matters.  "todo" stands for every form of line that opens an item,  *)
(* "hint" for a bullet that says it is deferred.  Names are long enough to  *)
(* count, and a line says more than the path, link or heading it bears.      *)
(***************************************************************************)
EXTENDS Listing

CONSTANTS
  Lines,         \* lines that may be said
  MaxChunks,     \* chunks_per_turn
  Words,         \* words of a line, by kind
  MinTokens, TargetTokens, MaxTokens,  \* of a merged chunk
  MaxItems,      \* found[:16]
  MaxDesigns,    \* designs, headings, outcomes taken from a message
  PathCap        \* PER_TURN_PATH_CAP

LineKinds == {"blank", "heading", "deferred heading", "bullet", "unchecked", "checked", "todo",
              "done", "hint", "decision", "outcome", "path", "link", "sentence"}
IsHeading(l) == l.is \in {"heading", "deferred heading"}
ASSUME ReadingAssumption ==
  /\ \A l \in Lines : l.is \in LineKinds /\ l.level \in 0..6 /\ l.fenced \in BOOLEAN
  /\ \A l \in Lines : IsHeading(l) => l.level > 0
  /\ \A l, k \in Lines : IsHeading(l) /\ l.of = k.of => IsHeading(k) \/ k.is = "blank"
  /\ Words \in [LineKinds -> Nat]
  /\ {MaxChunks, MinTokens, MaxItems, MaxDesigns, PathCap} \subseteq Nat \ {0}
  /\ MinTokens <= TargetTokens /\ TargetTokens <= MaxTokens

\* The lines of a message that are so, in order.
Where(m, IsSo(_)) == Ascending({n \in DOMAIN m : IsSo(n)})
Of(m, at) == [k \in DOMAIN at |-> m[at[k]].of]
\* _dedupe_limited: each name once, the first so many.
Unique(names) == FoldLeft(LAMBDA s, x : IF x \in Range(s) THEN s ELSE Append(s, x), <<>>, names)
Firsts(names, limit) == LET u == Unique(names) IN SubSeq(u, 1, AtMost(limit, Len(u)))

-----------------------------------------------------------------------------
(* Chunks: sequences of line numbers.                                        *)

Heads(m) == Where(m, LAMBDA n : IsHeading(m[n]) /\ ~m[n].fenced)
Body(m) == Where(m, LAMBDA n : m[n].is # "blank" /\ (m[n].fenced \/ ~IsHeading(m[n])))
WordsOf(m, chunk) == FoldLeft(LAMBDA sum, n : sum + Words[m[n].is], 0, chunk)
HasFence(m, chunk) == \E k \in DOMAIN chunk : m[chunk[k]].fenced

\* _merge_to_target: a long piece or a block of code is a chunk of its own, short ones are
\* gathered.
Flush(s) == IF s.buf = <<>> THEN s ELSE [out |-> Append(s.out, s.buf), buf |-> <<>>]
Gathered(m, s, n) ==
  LET more == [s EXCEPT !.buf = Append(@, n)]
  IN IF WordsOf(m, more.buf) >= TargetTokens THEN Flush(more) ELSE more
Piece(m, s, n) ==
  LET tok == Words[m[n].is] IN
  IF tok >= MinTokens \/ m[n].fenced
  THEN [Flush(s) EXCEPT !.out = Append(@, <<n>>)]
  ELSE IF s.buf # <<>> /\ WordsOf(m, s.buf) + tok > MaxTokens
       THEN [Flush(s) EXCEPT !.buf = <<n>>] ELSE Gathered(m, s, n)
Pieces(m) == FoldLeft(LAMBDA s, n : Piece(m, s, n), [out |-> <<>>, buf |-> <<>>], Body(m))
_merge_to_target(m) == Flush(Pieces(m)).out

\* round(i * (len - 1) / (count - 1)), halves to even; from 1.
Spaced(i, len, count) ==
  LET num == i * (len - 1)  den == count - 1  whole == num \div den  rest == 2 * (num % den)
  IN 1 + whole + IF rest > den \/ (rest = den /\ whole % 2 = 1) THEN 1 ELSE 0

\* Mutant: no block of code is kept.
NoFenceKept(m, heads, pool) ==
  LET both == heads \o pool
  IN IF Len(both) <= MaxChunks THEN both ELSE SubSeq(both, 1, MaxChunks)
\* Too many chunks: the headings, and the others evenly spaced, a block of code among them.
Selected(m, heads, pool) ==
  LET kept == SubSeq(heads, 1, AtMost(Len(heads), MaxChunks))
      remaining == MaxChunks - Len(kept)
      fences == Those(pool, {n \in DOMAIN pool : HasFence(m, pool[n])})
      at == {n \in DOMAIN pool : \E i \in 0..(remaining - 1) : n = Spaced(i, Len(pool), remaining)}
      spaced == kept \o Those(pool, at)
  IN IF Len(heads) + Len(pool) <= MaxChunks THEN heads \o pool
     ELSE IF remaining = 0
          THEN IF fences = <<>> THEN kept ELSE SubSeq(kept, 1, MaxChunks - 1) \o <<fences[1]>>
     ELSE IF Len(pool) <= remaining THEN kept \o pool
     ELSE IF remaining = 1 THEN Append(kept, IF fences # <<>> THEN fences[1] ELSE pool[1])
     ELSE IF fences # <<>> /\ ~\E n \in DOMAIN spaced : HasFence(m, spaced[n])
          THEN [spaced EXCEPT ![Len(spaced)] = fences[1]] ELSE spaced
\* A message without a word is one empty chunk.
chunk_text(m) ==
  LET heads == Heads(m)
      chunks == Selected(m, [k \in DOMAIN heads |-> <<heads[k]>>], _merge_to_target(m))
  IN IF chunks = <<>> THEN << <<>> >> ELSE chunks

\* tag_chunk: what the pooling shields.
tag_chunk(m, chunk) ==
  LET is == {m[chunk[k]].is : k \in DOMAIN chunk}
  IN {"identifier" : x \in is \cap {"link"}} \cup (is \cap {"path", "decision"})

-----------------------------------------------------------------------------
(* Items, designs, paths: names.  To all but _heading_facts, a heading in a   *)
(* block of code is one.                                                     *)

\* Mutant: a section ends at the next heading of its own level only.
EndsAtEqual(m) ==
  LET Scan(s, n) ==
        CASE m[n].is = "deferred heading" -> [s EXCEPT !.level = m[n].level]
          [] m[n].is = "heading" -> IF m[n].level = s.level THEN [s EXCEPT !.level = 0] ELSE s
          [] OTHER -> IF s.level > 0 /\ m[n].is \in {"bullet", "unchecked", "checked", "hint"}
                      THEN [s EXCEPT !.at = Append(@, n)] ELSE s
  IN FoldLeft(Scan, [level |-> 0, at |-> <<>>], [n \in DOMAIN m |-> n]).at
\* _deferred_section_items: a scan that holds the level of the deferred heading it is under.
ScanDeferred(m, s, n) ==
  CASE m[n].is = "deferred heading" -> [s EXCEPT !.level = m[n].level]
    [] m[n].is = "heading" -> IF m[n].level <= s.level THEN [s EXCEPT !.level = 0] ELSE s
    [] OTHER -> IF s.level > 0 /\ m[n].is \in {"bullet", "unchecked", "checked", "hint"}
                THEN [s EXCEPT !.at = Append(@, n)] ELSE s
DeferredScan(m) ==
  FoldLeft(LAMBDA s, n : ScanDeferred(m, s, n), [level |-> 0, at |-> <<>>], [n \in DOMAIN m |-> n])
_deferred_section_items(m) == DeferredScan(m).at

_open_items_from_text(m) ==
  LET Are(kind) == Where(m, LAMBDA n : m[n].is = kind)
  IN Firsts(Of(m, Are("unchecked") \o Are("todo") \o _deferred_section_items(m) \o Are("hint")),
            MaxItems)
_done_items(m) == {m[n].of : n \in {k \in DOMAIN m : m[k].is \in {"done", "checked"}}}

\* _design_facts: what follows a heading, up to a blank line, and every marked decision.
ScanDesigns(m, s, n) ==
  CASE m[n].is = "blank" -> [s EXCEPT !.within = FALSE]
    [] IsHeading(m[n]) -> [s EXCEPT !.within = TRUE]
    [] OTHER -> IF s.within \/ m[n].is = "decision" THEN [s EXCEPT !.at = Append(@, n)] ELSE s
DesignScan(m) ==
  FoldLeft(LAMBDA s, n : ScanDesigns(m, s, n), [within |-> FALSE, at |-> <<>>], [n \in DOMAIN m |-> n])
_design_facts(m) == Firsts(Of(m, DesignScan(m).at), MaxDesigns)

_identifier_facts(m) == {m[n].of : n \in {k \in DOMAIN m : m[k].is = "link"}}
_heading_facts(m) == Firsts(Of(m, Heads(m)), MaxDesigns)
_outcome_items(m) == Firsts(Of(m, Where(m, LAMBDA n : m[n].is = "outcome")), MaxDesigns)

\* _path_facts: a path that stands in code only must have been mentioned before.  counts is
\* what the graph object has heard so far.
Mentioned(m, path) == {n \in DOMAIN m : m[n].is = "path" /\ m[n].of = path}
Outside(m, path) == {n \in Mentioned(m, path) : ~m[n].fenced}
Counted(m, counts) == [p \in DOMAIN counts |-> counts[p] + Cardinality(Mentioned(m, p))]
\* Mutant: a path in code is a fact from the third time on.
ThirdTime(m, counts) ==
  {p \in DOMAIN counts : Outside(m, p) # {} \/ (Mentioned(m, p) # {} /\ Counted(m, counts)[p] > 2)}
_path_facts(m, counts) ==
  LET now == Counted(m, counts)
      told == {p \in DOMAIN counts : Outside(m, p) # {} \/ (Mentioned(m, p) # {} /\ now[p] >= 2)}
      Salience(p) == 2 * AtMost(now[p], 3) + IF Outside(m, p) # {} THEN 3 ELSE 0
      order == Ranked(told, LAMBDA p, q : \/ Salience(p) > Salience(q)
                                          \/ Salience(p) = Salience(q) /\ p < q)
  IN Range(SubSeq(order, 1, AtMost(PathCap, Len(order))))
=============================================================================
