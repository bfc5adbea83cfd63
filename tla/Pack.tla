-------------------------------- MODULE Pack --------------------------------
(***************************************************************************)
(* pack_forward (pack.py): the hot set, then typed lines, then ranked        *)
(* chunks, within a budget of tokens.  What was packed lately is left out    *)
(* (suppressed), and a pack that would say nothing new is skipped.           *)
(*                                                                         *)
(* A text is named by its form and its item.  Tokens are estimated as        *)
(* characters / 4.                                                          *)
(***************************************************************************)
EXTENDS HotSet

CONSTANTS
  Wordy,         \* items with a text so long that its forms are similar, and cut when hot
  Fenced,        \* items that are a block of code
  GistChars,     \* characters of a gist
  SkipFloor      \* SKIP_FLOOR_TOKENS
ASSUME PackAssumption ==
  Wordy \subseteq Items /\ Fenced \subseteq Items /\ GistChars \in Nat \ {0} /\ SkipFloor \in Nat

Text(form, i) == [form |-> form, of |-> i]
\* An identifier's line is the same in the hot set and in the projection.
HotText(i) == Text(IF IsIdentifier(i) THEN "fact" ELSE "hot", i)
TypedText(i) == Text(IF IsIdentifier(i) THEN "fact" ELSE "typed", i)
ChunkText(i) == Text(IF i \in Fenced THEN "fence" ELSE "chunk", i)
HotHead == Text("head", 0)

Half(i) == (Size[i] - 1) \div 2
Chars(x) ==
  CASE x.form = "head" -> 8
    [] x.form = "hot" -> LineChars(x.of)
    [] x.form \in {"fact", "typed"} -> Prefix + Size[x.of]
    [] x.form \in {"chunk", "fence"} -> Size[x.of]
    [] x.form = "gist" -> GistChars
    [] x.form = "code" -> Half(x.of)
    [] x.form = "end of code" -> Size[x.of] - 1 - Half(x.of)
estimate_tokens(chars) == (chars + 3) \div 4
Tokens(x) == estimate_tokens(Chars(x))

\* A line of a body, behind gap line ends.
Line(x, gap) == [text |-> x, chars |-> Chars(x), gap |-> gap]
LinesOf(x, gap) ==
  IF x.form # "fence" THEN <<Line(x, gap)>>
  ELSE <<Line(Text("code", x.of), gap), Line(Text("end of code", x.of), 1)>>
\* Where the n-th line starts, and where the last one ends.
Start(body, n) == Total([m \in 1..(n-1) |-> body[m].chars + body[m].gap]) + body[n].gap
Length(body) == IF body = <<>> THEN 0 ELSE Start(body, Len(body)) + body[Len(body)].chars

\* _truncate_to_budget: the last line that is begun ends in dots.
Truncate(body, budget) ==
  LET end == 4 * AtLeast(1, budget) - 3
      begun == {n \in DOMAIN body : Start(body, n) < end}
      last == Cardinality(begun)
      line == body[last]
  IN IF estimate_tokens(Length(body)) <= budget THEN body
     ELSE Append(SubSeq(body, 1, last - 1),
                 [text |-> Text("cut", line.text.of), gap |-> line.gap,
                  chars |-> AtMost(line.chars, end - Start(body, last)) + 3])
TextsOf(body) == {body[n].text : n \in DOMAIN body}

\* _contained_in_hot: a short text is in its item's hot line.
InHot(x, hot) == x.form = "chunk" /\ x.of \notin Wordy /\ x.of \in hot
\* _marginal: almost the same words as all that was packed behind the hot set.
Marginal(x, extra) == Len(extra) = 1 /\ extra[1].of = x.of /\ x.of \in Wordy

\* One typed line or chunk.
Take(s, x, hot, suppress, cap) ==
  IF x \in s.norm \/ InHot(x, hot) THEN s
  ELSE IF x \in suppress THEN [s EXCEPT !.blocked = @ \cup {x}]
  ELSE IF Marginal(x, s.extra) \/ s.used + Tokens(x) > cap THEN s
  ELSE [body |-> s.body \o LinesOf(x, IF s.body = <<>> THEN 0 ELSE 2),
        extra |-> Append(s.extra, x), used |-> s.used + Tokens(x), blocked |-> s.blocked,
        norm |-> s.norm \cup {x}]
\* The hot set comes first, cut if it alone is too long; none of its lines is taken again.
HotPiece(hot, cap) ==
  LET lines == <<Line(HotHead, 0)>> \o [n \in 1..Len(hot) |-> Line(HotText(hot[n]), 1)]
      piece == IF hot = <<>> THEN <<>> ELSE Truncate(lines, cap)
  IN [body |-> piece, used |-> estimate_tokens(Length(piece)), extra |-> <<>>,
      blocked |-> {}, norm |-> {HotText(hot[n]) : n \in DOMAIN hot}]
Taken(piece, texts, hot, suppress, cap) ==
  FoldLeft(LAMBDA s, x : Take(s, x, hot, suppress, cap), piece, texts)
Gather(hot, typed, chunks, suppress, cap) ==
  Taken(HotPiece(hot, cap), typed \o chunks, {hot[n] : n \in DOMAIN hot}, suppress, cap)

\* Lines not packed lately, joined.
Novel(body, recent) ==
  LET new == Those(body, {n \in DOMAIN body : body[n].text \notin recent})
  IN estimate_tokens(Length([n \in DOMAIN new |-> [new[n] EXCEPT !.gap = IF n = 1 THEN 0 ELSE 1]]))

\* Mutant: lines are remembered before the body is cut.
PackedWhole(hot, typed, chunks, budget, recent, changed, superseded, allowSkip) ==
  LET cap == AtLeast(1, budget)
      suppress == IF superseded THEN {} ELSE recent
      s == Gather(hot, typed, chunks, suppress, cap)
      body == Truncate(s.body, cap)
      packed == estimate_tokens(Length(body))
  IN [skip |-> FALSE, body |-> body, packed |-> packed, blocked |-> s.blocked,
      hashes |-> TextsOf(s.body), novel |-> packed]
\* Mutant: the separators are forgotten.
PackedLoose(hot, typed, chunks, budget, recent, changed, superseded, allowSkip) ==
  LET cap == AtLeast(1, budget)
      s == Gather(hot, typed, chunks, IF superseded THEN {} ELSE recent, cap)
  IN [skip |-> FALSE, body |-> s.body, packed |-> s.used, blocked |-> s.blocked,
      hashes |-> TextsOf(s.body), novel |-> s.used]
pack_forward(hot, typed, chunks, budget, recent, changed, superseded, allowSkip) ==
  LET cap == AtLeast(1, budget)
      suppress == IF superseded THEN {} ELSE recent
      s == Gather(hot, typed, chunks, suppress, cap)
      body == Truncate(s.body, cap)
      packed == estimate_tokens(Length(body))
      skip == allowSkip /\ ~changed /\ ~superseded /\ packed < SkipFloor
  IN IF skip
     THEN [skip |-> TRUE, body |-> <<>>, packed |-> 0, blocked |-> {}, hashes |-> {}, novel |-> 0]
     ELSE [skip |-> FALSE, body |-> body, packed |-> packed, blocked |-> s.blocked,
           hashes |-> TextsOf(body),
           novel |-> IF suppress # {} /\ body # <<>> THEN Novel(body, recent) ELSE packed]
=============================================================================
