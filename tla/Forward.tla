------------------------------- MODULE Forward -------------------------------
(***************************************************************************)
(* What one conversation is told over its turns (handle.py sample_for,      *)
(* vocab_bridge.py sample_text, store.py inject history).  Each sample       *)
(* packs what the graph puts forward and appends a row to the history; the  *)
(* rows of the last samples decide what the next one leaves out, its         *)
(* budget, and whether it says anything at all.                             *)
(*                                                                         *)
(* An item is said in one turn, in the order of the numbers; its text is    *)
(* the chunk and the span of that turn.  A query is the items it is about.  *)
(* The debug injection of decoded tokens is off, as it is by default.       *)
(***************************************************************************)
EXTENDS Pack

CONSTANTS
  Queries,       \* queries that come
  Limits,        \* forward_budget()
  Floor,         \* NOVELTY_FLOOR, in percent
  DedupK,        \* rows looked back at
  Keep,          \* INJECT_HISTORY_KEEP
  Warm,          \* WARMUP_TURNS
  FallbackK,     \* rank_fallback_top_k
  SpanK,         \* matrix_span_k
  MaxT,          \* bounds the turns
  MaxFaults      \* bounds the files lost

ASSUME ForwardAssumption ==
  /\ Queries \subseteq SUBSET Items /\ Limits \subseteq Nat \ {0} /\ Floor \in 0..100
  /\ {DedupK, Keep, Warm, FallbackK, SpanK, MaxT, MaxFaults} \subseteq Nat
  /\ 0 < DedupK /\ DedupK <= Keep

VARIABLES
  t,             \* of the latest state
  said,          \* items whose turn has been: the span files
  active,        \* items of the graph, and ...
  gone,          \* ... supersede_count()
  history,       \* inject_history.json
  last,          \* the last sample
  faults,
  given,         \* history: the whole lines of the packs behind the history's rows
  stale,         \* history: items superseded since the last row
  lost           \* history: the graph was lost since the last row

vars == <<t, said, active, gone, history, last, faults, given, stale, lost>>

OpenItems == {i \in active : IsOpen(i)}
NoSample == [skip |-> FALSE, body |-> <<>>, packed |-> 0, blocked |-> {}, hashes |-> {},
             novel |-> 0, budget |-> 0, hot |-> <<>>]

ForwardTypes ==
  /\ t \in 0..MaxT /\ said \subseteq Items /\ active \subseteq said /\ gone \in Nat
  /\ Len(history) <= Keep /\ Len(given) = Len(history)
  /\ \A n \in DOMAIN history :
       /\ history[n].packed > 0 /\ history[n].novel \in 0..history[n].packed
       /\ history[n].sig \subseteq Items /\ history[n].gone \in Nat
  /\ faults \in 0..MaxFaults

Init ==
  /\ t = 0 /\ said = {} /\ active = {} /\ gone = 0
  /\ history = <<>> /\ last = NoSample /\ faults = 0
  /\ given = <<>> /\ stale = {} /\ lost = FALSE

-----------------------------------------------------------------------------
\* The last k rows.
Tailing(s, k) == SubSeq(s, AtLeast(1, Len(s) - k + 1), Len(s))
recent_line_hashes == UNION {history[n].hashes : n \in (Len(history) - DedupK + 1)..Len(history)
                                                       \cap DOMAIN history}
Lately == Tailing(history, DedupK)

\* adaptive_budget(rolling_novelty): limit * max(floor, novel / packed), from SkipFloor to limit.
\* The limit counts from 1; below SkipFloor the floor wins.
adaptive_budget(limit) ==
  LET packed == Total([n \in DOMAIN Lately |-> Lately[n].packed])
      novel == Total([n \in DOMAIN Lately |-> Lately[n].novel])
      scaled == AtLeast((limit * Floor) \div 100,
                        IF packed = 0 THEN limit ELSE (limit * AtMost(novel, packed)) \div packed)
  IN IF t <= Warm THEN limit ELSE AtLeast(SkipFloor, AtMost(limit, scaled))

LastRow == history[Len(history)]
\* Mutant: only an item that is gone is a change.
OnlyDone == history = <<>> \/ LastRow.sig \ OpenItems # {}
openitem_changed == history = <<>> \/ OpenItems # LastRow.sig
node_superseded == history # <<>> /\ gone > LastRow.gone

\* rank_relevant_chunks: the chunks near the query, or else a few; then those of the spans
\* that are not among them.  A query about nothing at all ranks nothing: a gist is taken.
rank_relevant_chunks(query) ==
  LET near == said \cap query
      all == Ascending(said)
  IN IF near # {} THEN Ascending(near) ELSE SubSeq(all, 1, AtMost(FallbackK, Len(all)))
expand_spans(query) ==
  LET all == Ascending(said \cap query) \o Ascending(said \ query)
  IN SubSeq(all, 1, AtMost(SpanK, Len(all)))
Chunks(query) ==
  LET ranked == rank_relevant_chunks(query)
      spans == expand_spans(query)
      both == ranked \o Those(spans, {n \in DOMAIN spans : \A m \in DOMAIN ranked : ranked[m] # spans[n]})
  IN IF query # {} THEN [n \in DOMAIN both |-> ChunkText(both[n])]
     ELSE IF said = {} THEN <<>> ELSE <<Text("gist", Cardinality(said))>>

sample_text(query, limit) ==
  LET hot == hot_set(active, query)
      typed == typed_projection(active, query)
      budget == adaptive_budget(limit)
      pack == pack_forward(hot, [n \in DOMAIN typed |-> TypedText(typed[n])], Chunks(query),
                           budget, recent_line_hashes, openitem_changed, node_superseded, t > Warm)
  IN [skip |-> pack.skip, body |-> pack.body, packed |-> pack.packed, blocked |-> pack.blocked,
      hashes |-> pack.hashes, novel |-> pack.novel, budget |-> AtLeast(1, budget), hot |-> hot]

\* append_inject_history, if anything was packed: every sample is one that a prompt, a
\* session or a request asked for.
WholeLines(body) == {x \in TextsOf(body) : x.form # "cut"}
Fences(body) == {ChunkText(i) : i \in {j \in Fenced : Text("code", j) \in TextsOf(body)
                                               /\ Text("end of code", j) \in TextsOf(body)}}
NewRow(s) == [hashes |-> s.hashes, sig |-> OpenItems, gone |-> gone,
              packed |-> s.packed, novel |-> s.novel]
Sample(query, limit) ==
  /\ last' = sample_text(query, limit)
  /\ IF last'.skip \/ last'.hashes = {} THEN UNCHANGED <<history, given, stale, lost>>
     ELSE /\ history' = Tailing(Append(history, NewRow(last')), Keep)
          /\ given' = Tailing(Append(given, WholeLines(last'.body) \cup Fences(last'.body)), Keep)
          /\ stale' = {} /\ lost' = FALSE
  /\ UNCHANGED <<t, said, active, gone, faults>>

-----------------------------------------------------------------------------
\* A turn says the next item, or that an open one is done, or nothing.
Turn ==
  /\ t < MaxT /\ t' = t + 1
  /\ \/ UNCHANGED <<said, active, gone, stale>>
     \/ \E i \in Items \ said :
          /\ \A j \in Items \ said : i <= j
          /\ said' = said \cup {i} /\ active' = active \cup {i}
          /\ UNCHANGED <<gone, stale>>
     \/ \E i \in OpenItems :
          /\ active' = active \ {i} /\ gone' = gone + 1 /\ stale' = stale \cup {i}
          /\ UNCHANGED said
  /\ UNCHANGED <<history, last, faults, given, lost>>

\* A history cut short by a kill reads as none.  A sidecar that starts anew has an empty
\* graph; states, spans and history are still there.
TearHistory ==
  /\ faults < MaxFaults /\ faults' = faults + 1 /\ history # <<>>
  /\ history' = <<>> /\ given' = <<>>
  /\ UNCHANGED <<t, said, active, gone, last, stale, lost>>
LoseGraph ==
  /\ faults < MaxFaults /\ faults' = faults + 1
  /\ active' = {} /\ gone' = 0 /\ lost' = TRUE
  /\ UNCHANGED <<t, said, history, last, given, stale>>

Next ==
  \/ Turn \/ TearHistory \/ LoseGraph
  \/ \E query \in Queries, limit \in Limits : Sample(query, limit)
Spec == Init /\ [][Next]_vars

-----------------------------------------------------------------------------
(* What a conversation may rely on.                                          *)

\* A line is left out as known only if one of the last packs held the whole of it.
NothingSuppressedUnseen == [][
  last' # last => last'.blocked \subseteq
    UNION {given[n] : n \in (Len(given) - DedupK + 1)..Len(given) \cap DOMAIN given}]_vars

\* No pack is longer than its budget, whatever its parts are.
PackFits == estimate_tokens(Length(last.body)) <= last.budget

\* Nothing is told only if there is nothing to correct: since the last pack that was told
\* no open item came or was done, unless the graph itself was lost in between.
SkipHidesNoChange == [][
  (last' # last /\ last'.skip /\ ~lost) => (stale = {} /\ OpenItems = LastRow.sig)]_vars

\* The hot set keeps to its length, also when identifiers push facts out of it.
HotFits == HotChars(last.hot) <= HotMax
=============================================================================
