------------------------------- MODULE Memory -------------------------------
(***************************************************************************)
(* What stays of the messages of a conversation: the matrix, which takes the *)
(* chunks of each message as rows and pools them down to KMax (producer.py   *)
(* compress, compress.py append_then_pool), and the open items and durable   *)
(* facts that ingest_turn (graph.py) takes from the same text and prunes;    *)
(* CtxGraph has its nodes in full.                                          *)
(*                                                                         *)
(* Chunks are numbered in the order they are made.  A row is the chunks     *)
(* merged into it; which of two neighbours are most alike is left open.  So  *)
(* is which of two facts of one rank is less salient, and which designs and  *)
(* outcomes a sentence says word for word: those are not made durable.       *)
(***************************************************************************)
EXTENDS Reading

CONSTANTS
  Paths,
  KMax,          \* k_max
  MaxDurable,    \* MAX_ACTIVE_DURABLE_FACTS
  MaxSaid,       \* bounds the lines said
  MaxRestarts    \* bounds the processes started

ASSUME MemoryAssumption ==
  Paths \subseteq Nat /\ {KMax, MaxDurable, MaxSaid, MaxRestarts} \subseteq Nat /\ KMax > 0

VARIABLES
  message,       \* the message being said
  matrix,        \* C
  counts,        \* _path_mentions of the graph object
  items,         \* open items, and ...
  facts,         \* ... active durable facts of the graph
  made, saidLines, restarts,  \* chunks, lines, processes so far
  latest,        \* history: the tags of the last message's chunks
  heard,         \* history: times each path was mentioned, and ...
  plain          \* ... those mentioned outside code

memoryVars == <<message, matrix, counts, items, facts, made, saidLines, restarts, latest, heard, plain>>

MemoryInit ==
  /\ message = <<>> /\ matrix = <<>> /\ items = {} /\ facts = {}
  /\ counts = [p \in Paths |-> 0] /\ heard = [p \in Paths |-> 0] /\ plain = {}
  /\ made = 0 /\ saidLines = 0 /\ restarts = 0 /\ latest = <<>>

-----------------------------------------------------------------------------
(* append_then_pool.  The rows of earlier messages have lost their tags.      *)

Row(chunks, tags) == [of |-> chunks, tags |-> tags]
Mergeable(rows) == {i \in 1..(Len(rows) - 1) : rows[i].tags = {} /\ rows[i+1].tags = {}}
Merge(rows, i) ==
  SubSeq(rows, 1, i - 1) \o <<Row(rows[i].of \cup rows[i+1].of, {})>> \o SubSeq(rows, i + 2, Len(rows))

\* Mutant: the oldest row goes.
EvictsOldest(rows) == 1
\* The oldest row that is not shielded, or else has no identifier, or else the oldest.
_pick_eviction_index(rows) ==
  LET bare == {i \in DOMAIN rows : rows[i].tags = {}}
      common == {i \in DOMAIN rows : "identifier" \notin rows[i].tags}
      oldest(S) == CHOOSE i \in S : \A j \in S : i <= j
  IN IF bare # {} THEN oldest(bare) ELSE IF common # {} THEN oldest(common) ELSE 1

PoolOnce(rows) ==
  IF Mergeable(rows) # {} THEN {Merge(rows, i) : i \in Mergeable(rows)}
  ELSE {RemoveAt(rows, _pick_eviction_index(rows))}
Pooled(rows, over) ==
  LET pool[n \in 0..over] == IF n = 0 THEN {rows} ELSE UNION {PoolOnce(r) : r \in pool[n - 1]}
  IN pool[over]
Earlier == [i \in DOMAIN matrix |-> Row(matrix[i], {})]
Over(new) == AtLeast(0, Len(matrix) + Len(new) - KMax)
\* Mutant: the new rows come first.
Prepended(new) == Pooled(new \o Earlier, Over(new))
append_then_pool(new) == Pooled(Earlier \o new, Over(new))

Compress(m) ==
  LET chunks == chunk_text(m)
      tags == [k \in DOMAIN chunks |-> tag_chunk(m, chunks[k])]
  IN /\ \E rows \in append_then_pool([k \in DOMAIN chunks |-> Row({made + k}, tags[k])]) :
          matrix' = [i \in DOMAIN rows |-> rows[i].of]
     /\ made' = made + Len(chunks)
     /\ latest' = [c \in made + 1..made + Len(chunks) |-> tags[c - made]]

\* ingest_turn: what is done first, then what is open and not done in the same message.
ItemsAfter(m) == (items \ _done_items(m)) \cup (Range(_open_items_from_text(m)) \ _done_items(m))

\* What is durable: a fact that is there is not told again.
As(kind, names) == {[is |-> kind, of |-> name] : name \in names}
Told(m) == As("path", _path_facts(m, counts)) \cup As("identifier", _identifier_facts(m))
           \cup As("heading", Range(_heading_facts(m)))
Worded(m) == As("design", Range(_design_facts(m))) \cup As("outcome", Range(_outcome_items(m)))

\* The facts prune may leave: too many lose those of the lowest rank.  Identifiers rank
\* highest, then what an open item names.
Rank(f, open) == IF f.is = "identifier" THEN 2 ELSE IF f.of \in open THEN 1 ELSE 0
prune(fs, open) ==
  IF Cardinality(fs) <= MaxDurable THEN {fs}
  ELSE {kept \in SUBSET fs : /\ Cardinality(kept) = MaxDurable
                             /\ \A f \in fs \ kept, g \in kept : Rank(f, open) <= Rank(g, open)}

Step ==
  /\ message # <<>> /\ message' = <<>>
  /\ Compress(message)
  /\ items' = ItemsAfter(message)
  /\ \E worded \in SUBSET Worded(message) : facts' \in prune(facts \cup Told(message) \cup worded, items')
  /\ counts' = Counted(message, counts) /\ heard' = Counted(message, heard)
  /\ plain' = plain \cup {p \in Paths : Outside(message, p) # {}}
  /\ UNCHANGED <<saidLines, restarts>>

Say(line) ==
  /\ saidLines < MaxSaid /\ saidLines' = saidLines + 1
  /\ message' = Append(message, line)
  /\ UNCHANGED <<matrix, counts, items, facts, made, restarts, latest, heard, plain>>

\* Another process reads matrix and graph from the disk.  What the graph object has counted
\* is not there.
Restart ==
  /\ message = <<>> /\ restarts < MaxRestarts /\ restarts' = restarts + 1
  /\ counts' = [p \in Paths |-> 0]
  /\ UNCHANGED <<message, matrix, items, facts, made, saidLines, latest, heard, plain>>

MemoryNext == Step \/ Restart \/ \E line \in Lines : Say(line)
MemorySpec == MemoryInit /\ [][MemoryNext]_memoryVars

-----------------------------------------------------------------------------
(* Of what is read.                                                         *)

\* The scan for deferred items finds the bullets whose nearest deferred heading above is not
\* closed by a heading of its level or a higher one.  The scan for designs finds the lines that
\* no blank line parts from a heading above, and those that say so, the first so many.
ScansAsStructured ==
  LET Under(n, h) ==
        /\ message[h].is = "deferred heading"
        /\ \A k \in (h+1)..(n-1) : /\ message[k].is # "deferred heading"
                                   /\ message[k].is = "heading" => message[k].level > message[h].level
      Deferred(n) == /\ message[n].is \in {"bullet", "unchecked", "checked", "hint"}
                     /\ \E h \in 1..(n-1) : Under(n, h)
      Near(n, h) == IsHeading(message[h]) /\ \A k \in (h+1)..(n-1) : message[k].is # "blank"
      Design(n) == /\ ~IsHeading(message[n]) /\ message[n].is # "blank"
                   /\ message[n].is = "decision" \/ \E h \in 1..(n-1) : Near(n, h)
  IN /\ _deferred_section_items(message) = Where(message, Deferred)
     /\ _design_facts(message) = Firsts(Of(message, Where(message, Design)), MaxDesigns)

\* A message is cut into so many chunks at most; a line is in one of them unless there are
\* too many, and then a block of code still is, if there is one.
ChunksCover ==
  LET chunks == chunk_text(message)
      all == Len(Heads(message)) + Len(_merge_to_target(message))
      words == {n \in DOMAIN message : message[n].is # "blank"}
  IN /\ Len(chunks) \in 1..MaxChunks
     /\ all <= MaxChunks => \A n \in words :
          Cardinality({k \in DOMAIN chunks : n \in Range(chunks[k])}) = 1
     /\ (\E n \in words : message[n].fenced) => \E k \in DOMAIN chunks : HasFence(message, chunks[k])

(* Of what stays.                                                           *)

\* The matrix has KMax rows at most, and earlier chunks are in earlier rows.
RowsInOrder ==
  /\ Len(matrix) <= KMax
  /\ \A i, j \in DOMAIN matrix : i < j => \A c \in matrix[i], d \in matrix[j] : c < d

\* A shielded chunk of the last message is a row of its own, or every row is one; one with
\* an identifier, or every row has one.
ShieldedOutlive ==
  \A c \in DOMAIN latest : LET alone == \E i \in DOMAIN matrix : matrix[i] = {c} IN
    /\ (latest[c] # {} /\ ~alone) =>
         \A i \in DOMAIN matrix : \E d \in DOMAIN latest : matrix[i] = {d} /\ latest[d] # {}
    /\ ("identifier" \in latest[c] /\ ~alone) =>
         \A i \in DOMAIN matrix : \E d \in DOMAIN latest : matrix[i] = {d} /\ "identifier" \in latest[d]

\* Only a path that once stood outside code or was mentioned twice is a durable fact.  While
\* prune leaves room for one more, those that stood outside code are, through any restarts, and
\* in one process those mentioned twice.
PathsKnown == {f.of : f \in {g \in facts : g.is = "path"}}
Twice == {p \in Paths : heard[p] >= 2}
SaidIsKnown ==
  /\ PathsKnown \subseteq plain \cup Twice
  /\ Cardinality(facts) <= MaxDurable
  /\ Cardinality(facts) < MaxDurable => plain \subseteq PathsKnown /\ (restarts = 0 => Twice \subseteq PathsKnown)
=============================================================================
