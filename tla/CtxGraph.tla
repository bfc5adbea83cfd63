------------------------------ MODULE CtxGraph ------------------------------
(***************************************************************************)
(* The context graph of a session (ts-engine/graph.ts CtxGraph): what       *)
(* ingestTurn makes of the turns of a conversation, and what prune leaves.  *)
(*                                                                         *)
(* ingestTurn runs to its end without interruption.  It goes through lists   *)
(* of what it finds in the text: sentences, paths, identifiers, and so on;  *)
(* phase says which list it is in, one action is one element of it, and     *)
(* Move is the end of a list.  Last it prunes, one node an action.          *)
(*                                                                         *)
(* Data.  What a text contains is a free choice, list by list.  A text is a *)
(* label; Part says which is part of which, Cut how it is stored: a long    *)
(* one is shortened.  A node is its place in nodes.  Events, and the edges  *)
(* that say which turn or topic holds a node, are read by nobody and left   *)
(* out.                                                                    *)
(***************************************************************************)
EXTENDS Integers, Sequences, FiniteSets

CONSTANTS
  Labels,        \* lower-cased texts of facts, topics and items
  Part,          \* pairs: the first is a proper part of the second
  Cut,           \* [Labels -> Labels] a text as a label of a node
  Found,         \* [Lists -> SUBSET Labels] what may be found
  Salience,      \* [Lists -> SUBSET Nat] how salient that may be
  MaxTurns, MaxFacts, MaxDurable,   \* MAX_ACTIVE_...
  Monotone,      \* TRUE: the clock never goes back
  Length,        \* bounds the turns
  MaxNodes,      \* bounds the nodes
  MaxClock       \* bounds the clock

Lists == {"sentences", "paths", "identifiers", "headings", "designs", "topics",
          "done", "open"}
Phases == Lists \cup {"idle", "prune turns", "prune facts", "prune durable"}
\* The order of ingestTurn.
After == [sentences |-> "paths", paths |-> "identifiers",
          identifiers |-> "headings", headings |-> "designs",
          designs |-> "topics", topics |-> "done", done |-> "open",
          open |-> "prune turns"]

ASSUME GraphAssumption ==
  /\ Part \subseteq Labels \X Labels /\ \A l \in Labels : <<l, l>> \notin Part
  /\ Cut \in [Labels -> Labels] /\ Found \in [Lists -> SUBSET Labels]
  /\ Salience \in [Lists -> SUBSET Nat] /\ Monotone \in BOOLEAN
  /\ MaxTurns \in Nat \ {0} /\ MaxFacts \in Nat /\ MaxDurable \in Nat
  /\ Length \in Nat /\ MaxNodes \in Nat /\ MaxClock \in Nat

VARIABLES
  nodes,         \* graph.nodes
  edges,         \* the continues and supersedes edges
  lastTurn,      \* lastTurnId, or 0
  turnIndex,     \* the handle's count of turns
  clock,         \* the stamp of the turn in hand
  phase, seen,   \* the list in hand, and what was found in it
  doneKeys,      \* what this turn says is done
  \* history, read by properties only
  said,          \* what the last turn to name an item said of it
  vault          \* identifiers named so far

vars == <<nodes, edges, lastTurn, turnIndex, clock, phase, seen, doneKeys, said, vault>>
history == <<said, vault>>
turn == <<lastTurn, turnIndex, clock, doneKeys>>

NoText == "prefixed"     \* a summary that is no text of its own ("path: ...")
ASSUME NoTextAssumption == NoText \notin Labels
Node == [kind : {"Turn", "Fact", "Topic", "OpenItem"}, label : Labels \cup {NoText},
         summary : Labels \cup {NoText}, status : {"active", "superseded", "pruned"},
         done : BOOLEAN, durable : BOOLEAN, ident : BOOLEAN, sal : Nat,
         at : Nat, index : Nat]
Edge == [rel : {"continues", "supersedes"}, src : Nat, dst : Nat]

TypeOK ==
  /\ nodes \in Seq(Node) /\ edges \subseteq Edge
  /\ lastTurn \in 0..Len(nodes) /\ turnIndex \in Nat /\ clock \in Nat
  /\ phase \in Phases /\ seen \subseteq Labels /\ doneKeys \subseteq Labels
  /\ said \in [Labels -> {"nothing", "open", "done"}] /\ vault \subseteq Labels

-----------------------------------------------------------------------------
Active(kind) == {i \in DOMAIN nodes : nodes[i].kind = kind /\ nodes[i].status = "active"}
Turns == {i \in DOMAIN nodes : nodes[i].kind = "Turn"}
OpenItems == {i \in Active("OpenItem") : ~nodes[i].done}
Facts == {i \in Active("Fact") : ~nodes[i].durable}
Durable == {i \in Active("Fact") : nodes[i].durable}
Newest(S) == CHOOSE i \in S : \A j \in S : j <= i
First(S) == CHOOSE i \in S : \A j \in S : i <= j

Overlap(a, b) == a = b \/ <<a, b>> \in Part \/ <<b, a>> \in Part
\* activeOpenItem, activeOpenItemFuzzy, activeFactLabel, activeFactSummary, activeTopic.
\* Mutant: a completed item still counts.
ItemsActive(l) == {i \in Active("OpenItem") : nodes[i].label = l}
ItemsCalled(l) == {i \in OpenItems : nodes[i].label = l}
\* Mutant: what gave way to a later item is found again.
ItemsEver(l) == {i \in DOMAIN nodes : /\ nodes[i].kind = "OpenItem" /\ ~nodes[i].done
                                      /\ Overlap(l, nodes[i].label)}
ItemsLike(l) == {i \in OpenItems : Overlap(l, nodes[i].label)}
FactsCalled(l) == {i \in Active("Fact") : nodes[i].label = l}
FactsSaying(l) == {i \in Active("Fact") : nodes[i].summary = l}
TopicsCalled(l) == {i \in Active("Topic") : nodes[i].label = l}

Blank == [kind |-> "Fact", label |-> NoText, summary |-> NoText, status |-> "active",
          done |-> FALSE, durable |-> FALSE, ident |-> FALSE, sal |-> 0,
          at |-> clock, index |-> 0]
Fact(l, s, sal) == [Blank EXCEPT !.label = l, !.summary = s, !.durable = TRUE, !.sal = sal]

Room == Len(nodes) < MaxNodes
Insert(n) == Room /\ nodes' = Append(nodes, n) /\ UNCHANGED edges
\* Mutant: status and state mixed up.
SupersedeDone(old, n) ==
  /\ Room
  /\ nodes' = Append([nodes EXCEPT ![old].status = "done"], n)
  /\ edges' = edges \cup {[rel |-> "supersedes", src |-> Len(nodes) + 1, dst |-> old]}
Supersede(old, n) ==
  /\ Room
  /\ nodes' = Append([nodes EXCEPT ![old].status = "superseded"], n)
  /\ edges' = edges \cup {[rel |-> "supersedes", src |-> Len(nodes) + 1, dst |-> old]}
Keep == UNCHANGED <<nodes, edges>>

Init ==
  /\ nodes = <<>> /\ edges = {} /\ lastTurn = 0 /\ turnIndex = 0 /\ clock = 0
  /\ phase = "idle" /\ seen = {} /\ doneKeys = {}
  /\ said = [l \in Labels |-> "nothing"] /\ vault = {}

-----------------------------------------------------------------------------
(* ingestTurn. *)
BeginTurn ==
  /\ phase = "idle" /\ Cardinality(Turns) < Length /\ Room
  /\ \E t \in 0..MaxClock :
       /\ Monotone => t >= clock
       /\ clock' = t
       /\ nodes' = Append(nodes, [Blank EXCEPT !.kind = "Turn", !.at = t,
                                               !.index = turnIndex])
  /\ edges' = edges \cup
       {[rel |-> "continues", src |-> Len(nodes) + 1, dst |-> t] : t \in {lastTurn} \ {0}}
  /\ lastTurn' = Len(nodes) + 1 /\ turnIndex' = turnIndex + 1
  /\ phase' = "sentences" /\ seen' = {} /\ doneKeys' = {}
  /\ UNCHANGED history

\* The next element of a list, none of them twice.
Takes(list, l) == /\ phase = list /\ l \in Found[list] \ seen
                  /\ seen' = seen \cup {l} /\ UNCHANGED phase

\* factSentences: neither durable nor compared to what there is.
Sentence(l) ==
  /\ phase = "sentences" /\ l \in Found["sentences"]
  /\ Insert([Blank EXCEPT !.label = Cut[l], !.summary = l])
  /\ UNCHANGED <<turn, phase, seen, history>>

\* What is there under the very text it is, is made more salient.
Raise(l, sal) ==
  LET i == Newest(FactsCalled(l)) IN
  nodes' = [nodes EXCEPT ![i].sal = IF @ < sal THEN sal ELSE @]

\* pathFacts, headingFacts.
Path(l) ==
  /\ Takes("paths", l)
  /\ \E sal \in Salience[phase] :
       IF FactsCalled(l) = {} THEN Insert(Fact(l, NoText, sal))
                              ELSE Raise(l, sal) /\ UNCHANGED edges
  /\ UNCHANGED <<turn, history>>
Heading(l) ==
  /\ Takes("headings", l)
  /\ \E sal \in Salience[phase] :
       IF FactsCalled(l) = {} THEN Insert(Fact(Cut[l], NoText, sal))
                              ELSE Raise(l, sal) /\ UNCHANGED edges
  /\ UNCHANGED <<turn, history>>

\* identifierFacts: a fact there is under this text becomes an identifier.
Identifier(l) ==
  /\ Takes("identifiers", l)
  /\ \E sal \in Salience[phase] :
       IF FactsCalled(l) = {}
       THEN Insert([Fact(Cut[l], NoText, sal) EXCEPT !.ident = TRUE])
       ELSE LET i == Newest(FactsCalled(l)) IN
            /\ nodes' = [nodes EXCEPT ![i].sal = IF @ < sal THEN sal ELSE @,
                                      ![i].ident = TRUE, ![i].durable = TRUE]
            /\ UNCHANGED edges
  /\ vault' = vault \cup {l}
  /\ UNCHANGED <<turn, said>>

\* designFacts, outcomeItems: compared by their summary.
Design(l) ==
  /\ Takes("designs", l)
  /\ IF FactsSaying(l) # {} THEN Keep
     ELSE \E sal \in Salience[phase] : Insert(Fact(Cut[l], l, sal))
  /\ UNCHANGED <<turn, history>>

\* ingestTopics, upsertTopic: the first topic it subsumes, or that subsumes it, gives
\* way to the longer one of the two.
Subsumed(l) == {i \in Active("Topic") : nodes[i].label # l /\ Overlap(l, nodes[i].label)}
Longer(a, b) == IF <<a, b>> \in Part THEN b ELSE a
TopicNode(l) == [Blank EXCEPT !.kind = "Topic", !.label = Cut[l], !.summary = l]
\* Mutant: a topic that is there is not looked for.
TopicAgain(l) ==
  /\ Takes("topics", l)
  /\ IF Subsumed(l) # {}
     THEN LET old == First(Subsumed(l)) IN
          Supersede(old, TopicNode(Longer(l, nodes[old].label)))
     ELSE Insert(TopicNode(l))
  /\ UNCHANGED <<turn, history>>
Topic(l) ==
  /\ Takes("topics", l)
  /\ CASE TopicsCalled(l) # {} -> Keep
       [] TopicsCalled(l) = {} /\ Subsumed(l) # {} ->
            LET old == First(Subsumed(l)) IN
            Supersede(old, TopicNode(Longer(l, nodes[old].label)))
       [] OTHER -> Insert(TopicNode(l))
  /\ UNCHANGED <<turn, history>>

\* doneItems, doneLines, doneItemsVerb, checkboxItems: the open item of this name is
\* completed, or else the newest one whose name has to do with it.
ItemNode(l, done) == [Blank EXCEPT !.kind = "OpenItem", !.label = l, !.done = done]
Completed(l) == IF ItemsCalled(l) # {} THEN ItemsCalled(l) ELSE ItemsLike(l)
Done(l) ==
  /\ Takes("done", l)
  /\ IF Completed(l) = {} THEN Keep
     ELSE LET old == Newest(Completed(l)) IN
          Supersede(old, ItemNode(nodes[old].label, TRUE))
  /\ doneKeys' = doneKeys \cup {l}
  /\ said' = [said EXCEPT ![l] = "done"]
  /\ UNCHANGED <<lastTurn, turnIndex, clock, vault>>

\* Mutant: an item that is open is opened again.
OpenAgain(l) ==
  /\ Takes("open", l) /\ l \notin doneKeys
  /\ Insert(ItemNode(l, FALSE))
  /\ said' = [said EXCEPT ![l] = "open"]
  /\ UNCHANGED <<turn, vault>>

\* openItemsFromText, but for what the turn says is done, and slash commands.
Open(l) ==
  /\ Takes("open", l) /\ l \notin doneKeys
  /\ IF ItemsCalled(l) # {} THEN Keep ELSE Insert(ItemNode(l, FALSE))
  /\ said' = [said EXCEPT ![l] = "open"]
  /\ UNCHANGED <<turn, vault>>

Move ==
  /\ phase \in Lists
  /\ phase' = After[phase] /\ seen' = {}
  /\ Keep /\ UNCHANGED <<turn, history>>

-----------------------------------------------------------------------------
(* prune. *)
Before(i, j) == nodes[i].at < nodes[j].at \/ (nodes[i].at = nodes[j].at /\ i <= j)
TurnBefore(i, j) ==
  \/ nodes[i].at < nodes[j].at
  \/ /\ nodes[i].at = nodes[j].at
     /\ nodes[i].index < nodes[j].index \/ (nodes[i].index = nodes[j].index /\ i <= j)
LessSalient(i, j) ==
  nodes[i].sal < nodes[j].sal \/ (nodes[i].sal = nodes[j].sal /\ Before(i, j))

\* Mutant: the last of the sorted turns is dropped.
NewestTurn == CHOOSE i \in Active("Turn") : \A j \in Active("Turn") : TurnBefore(j, i)
OldestTurn == CHOOSE i \in Active("Turn") : \A j \in Active("Turn") : TurnBefore(i, j)
OldestFact == CHOOSE i \in Facts : \A j \in Facts : Before(i, j)

Referenced(i) == \E j \in OpenItems : nodes[i].label = nodes[j].label
                                      \/ <<nodes[i].label, nodes[j].label>> \in Part
\* Mutant: once all the others are named by items, identifiers are no better.
SpareAny == LET free == {i \in Durable : ~nodes[i].ident /\ ~Referenced(i)}
            IN IF free # {} THEN free ELSE Durable
\* Identifiers last, and before them the facts an open item names.
Spare == LET plain == {i \in Durable : ~nodes[i].ident}
             free == {i \in plain : ~Referenced(i)}
         IN IF free # {} THEN free ELSE IF plain # {} THEN plain ELSE Durable
Victim == CHOOSE i \in Spare : \A j \in Spare : LessSalient(i, j)

\* Mutant: one node is dropped, not as many as are too many.
PrunesOne(here, S, max, drop, next) ==
  /\ phase = here /\ phase' = next
  /\ nodes' = IF Cardinality(S) > max THEN [nodes EXCEPT ![drop].status = "pruned"]
                                      ELSE nodes
  /\ UNCHANGED <<edges, turn, seen, history>>

\* The loop of one cap: drop drops a node while there are too many.
Prunes(here, S, max, drop, next) ==
  /\ phase = here
  /\ IF Cardinality(S) > max
     THEN nodes' = [nodes EXCEPT ![drop].status = "pruned"] /\ UNCHANGED phase
     ELSE phase' = next /\ UNCHANGED nodes
  /\ UNCHANGED <<edges, turn, seen, history>>
PruneTurns == Prunes("prune turns", Active("Turn"), MaxTurns, OldestTurn, "prune facts")
PruneFacts == Prunes("prune facts", Facts, MaxFacts, OldestFact, "prune durable")
PruneDurable == Prunes("prune durable", Durable, MaxDurable, Victim, "idle")

\* A new handle loads the graph.json the last step saved (handle.ts, fromDict), later.
Reload ==
  /\ phase = "idle"
  /\ lastTurn' = IF Active("Turn") = {} THEN 0 ELSE Newest(Active("Turn"))
  /\ turnIndex' = 0
  /\ \E t \in 0..MaxClock : (Monotone => t > clock) /\ clock' = t
  /\ Keep /\ UNCHANGED <<phase, seen, doneKeys, history>>

Next ==
  \/ BeginTurn \/ Move \/ PruneTurns \/ PruneFacts \/ PruneDurable \/ Reload
  \/ \E l \in Labels : \/ Sentence(l) \/ Path(l) \/ Identifier(l) \/ Heading(l)
                       \/ Design(l) \/ Topic(l) \/ Done(l) \/ Open(l)

Spec == Init /\ [][Next]_vars

-----------------------------------------------------------------------------
(* What the graph promises.                                                 *)

\* After each turn the caps hold (graph.ts prune).
CapsKept == phase = "idle" => /\ Cardinality(Active("Turn")) <= MaxTurns
                              /\ Cardinality(Facts) <= MaxFacts
                              /\ Cardinality(Durable) <= MaxDurable

\* A piece of work is open once: no two items of one name are (activeOpenItem).
OneOpenItem == \A i, j \in OpenItems : nodes[i].label = nodes[j].label => i = j

\* An item whose name overlaps with no other one is open exactly if the last turn that
\* named it opened it, whatever was closed and opened in between, and in the same turn.
Items == Found["done"] \cup Found["open"]
Isolated(l) == \A m \in Items : Overlap(l, m) => l = m
LastWordCounts ==
  \A l \in Items : Isolated(l) => (ItemsCalled(l) # {} <=> said[l] = "open")

\* The history of an item or a topic can be followed: what is superseded was so once, by
\* a later node of its kind, and nothing else was (supersede).
SupersededBy(i) == {e \in edges : e.rel = "supersedes" /\ e.dst = i}
SupersededOnce ==
  \A i \in DOMAIN nodes :
    IF nodes[i].status = "superseded"
    THEN \E e \in SupersededBy(i) :
           /\ SupersededBy(i) = {e}
           /\ i < e.src /\ e.src <= Len(nodes) /\ nodes[e.src].kind = nodes[i].kind
    ELSE SupersededBy(i) = {}

\* No topic is active twice, but under labels a longer text was cut to (upsertTopic).
Whole(l) == \A m \in Labels : Cut[m] = l => m = l
OneTopic == \A i, j \in Active("Topic") :
              (nodes[i].label = nodes[j].label /\ Whole(nodes[i].label)) => i = j

\* Each turn continues the one before it, also after a reload, and though prune takes
\* turns away: with a clock that does not go back it takes the oldest ones only.
Follows(i, j) == [rel |-> "continues", src |-> i, dst |-> j] \in edges
ChainUnbroken ==
  Monotone => \A i, j \in Turns :
    (j < i /\ \A k \in Turns : k <= j \/ i <= k) => Follows(i, j)

\* Identifiers are not lost to paths, headings and decisions: while no more of them were
\* named than durable facts are kept, all are there.  (Not so for those that are cut, or
\* that are a sentence: they get a second node when they are named again.)
Plain(l) == /\ Cut[l] = l /\ Whole(l)
            /\ l \notin Found["sentences"] \cup Found["designs"]
VaultKept ==
  (phase = "idle" /\ Cardinality(vault) <= MaxDurable /\ \A l \in vault : Plain(l)) =>
    \A l \in vault : \E i \in Durable : nodes[i].ident /\ nodes[i].label = l
=============================================================================
