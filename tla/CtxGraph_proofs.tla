-------------------------- MODULE CtxGraph_proofs --------------------------
(* What holds of the context graph for any texts, caps and numbers of turns. *)
EXTENDS CtxGraph, TLAPS, FiniteSetTheorems, WellFoundedInduction

-----------------------------------------------------------------------------
(* Finite sets of naturals have their ends, and so do the orders of the      *)
(* lookups and of prune.                                                    *)

LEMMA HasLeast ==
  ASSUME NEW S, S # {}, NEW f \in [S -> Nat]
  PROVE  \E x \in S : \A y \in S : f[x] <= f[y]
<1> DEFINE T == {f[x] : x \in S}
<1>1. T \subseteq Nat /\ T # {}
  OBVIOUS
<1>2. PICK m \in T : \A k \in T : <<k, m>> \notin OpToRel(<, Nat)
  BY <1>1, WFMin, NatLessThanWellFounded, Zenon
<1>3. \A k \in T : ~(k < m)
  BY <1>1, <1>2, Zenon DEF OpToRel
<1>4. PICK x \in S : m = f[x]
  BY <1>2
<1>5. \A y \in S : f[y] \in T /\ f[y] \in Nat
  OBVIOUS
<1>6. \A y \in S : ~(f[y] < f[x])
  BY <1>3, <1>4, <1>5
<1> HIDE DEF T
<1> QED BY <1>5, <1>6

LEMMA HasNewest ==
  ASSUME NEW n \in Nat, NEW S \in SUBSET (1..n), S # {}
  PROVE  /\ Newest(S) \in S /\ \A j \in S : j <= Newest(S)
         /\ First(S) \in S /\ \A j \in S : First(S) <= j
<1> DEFINE gap == [i \in S |-> n - i]
           place == [i \in S |-> i]
<1>1. gap \in [S -> Nat] /\ place \in [S -> Nat]
  OBVIOUS
<1>2. PICK i \in S : \A j \in S : gap[i] <= gap[j]
  BY <1>1, HasLeast
<1>3. \A j \in S : j <= i
  BY <1>2
<1>4. PICK k \in S : \A j \in S : place[k] <= place[j]
  BY <1>1, HasLeast
<1>5. \A j \in S : k <= j
  BY <1>4
<1> QED BY <1>3, <1>5 DEF Newest, First
-----------------------------------------------------------------------------
(* Types.  A topic and an item have a text as their label.                  *)

Labelled == \A i \in DOMAIN nodes :
              nodes[i].kind \in {"Topic", "OpenItem"} => nodes[i].label \in Labels
TypeInv == TypeOK /\ Labelled

\* What the lookups find is what they are asked for, and in nodes.
LEMMA LookupsFind ==
  ASSUME TypeInv, NEW l \in Labels
  PROVE  /\ \A S \in {ItemsCalled(l), Completed(l), FactsCalled(l), Subsumed(l)} :
              /\ S \in SUBSET (1..Len(nodes))
              /\ S # {} => Newest(S) \in S /\ First(S) \in S
         /\ \A i \in Completed(l) : nodes[i].kind = "OpenItem" /\ nodes[i].label \in Labels
         /\ \A i \in Subsumed(l) : nodes[i].kind = "Topic" /\ nodes[i].label \in Labels
<1>1. Len(nodes) \in Nat /\ DOMAIN nodes = 1..Len(nodes)
  BY DEF TypeInv, TypeOK
<1>2. \A S \in {ItemsCalled(l), Completed(l), FactsCalled(l), Subsumed(l)} :
        S \in SUBSET (1..Len(nodes))
  BY <1>1 DEF ItemsCalled, Completed, ItemsLike, FactsCalled, Subsumed, OpenItems, Active
<1>3. \A S \in SUBSET (1..Len(nodes)) : S # {} => Newest(S) \in S /\ First(S) \in S
  BY <1>1, HasNewest
<1>4. \A i \in Completed(l) : nodes[i].kind = "OpenItem" /\ nodes[i].label \in Labels
  BY DEF Completed, ItemsCalled, ItemsLike, OpenItems, Active, TypeInv, Labelled
<1>5. \A i \in Subsumed(l) : nodes[i].kind = "Topic" /\ nodes[i].label \in Labels
  BY DEF Subsumed, Active, TypeInv, Labelled
<1> QED BY <1>2, <1>3, <1>4, <1>5

\* The three ways in which nodes changes.
Grown(n) ==
  /\ Len(nodes') = Len(nodes) + 1
  /\ \A i \in 1..Len(nodes) : nodes'[i] = nodes[i]
  /\ nodes'[Len(nodes) + 1] = n
Replaced(old, n) ==
  /\ Len(nodes') = Len(nodes) + 1
  /\ \A i \in 1..Len(nodes) : i # old => nodes'[i] = nodes[i]
  /\ nodes'[old] = [nodes[old] EXCEPT !.status = "superseded"]
  /\ nodes'[Len(nodes) + 1] = n
Edited(i, n) ==
  /\ Len(nodes') = Len(nodes)
  /\ \A j \in 1..Len(nodes) : j # i => nodes'[j] = nodes[j]
  /\ nodes'[i] = n

LEMMA Growing ==
  ASSUME TypeInv, NEW n \in Node, nodes' = Append(nodes, n)
  PROVE  Grown(n) /\ nodes' \in Seq(Node)
BY DEF TypeInv, TypeOK, Grown

LEMMA Replacing ==
  ASSUME TypeInv, NEW n \in Node, NEW old \in 1..Len(nodes), Supersede(old, n)
  PROVE  Replaced(old, n) /\ nodes' \in Seq(Node)
<1> DEFINE given == [nodes EXCEPT ![old].status = "superseded"]
<1>1. nodes \in Seq(Node) /\ nodes[old] \in Node
  BY DEF TypeInv, TypeOK
<1>2. [nodes[old] EXCEPT !.status = "superseded"] \in Node
  BY <1>1 DEF Node
<1>3. /\ given \in Seq(Node) /\ Len(given) = Len(nodes)
      /\ given[old] = [nodes[old] EXCEPT !.status = "superseded"]
      /\ \A i \in 1..Len(nodes) : i # old => given[i] = nodes[i]
  BY <1>1, <1>2
<1>4. nodes' = Append(given, n)
  BY DEF Supersede
<1> HIDE DEF given
<1> QED BY <1>1, <1>3, <1>4 DEF Replaced

LEMMA Editing ==
  ASSUME TypeInv, NEW i \in 1..Len(nodes), NEW n \in Node, nodes' = [nodes EXCEPT ![i] = n]
  PROVE  Edited(i, n) /\ nodes' \in Seq(Node)
BY DEF TypeInv, TypeOK, Edited

\* prune drops one of those that are too many.
LEMMA HasOldest ==
  ASSUME TypeInv
  PROVE  /\ Active("Turn") # {} => /\ OldestTurn \in Active("Turn")
                                  /\ \A j \in Active("Turn") : TurnBefore(OldestTurn, j)
         /\ Facts # {} => OldestFact \in Facts
         /\ Durable # {} => Victim \in Durable /\ Victim \in Spare
<1>1. /\ Len(nodes) \in Nat /\ DOMAIN nodes = 1..Len(nodes)
      /\ \A i \in DOMAIN nodes : nodes[i].at \in Nat /\ nodes[i].index \in Nat
                                 /\ nodes[i].sal \in Nat /\ i \in Nat
  <2>1. nodes \in Seq(Node)
    BY DEF TypeInv, TypeOK
  <2>2. /\ Len(nodes) \in Nat /\ DOMAIN nodes = 1..Len(nodes)
        /\ \A i \in DOMAIN nodes : nodes[i] \in Node
    BY <2>1
  <2>3. \A n \in Node : n.at \in Nat /\ n.index \in Nat /\ n.sal \in Nat
    BY DEF Node
  <2> QED BY <2>2, <2>3
<1> DEFINE at(S) == [i \in S |-> nodes[i].at]
           place(S) == [i \in S |-> nodes[i].index]
           sal(S) == [i \in S |-> nodes[i].sal]
           it(S) == [i \in S |-> i]
           Least(S, f) == {x \in S : \A y \in S : f[x] <= f[y]}
<1>2. \A S : S \subseteq DOMAIN nodes =>
        /\ at(S) \in [S -> Nat] /\ place(S) \in [S -> Nat]
        /\ sal(S) \in [S -> Nat] /\ it(S) \in [S -> Nat]
  BY <1>1
<1>3. ASSUME NEW S, S \subseteq DOMAIN nodes, S # {}
      PROVE  /\ Least(S, at(S)) # {} /\ Least(S, place(S)) # {}
             /\ Least(S, sal(S)) # {} /\ Least(S, it(S)) # {}
  BY <1>2, <1>3, HasLeast
<1>4. ASSUME NEW S, S \subseteq DOMAIN nodes, S # {}
      PROVE  \E i \in S : \A j \in S : TurnBefore(i, j)
  <2>1. PICK A : A = Least(S, at(S))
    OBVIOUS
  <2>2. A \subseteq S /\ A # {}
    BY <1>3, <1>4, <2>1
  <2>3. PICK B : B = Least(A, place(A))
    OBVIOUS
  <2>4. B \subseteq A /\ B # {}
    BY <1>3, <1>4, <2>2, <2>3
  <2>5. PICK i \in B : i \in Least(B, it(B))
    BY <1>3, <1>4, <2>2, <2>4
  <2>6. \A j \in S : nodes[i].at <= nodes[j].at
    BY <2>1, <2>4, <2>5
  <2>7. \A j \in A : nodes[i].index <= nodes[j].index
    BY <2>3, <2>4, <2>5
  <2>8. \A j \in B : i <= j
    BY <2>5
  <2>9. \A j \in S : nodes[j].at = nodes[i].at => j \in A
    BY <2>1, <2>2, <2>4, <2>5, <2>6
  <2>10. \A j \in A : nodes[j].index = nodes[i].index => j \in B
    BY <2>3, <2>4, <2>5, <2>7
  <2>11. i \in S /\ \A j \in S : /\ nodes[j].at \in Nat /\ nodes[i].at \in Nat
                                 /\ nodes[j].index \in Nat /\ nodes[i].index \in Nat
    BY <1>1, <1>4, <2>2, <2>4, <2>5
  <2> QED BY <2>6, <2>7, <2>8, <2>9, <2>10, <2>11 DEF TurnBefore
<1>5. ASSUME NEW S, S \subseteq DOMAIN nodes, S # {}
      PROVE  \E i \in S : \A j \in S : Before(i, j)
  <2>1. PICK A : A = Least(S, at(S))
    OBVIOUS
  <2>2. A \subseteq S /\ A # {}
    BY <1>3, <1>5, <2>1
  <2>3. PICK i \in A : i \in Least(A, it(A))
    BY <1>3, <1>5, <2>2
  <2>4. \A j \in S : nodes[i].at <= nodes[j].at
    BY <2>1, <2>3
  <2>5. \A j \in A : i <= j
    BY <2>3
  <2>6. \A j \in S : nodes[j].at = nodes[i].at => j \in A
    BY <2>1, <2>2, <2>3, <2>4
  <2>7. i \in S /\ \A j \in S : nodes[j].at \in Nat /\ nodes[i].at \in Nat
    BY <1>1, <1>5, <2>2, <2>3
  <2> QED BY <2>4, <2>5, <2>6, <2>7 DEF Before
<1>6. ASSUME NEW S, S \subseteq DOMAIN nodes, S # {}
      PROVE  \E i \in S : \A j \in S : LessSalient(i, j)
  <2>1. PICK A : A = Least(S, sal(S))
    OBVIOUS
  <2>2. A \subseteq S /\ A # {}
    BY <1>3, <1>6, <2>1
  <2>3. PICK i \in A : \A j \in A : Before(i, j)
    BY <1>5, <1>6, <2>2
  <2>4. \A j \in S : nodes[i].sal <= nodes[j].sal
    BY <2>1, <2>3
  <2>5. \A j \in S : nodes[j].sal = nodes[i].sal => j \in A
    BY <2>1, <2>2, <2>3, <2>4
  <2>6. i \in S /\ \A j \in S : nodes[j].sal \in Nat /\ nodes[i].sal \in Nat
    BY <1>1, <1>6, <2>2, <2>3
  <2> QED BY <2>3, <2>4, <2>5, <2>6 DEF LessSalient
<1>7. /\ Active("Turn") \subseteq DOMAIN nodes /\ Facts \subseteq DOMAIN nodes
      /\ Spare \subseteq Durable /\ Durable \subseteq DOMAIN nodes
      /\ Durable # {} => Spare # {}
  BY DEF Active, Facts, Durable, Spare
<1> QED BY <1>4, <1>5, <1>6, <1>7 DEF OldestTurn, OldestFact, Victim

-----------------------------------------------------------------------------
(* What a step does to nodes.                                               *)

\* Topics and items are left alone.
Other == {"Fact", "Turn"}
Only(kinds) ==
  \/ nodes' = nodes
  \/ \E n \in Node : Grown(n) /\ n.kind \in kinds /\ n.status = "active"
  \/ \E i \in 1..Len(nodes), n \in Node :
       /\ Edited(i, n) /\ n.kind = nodes[i].kind /\ n.kind \in kinds
       /\ n.status = "superseded" <=> nodes[i].status = "superseded"
OnlyOthers == Only(Other)

LEMMA OthersAre == Only({"Fact"}) \/ Only({"Turn"}) => OnlyOthers
BY DEF Only, OnlyOthers, Other

LEMMA NewNodes ==
  ASSUME TypeInv, NEW l \in Labels
  PROVE  /\ [Blank EXCEPT !.label = Cut[l], !.summary = l] \in Node
         /\ TopicNode(l) \in Node /\ \A d \in BOOLEAN : ItemNode(l, d) \in Node
<1>1. clock \in Nat /\ Cut[l] \in Labels
  BY GraphAssumption DEF TypeInv, TypeOK
<1> QED BY <1>1 DEF Blank, TopicNode, ItemNode, Node

LEMMA TurnStep ==
  ASSUME TypeInv, BeginTurn
  PROVE  Only({"Turn"}) /\ nodes' \in Seq(Node)
<1>1. PICK t \in 0..MaxClock :
        nodes' = Append(nodes, [Blank EXCEPT !.kind = "Turn", !.at = t, !.index = turnIndex])
  BY DEF BeginTurn
<1> DEFINE n == [Blank EXCEPT !.kind = "Turn", !.at = t, !.index = turnIndex]
<1>2. n \in Node /\ n.kind = "Turn" /\ n.status = "active"
  <2>1. turnIndex \in Nat /\ clock \in Nat /\ t \in Nat
    BY GraphAssumption DEF TypeInv, TypeOK
  <2> QED BY <2>1 DEF Blank, Node
<1>3. nodes' = Append(nodes, n)
  BY <1>1
<1> HIDE DEF n
<1> QED BY <1>2, <1>3, Growing DEF Only

\* A node there is gets other values in some fields.
LEMMA FactEdits ==
  ASSUME TypeInv, NEW kinds, NEW i \in 1..Len(nodes), NEW n \in Node,
         nodes' = [nodes EXCEPT ![i] = n],
         nodes[i].kind \in kinds, n.kind = nodes[i].kind,
         n.status = "superseded" <=> nodes[i].status = "superseded"
  PROVE  Only(kinds) /\ nodes' \in Seq(Node)
BY Editing DEF Only

LEMMA FactStep ==
  ASSUME TypeInv, NEW l \in Labels,
         Sentence(l) \/ Path(l) \/ Heading(l) \/ Identifier(l) \/ Design(l)
  PROVE  Only({"Fact"}) /\ nodes' \in Seq(Node)
<1>1. /\ nodes \in Seq(Node) /\ Len(nodes) \in Nat
      /\ \A i \in 1..Len(nodes) : nodes[i] \in Node
  BY DEF TypeInv, TypeOK
<1>2. ASSUME NEW n \in Node, Insert(n), n.kind = "Fact", n.status = "active"
      PROVE  Only({"Fact"}) /\ nodes' \in Seq(Node)
  BY <1>2, Growing DEF Insert, Only
<1>3. ASSUME NEW m \in Labels, NEW s \in Labels \cup {NoText}, NEW sal \in Nat,
             \/ Insert(Fact(m, s, sal))
             \/ Insert([Fact(m, s, sal) EXCEPT !.ident = TRUE])
      PROVE  Only({"Fact"}) /\ nodes' \in Seq(Node)
  <2> DEFINE n == Fact(m, s, sal)
             id == [Fact(m, s, sal) EXCEPT !.ident = TRUE]
  <2>1. clock \in Nat
    BY DEF TypeInv, TypeOK
  <2>2. /\ n \in Node /\ n.kind = "Fact" /\ n.status = "active"
        /\ id \in Node /\ id.kind = "Fact" /\ id.status = "active"
    BY <2>1 DEF Fact, Blank, Node
  <2>3. Insert(n) \/ Insert(id)
    BY <1>3
  <2> HIDE DEF n, id
  <2> QED BY <1>2, <2>2, <2>3
<1>4. CASE nodes' = nodes
  BY <1>1, <1>4 DEF Only
<1>5. ASSUME NEW sal \in Nat, Raise(l, sal), FactsCalled(l) # {}
      PROVE  Only({"Fact"}) /\ nodes' \in Seq(Node)
  <2> DEFINE i == Newest(FactsCalled(l))
             s == IF nodes[i].sal < sal THEN sal ELSE nodes[i].sal
             n == [nodes[i] EXCEPT !.sal = s]
  <2>1. i \in 1..Len(nodes) /\ nodes[i].kind = "Fact"
    BY <1>5, LookupsFind DEF FactsCalled, Active
  <2>2. n \in Node /\ n.kind = nodes[i].kind /\ n.status = nodes[i].status
    BY <1>1, <2>1 DEF Node
  <2>3. nodes' = [nodes EXCEPT ![i] = n]
    BY <1>5 DEF Raise
  <2> HIDE DEF i, n
  <2> QED BY <2>1, <2>2, <2>3, FactEdits
<1>6. phase \in Lists => Salience[phase] \subseteq Nat
  BY GraphAssumption
<1>7. CASE Sentence(l)
  <2> DEFINE n == [Blank EXCEPT !.label = Cut[l], !.summary = l]
  <2>1. n \in Node /\ n.kind = "Fact" /\ n.status = "active"
    BY NewNodes DEF Blank
  <2>2. Insert(n)
    BY <1>7 DEF Sentence
  <2> HIDE DEF n
  <2> QED BY <1>2, <2>1, <2>2
<1>8. CASE Path(l)
  <2>1. PICK sal \in Nat : IF FactsCalled(l) = {} THEN Insert(Fact(l, NoText, sal))
                           ELSE Raise(l, sal) /\ UNCHANGED edges
    BY <1>6, <1>8 DEF Path, Takes, Lists
  <2>2. Cut[l] \in Labels
    BY GraphAssumption
  <2> QED BY <1>3, <1>5, <2>1, <2>2
<1>9. CASE Heading(l)
  <2>1. PICK sal \in Nat : IF FactsCalled(l) = {} THEN Insert(Fact(Cut[l], NoText, sal))
                           ELSE Raise(l, sal) /\ UNCHANGED edges
    BY <1>6, <1>9 DEF Heading, Takes, Lists
  <2>2. Cut[l] \in Labels
    BY GraphAssumption
  <2> QED BY <1>3, <1>5, <2>1, <2>2
<1>10. CASE Identifier(l)
  <2> DEFINE i == Newest(FactsCalled(l))
             s(sal) == IF nodes[i].sal < sal THEN sal ELSE nodes[i].sal
             n(sal) == [nodes[i] EXCEPT !.sal = s(sal), !.ident = TRUE, !.durable = TRUE]
  <2>1. PICK sal \in Nat :
          IF FactsCalled(l) = {}
          THEN Insert([Fact(Cut[l], NoText, sal) EXCEPT !.ident = TRUE])
          ELSE nodes' = [nodes EXCEPT ![i].sal = IF @ < sal THEN sal ELSE @,
                                      ![i].ident = TRUE, ![i].durable = TRUE]
    BY <1>6, <1>10 DEF Identifier, Takes, Lists
  <2>2. CASE FactsCalled(l) # {}
    <3>1. i \in 1..Len(nodes) /\ nodes[i].kind = "Fact"
      BY <2>2, LookupsFind DEF FactsCalled, Active
    <3>2. n(sal) \in Node /\ n(sal).kind = nodes[i].kind /\ n(sal).status = nodes[i].status
      BY <1>1, <3>1 DEF Node
    <3>3. nodes' = [nodes EXCEPT ![i] = n(sal)]
      BY <1>1, <2>1, <2>2, <3>1
    <3> HIDE DEF i, n
    <3> QED BY <3>1, <3>2, <3>3, FactEdits
  <2>3. Cut[l] \in Labels
    BY GraphAssumption
  <2> HIDE DEF i, n
  <2> QED BY <1>3, <2>1, <2>2, <2>3
<1>11. CASE Design(l)
  <2>1. \/ nodes' = nodes
        \/ \E sal \in Nat : Insert(Fact(Cut[l], l, sal))
    BY <1>6, <1>11 DEF Design, Takes, Lists, Keep
  <2>2. Cut[l] \in Labels
    BY GraphAssumption
  <2> QED BY <1>3, <1>4, <2>1, <2>2
<1> QED BY <1>7, <1>8, <1>9, <1>10, <1>11

LEMMA PruneStep ==
  ASSUME TypeInv, PruneTurns \/ PruneFacts \/ PruneDurable
  PROVE  /\ nodes' \in Seq(Node)
         /\ PruneTurns => Only({"Turn"})
         /\ PruneFacts \/ PruneDurable => Only({"Fact"})
<1>1. /\ nodes \in Seq(Node) /\ Len(nodes) \in Nat /\ DOMAIN nodes = 1..Len(nodes)
      /\ \A i \in 1..Len(nodes) : nodes[i] \in Node
  BY DEF TypeInv, TypeOK
<1>2. ASSUME NEW kinds, NEW i \in 1..Len(nodes), nodes[i].kind \in kinds, nodes[i].status = "active",
             nodes' = [nodes EXCEPT ![i].status = "pruned"]
      PROVE  Only(kinds) /\ nodes' \in Seq(Node)
  <2> DEFINE n == [nodes[i] EXCEPT !.status = "pruned"]
  <2>1. n \in Node /\ n.kind = nodes[i].kind /\ n.status = "pruned"
    BY <1>1 DEF Node
  <2>2. nodes' = [nodes EXCEPT ![i] = n]
    BY <1>2
  <2> HIDE DEF n
  <2> QED BY <1>2, <2>1, <2>2, FactEdits
<1>3. \A S : Cardinality(S) > 0 => S # {}
  BY FS_EmptySet
<1>4. ASSUME NEW kinds, NEW here, NEW S, NEW max \in Nat, NEW i, NEW next, Prunes(here, S, max, i, next),
             S # {} => i \in S, IsFiniteSet(S),
             S \subseteq {j \in 1..Len(nodes) : nodes[j].kind \in kinds
                                                /\ nodes[j].status = "active"}
      PROVE  Only(kinds) /\ nodes' \in Seq(Node)
  <2>1. Cardinality(S) \in Nat
    BY <1>4, FS_CardinalityType
  <2>2. CASE Cardinality(S) > max
    BY <1>2, <1>3, <1>4, <2>1, <2>2 DEF Prunes
  <2>3. CASE ~(Cardinality(S) > max)
    BY <1>1, <1>4, <2>3 DEF Prunes, Only
  <2> QED BY <2>2, <2>3
<1>5. /\ \A S \in {Active("Turn"), Facts, Durable} : IsFiniteSet(S)
      /\ Active("Turn") \subseteq {j \in 1..Len(nodes) : nodes[j].kind \in {"Turn"}
                                                       /\ nodes[j].status = "active"}
      /\ \A S \in {Facts, Durable} :
           S \subseteq {j \in 1..Len(nodes) : nodes[j].kind \in {"Fact"}
                                              /\ nodes[j].status = "active"}
  <2>1. /\ Active("Turn") \subseteq {j \in 1..Len(nodes) : nodes[j].kind \in {"Turn"}
                                                          /\ nodes[j].status = "active"}
        /\ \A S \in {Facts, Durable} :
             S \subseteq {j \in 1..Len(nodes) : nodes[j].kind \in {"Fact"}
                                                /\ nodes[j].status = "active"}
    BY <1>1 DEF Active, Facts, Durable
  <2>2. IsFiniteSet(1..Len(nodes))
    BY <1>1, FS_Interval
  <2>3. \A S : S \subseteq 1..Len(nodes) => IsFiniteSet(S)
    BY <2>2, FS_Subset
  <2> QED BY <2>1, <2>3
<1>6. CASE PruneTurns
  <2>1. Only({"Turn"}) /\ nodes' \in Seq(Node)
    BY <1>4, <1>5, <1>6, HasOldest, GraphAssumption DEF PruneTurns
  <2>2. ~PruneFacts /\ ~PruneDurable
    BY <1>6 DEF PruneTurns, PruneFacts, PruneDurable, Prunes
  <2> QED BY <2>1, <2>2
<1>7. CASE PruneFacts \/ PruneDurable
  <2>1. Only({"Fact"}) /\ nodes' \in Seq(Node)
    <3>1. CASE PruneFacts
      BY <1>4, <1>5, <3>1, HasOldest, GraphAssumption DEF PruneFacts
    <3>2. CASE PruneDurable
      BY <1>4, <1>5, <3>2, HasOldest, GraphAssumption DEF PruneDurable
    <3> QED BY <1>7, <3>1, <3>2
  <2>2. ~PruneTurns
    BY <1>7 DEF PruneTurns, PruneFacts, PruneDurable, Prunes
  <2> QED BY <2>1, <2>2
<1> QED BY <1>6, <1>7

LEMMA OpenStep ==
  ASSUME TypeInv, NEW l \in Labels, Open(l)
  PROVE  /\ nodes' \in Seq(Node) /\ edges' = edges
         /\ \/ ItemsCalled(l) # {} /\ nodes' = nodes
            \/ ItemsCalled(l) = {} /\ Grown(ItemNode(l, FALSE))
<1>1. CASE ItemsCalled(l) # {}
  BY <1>1 DEF Open, Keep, TypeInv, TypeOK
<1>2. CASE ItemsCalled(l) = {}
  <2>1. Insert(ItemNode(l, FALSE)) /\ ItemNode(l, FALSE) \in Node
    BY <1>2, NewNodes DEF Open
  <2> QED BY <1>2, <2>1, Growing DEF Insert
<1> QED BY <1>1, <1>2

Last(l) == Newest(Completed(l))
LEMMA DoneStep ==
  ASSUME TypeInv, NEW l \in Labels, Done(l)
  PROVE  /\ nodes' \in Seq(Node)
         /\ \/ Completed(l) = {} /\ nodes' = nodes /\ edges' = edges
            \/ /\ Last(l) \in Completed(l) /\ Last(l) \in 1..Len(nodes)
               /\ Supersede(Last(l), ItemNode(nodes[Last(l)].label, TRUE))
               /\ Replaced(Last(l), ItemNode(nodes[Last(l)].label, TRUE))
<1>1. CASE Completed(l) = {}
  BY <1>1 DEF Done, Keep, TypeInv, TypeOK
<1>2. CASE Completed(l) # {}
  <2> DEFINE n == ItemNode(nodes[Last(l)].label, TRUE)
  <2>1. Last(l) \in Completed(l) /\ Last(l) \in 1..Len(nodes) /\ nodes[Last(l)].label \in Labels
    BY <1>2, LookupsFind DEF Last
  <2>2. n \in Node
    BY <2>1, NewNodes
  <2>3. Supersede(Last(l), n)
    BY <1>2 DEF Done, Last
  <2> HIDE DEF n
  <2>4. Replaced(Last(l), n) /\ nodes' \in Seq(Node)
    BY <2>1, <2>2, <2>3, Replacing
  <2> QED BY <2>1, <2>3, <2>4 DEF n
<1> QED BY <1>1, <1>2

LEMMA TopicStep ==
  ASSUME TypeInv, NEW l \in Labels, Topic(l)
  PROVE  /\ nodes' \in Seq(Node)
         /\ \/ nodes' = nodes /\ edges' = edges
            \/ TopicsCalled(l) = {} /\ Grown(TopicNode(l)) /\ edges' = edges
            \/ /\ TopicsCalled(l) = {}
               /\ \E old \in Subsumed(l) : \E m \in {l, nodes[old].label} :
                    /\ old \in 1..Len(nodes) /\ m \in Labels
                    /\ Supersede(old, TopicNode(m)) /\ Replaced(old, TopicNode(m))
<1>1. CASE TopicsCalled(l) # {}
  BY <1>1 DEF Topic, Keep, TypeInv, TypeOK
<1>2. CASE TopicsCalled(l) = {} /\ Subsumed(l) = {}
  <2>1. Insert(TopicNode(l)) /\ TopicNode(l) \in Node
    BY <1>2, NewNodes DEF Topic
  <2> QED BY <1>2, <2>1, Growing DEF Insert
<1>3. CASE TopicsCalled(l) = {} /\ Subsumed(l) # {}
  <2> DEFINE old == First(Subsumed(l))
             m == Longer(l, nodes[old].label)
  <2>1. old \in Subsumed(l) /\ old \in 1..Len(nodes) /\ nodes[old].label \in Labels
    BY <1>3, LookupsFind
  <2>2. m \in {l, nodes[old].label} /\ m \in Labels
    BY <2>1 DEF Longer
  <2>3. TopicNode(m) \in Node
    BY <2>2, NewNodes
  <2>4. Supersede(old, TopicNode(m))
    BY <1>3 DEF Topic
  <2> HIDE DEF old, m
  <2>5. Replaced(old, TopicNode(m)) /\ nodes' \in Seq(Node)
    BY <2>1, <2>3, <2>4, Replacing
  <2> QED BY <1>3, <2>1, <2>2, <2>4, <2>5
<1> QED BY <1>1, <1>2, <1>3

-----------------------------------------------------------------------------
(* The type invariant.                                                      *)

LEMMA NodesTyped ==
  ASSUME TypeInv, Next
  PROVE  /\ nodes' \in Seq(Node) /\ Labelled'
         /\ Len(nodes) \in Nat /\ Len(nodes') \in Nat /\ Len(nodes) <= Len(nodes')
<1>1. /\ nodes \in Seq(Node) /\ Len(nodes) \in Nat /\ DOMAIN nodes = 1..Len(nodes)
      /\ \A i \in 1..Len(nodes) : nodes[i] \in Node
  BY DEF TypeInv, TypeOK
<1>2. /\ nodes' \in Seq(Node)
      /\ \/ OnlyOthers
         \/ \E n \in Node : Grown(n) /\ n.label \in Labels
         \/ \E n \in Node, old \in 1..Len(nodes) : Replaced(old, n) /\ n.label \in Labels
  <2>1. CASE BeginTurn
    BY <2>1, TurnStep, OthersAre
  <2>2. CASE Move \/ Reload
    BY <1>1, <2>2 DEF Move, Reload, Keep, OnlyOthers, Only
  <2>3. CASE PruneTurns \/ PruneFacts \/ PruneDurable
    BY <2>3, PruneStep, OthersAre
  <2>4. ASSUME NEW l \in Labels,
               Sentence(l) \/ Path(l) \/ Heading(l) \/ Identifier(l) \/ Design(l)
        PROVE  OnlyOthers /\ nodes' \in Seq(Node)
    BY <2>4, FactStep, OthersAre
  <2>5. ASSUME NEW m \in Labels, NEW d \in BOOLEAN
        PROVE  /\ TopicNode(m) \in Node /\ TopicNode(m).label \in Labels
               /\ ItemNode(m, d) \in Node /\ ItemNode(m, d).label \in Labels
    BY NewNodes, GraphAssumption DEF TopicNode, ItemNode, Blank
  <2>6. ASSUME NEW l \in Labels, Topic(l)
        PROVE  /\ nodes' \in Seq(Node)
               /\ \/ nodes' = nodes
                  \/ \E n \in Node : Grown(n) /\ n.label \in Labels
                  \/ \E n \in Node, old \in 1..Len(nodes) :
                       Replaced(old, n) /\ n.label \in Labels
    BY <2>5, <2>6, TopicStep
  <2>7. ASSUME NEW l \in Labels, Done(l)
        PROVE  /\ nodes' \in Seq(Node)
               /\ \/ nodes' = nodes
                  \/ \E n \in Node, old \in 1..Len(nodes) :
                       Replaced(old, n) /\ n.label \in Labels
    BY <2>5, <2>7, DoneStep, LookupsFind
  <2>8. ASSUME NEW l \in Labels, Open(l)
        PROVE  /\ nodes' \in Seq(Node)
               /\ \/ nodes' = nodes
                  \/ \E n \in Node : Grown(n) /\ n.label \in Labels
    BY <2>5, <2>8, OpenStep
  <2> QED BY <2>1, <2>2, <2>3, <2>4, <2>6, <2>7, <2>8 DEF Next, OnlyOthers, Only
<1>3. Len(nodes') \in Nat /\ DOMAIN nodes' = 1..Len(nodes')
  BY <1>2
<1>4. CASE OnlyOthers
  <2>1. CASE nodes' = nodes
    BY <1>1, <2>1 DEF Labelled, TypeInv
  <2>2. ASSUME NEW n \in Node, Grown(n), n.kind \in Other
        PROVE  Labelled' /\ Len(nodes) <= Len(nodes')
    BY <1>1, <1>3, <2>2 DEF Other, Grown, Labelled, TypeInv
  <2>3. ASSUME NEW i \in 1..Len(nodes), NEW n \in Node, Edited(i, n), n.kind \in Other
        PROVE  Labelled' /\ Len(nodes) <= Len(nodes')
    BY <1>1, <1>3, <2>3 DEF Other, Edited, Labelled, TypeInv
  <2> QED BY <1>1, <1>2, <1>3, <1>4, <2>1, <2>2, <2>3 DEF OnlyOthers, Only
<1>5. ASSUME NEW n \in Node, Grown(n), n.label \in Labels
      PROVE  Labelled' /\ Len(nodes) <= Len(nodes')
  BY <1>1, <1>3, <1>5 DEF Grown, Labelled, TypeInv
<1>6. ASSUME NEW n \in Node, NEW old \in 1..Len(nodes), Replaced(old, n), n.label \in Labels
      PROVE  Labelled' /\ Len(nodes) <= Len(nodes')
  <2>1. nodes'[old].kind = nodes[old].kind /\ nodes'[old].label = nodes[old].label
    BY <1>1, <1>6 DEF Replaced, Node
  <2>2. DOMAIN nodes' = 1..(Len(nodes) + 1) /\ Len(nodes) <= Len(nodes')
    BY <1>1, <1>3, <1>6 DEF Replaced
  <2>3. ASSUME NEW i \in 1..(Len(nodes) + 1), nodes'[i].kind \in {"Topic", "OpenItem"}
        PROVE  nodes'[i].label \in Labels
    <3>1. CASE i = Len(nodes) + 1
      BY <1>6, <3>1 DEF Replaced
    <3>2. CASE i = old
      BY <1>1, <2>1, <2>3, <3>2 DEF Labelled, TypeInv
    <3>3. CASE i \in 1..Len(nodes) /\ i # old
      BY <1>1, <1>6, <2>3, <3>3 DEF Replaced, Labelled, TypeInv
    <3> QED BY <1>1, <3>1, <3>2, <3>3
  <2> QED BY <2>2, <2>3 DEF Labelled
<1> QED BY <1>1, <1>2, <1>3, <1>4, <1>5, <1>6

LEMMA TypeStep ==
  ASSUME TypeInv, [Next]_vars
  PROVE  TypeInv'
<1>1. CASE UNCHANGED vars
  BY <1>1 DEF vars, TypeInv, TypeOK, Labelled
<1>2. CASE Next
  <2>1. /\ nodes' \in Seq(Node) /\ Labelled'
        /\ Len(nodes) \in Nat /\ Len(nodes') \in Nat /\ Len(nodes) <= Len(nodes')
    BY <1>2, NodesTyped
  <2>2. edges' \subseteq Edge
    <3>1. ASSUME NEW old \in 1..Len(nodes), NEW n, Supersede(old, n)
          PROVE  edges' \subseteq Edge
      <4>1. [rel |-> "supersedes", src |-> Len(nodes) + 1, dst |-> old] \in Edge
        BY <2>1 DEF Edge
      <4> QED BY <3>1, <4>1 DEF Supersede, TypeInv, TypeOK
    <3>2. CASE BeginTurn
      <4>1. \A t \in {lastTurn} \ {0} :
              [rel |-> "continues", src |-> Len(nodes) + 1, dst |-> t] \in Edge
        BY <2>1 DEF Edge, TypeInv, TypeOK
      <4> QED BY <3>2, <4>1 DEF BeginTurn, TypeInv, TypeOK
    <3>3. ASSUME NEW l \in Labels, Topic(l) \/ Done(l) \/ Open(l)
          PROVE  edges' \subseteq Edge
      BY <3>1, <3>3, TopicStep, DoneStep, OpenStep DEF TypeInv, TypeOK
    <3>4. ASSUME NEW l \in Labels,
                 Sentence(l) \/ Path(l) \/ Heading(l) \/ Identifier(l) \/ Design(l)
          PROVE  edges' \subseteq Edge
      BY <3>4 DEF Sentence, Path, Heading, Identifier, Design, Insert, Keep, TypeInv, TypeOK
    <3>5. CASE Move \/ Reload \/ PruneTurns \/ PruneFacts \/ PruneDurable
      BY <3>5 DEF Move, Reload, Keep, PruneTurns, PruneFacts, PruneDurable, Prunes,
                  TypeInv, TypeOK
    <3> QED BY <1>2, <3>2, <3>3, <3>4, <3>5 DEF Next
  <2>3. lastTurn' \in 0..Len(nodes') /\ turnIndex' \in Nat /\ clock' \in Nat
    <3>1. CASE BeginTurn
      <4>1. Len(nodes') = Len(nodes) + 1
        BY <2>1, <3>1 DEF BeginTurn, TypeInv, TypeOK
      <4> QED BY <2>1, <3>1, <4>1, GraphAssumption DEF BeginTurn, TypeInv, TypeOK
    <3>2. CASE Reload
      <4>1. Active("Turn") \in SUBSET (1..Len(nodes))
        BY <2>1 DEF Active, TypeInv, TypeOK
      <4>2. Active("Turn") # {} => Newest(Active("Turn")) \in 1..Len(nodes)
        BY <2>1, <4>1, HasNewest
      <4> QED BY <2>1, <3>2, <4>2, GraphAssumption DEF Reload, Keep, TypeInv, TypeOK
    <3>3. CASE ~BeginTurn /\ ~Reload
      <4>1. UNCHANGED <<lastTurn, turnIndex, clock>>
        BY <1>2, <3>3 DEF Next, Move, PruneTurns, PruneFacts, PruneDurable, Prunes, Sentence,
             Path, Heading, Identifier, Design, Topic, Done, Open, turn
      <4> QED BY <2>1, <4>1 DEF TypeInv, TypeOK
    <3> QED BY <3>1, <3>2, <3>3
  <2>4. phase' \in Phases
    <3>1. \A p \in Lists : After[p] \in Phases
      <4>1. /\ After["sentences"] = "paths" /\ After["paths"] = "identifiers"
            /\ After["identifiers"] = "headings" /\ After["headings"] = "designs"
            /\ After["designs"] = "topics" /\ After["topics"] = "done"
            /\ After["done"] = "open" /\ After["open"] = "prune turns"
        BY DEF After
      <4> QED BY <4>1 DEF Lists, Phases
    <3> QED BY <1>2, <3>1 DEF Next, BeginTurn, Move, Reload, PruneTurns, PruneFacts,
              PruneDurable, Prunes, Sentence, Path, Heading, Identifier, Design, Topic, Done,
              Open, Takes, TypeInv, TypeOK, Phases, Lists
  <2>5. seen' \subseteq Labels /\ doneKeys' \subseteq Labels
    BY <1>2 DEF Next, BeginTurn, Move, Reload, PruneTurns, PruneFacts, PruneDurable, Prunes,
         Sentence, Path, Heading, Identifier, Design, Topic, Done, Open, Takes, turn, TypeInv,
         TypeOK
  <2>6. said' \in [Labels -> {"nothing", "open", "done"}] /\ vault' \subseteq Labels
    BY <1>2 DEF Next, BeginTurn, Move, Reload, PruneTurns, PruneFacts, PruneDurable, Prunes,
         Sentence, Path, Heading, Identifier, Design, Topic, Done, Open, history, TypeInv,
         TypeOK
  <2> QED BY <2>1, <2>2, <2>3, <2>4, <2>5, <2>6 DEF TypeInv, TypeOK
<1> QED BY <1>1, <1>2

\* Every value keeps its type (graph.ts CtxGraph).
THEOREM GraphTypes == Spec => []TypeOK
<1>1. Init => TypeInv
  BY DEF Init, TypeInv, TypeOK, Labelled, Phases, Lists
<1> QED BY <1>1, TypeStep, PTL DEF Spec, TypeInv

-----------------------------------------------------------------------------
(* Items and topics.                                                        *)

\* Only three actions touch them.
LEMMA Touches ==
  ASSUME TypeInv, Next
  PROVE  OnlyOthers \/ \E l \in Labels : Topic(l) \/ Done(l) \/ Open(l)
<1>1. CASE Move \/ Reload
  BY <1>1 DEF Move, Reload, Keep, OnlyOthers, Only
<1> QED BY <1>1, TurnStep, PruneStep, FactStep, OthersAre DEF Next

\* A new node, of its kind, is active; one that gives way is no longer.
LEMMA ActiveNodes ==
  ASSUME TypeInv, TypeInv', NEW kind \in {"Topic", "OpenItem"}
  PROVE  /\ OnlyOthers => /\ Active(kind)' = Active(kind)
                          /\ \A i \in Active(kind) : nodes'[i] = nodes[i]
         /\ \A n : Grown(n) /\ n.status = "active" =>
              /\ Active(kind)' = Active(kind)
                   \cup {i \in {Len(nodes) + 1} : n.kind = kind}
              /\ \A i \in Active(kind) : nodes'[i] = nodes[i]
         /\ \A n : \A old \in 1..Len(nodes) : Replaced(old, n) /\ n.status = "active" =>
              /\ Active(kind)' = (Active(kind) \ {old})
                   \cup {i \in {Len(nodes) + 1} : n.kind = kind}
              /\ \A i \in Active(kind) \ {old} : nodes'[i] = nodes[i]
<1>1. /\ Len(nodes) \in Nat /\ DOMAIN nodes = 1..Len(nodes)
      /\ Len(nodes') \in Nat /\ DOMAIN nodes' = 1..Len(nodes')
      /\ \A i \in 1..Len(nodes) : nodes[i] \in Node
  BY DEF TypeInv, TypeOK
<1>2. ASSUME OnlyOthers
      PROVE  Active(kind)' = Active(kind) /\ \A i \in Active(kind) : nodes'[i] = nodes[i]
  <2>1. CASE nodes' = nodes
    BY <2>1 DEF Active
  <2>2. ASSUME NEW n \in Node, Grown(n), n.kind \in Other
        PROVE  Active(kind)' = Active(kind) /\ \A i \in Active(kind) : nodes'[i] = nodes[i]
    BY <1>1, <2>2 DEF Active, Grown, Other
  <2>3. ASSUME NEW i \in 1..Len(nodes), NEW n \in Node, Edited(i, n), n.kind \in Other,
               n.kind = nodes[i].kind
        PROVE  Active(kind)' = Active(kind) /\ \A j \in Active(kind) : nodes'[j] = nodes[j]
    BY <1>1, <2>3 DEF Active, Edited, Other
  <2> QED BY <1>2, <2>1, <2>2, <2>3 DEF OnlyOthers, Only
<1>3. ASSUME NEW n, Grown(n), n.status = "active"
      PROVE  /\ Active(kind)' = Active(kind) \cup {i \in {Len(nodes) + 1} : n.kind = kind}
             /\ \A i \in Active(kind) : nodes'[i] = nodes[i]
  BY <1>1, <1>3 DEF Active, Grown
<1>4. ASSUME NEW n, NEW old \in 1..Len(nodes), Replaced(old, n), n.status = "active"
      PROVE  /\ Active(kind)' = (Active(kind) \ {old})
                  \cup {i \in {Len(nodes) + 1} : n.kind = kind}
             /\ \A i \in Active(kind) \ {old} : nodes'[i] = nodes[i]
  <2>1. nodes'[old].status = "superseded"
    BY <1>1, <1>4 DEF Replaced, Node
  <2>2. /\ DOMAIN nodes' = 1..(Len(nodes) + 1) /\ nodes'[Len(nodes) + 1] = n
        /\ \A i \in 1..Len(nodes) : i # old => nodes'[i] = nodes[i]
    BY <1>1, <1>4 DEF Replaced
  <2>3. \A i \in 1..(Len(nodes) + 1) : i \in Active(kind)' <=>
          (i \in Active(kind) \ {old} \/ (i = Len(nodes) + 1 /\ n.kind = kind))
    <3> TAKE i \in 1..(Len(nodes) + 1)
    <3>1. CASE i = Len(nodes) + 1
      BY <1>1, <1>4, <2>2, <3>1 DEF Active
    <3>2. CASE i = old
      BY <1>1, <2>1, <2>2, <3>2 DEF Active
    <3>3. CASE i \in 1..Len(nodes) /\ i # old
      BY <1>1, <2>2, <3>3 DEF Active
    <3> QED BY <1>1, <3>1, <3>2, <3>3
  <2>4. Active(kind) \subseteq 1..(Len(nodes) + 1) /\ Active(kind)' \subseteq 1..(Len(nodes) + 1)
    BY <1>1, <2>2 DEF Active
  <2>5. \A i \in Active(kind) : i \in 1..Len(nodes)
    BY <1>1 DEF Active
  <2> QED BY <1>1, <2>2, <2>3, <2>4, <2>5
<1> QED BY <1>2, <1>3, <1>4

\* What happens to the open items.
Left(S) == OpenItems' = S /\ \A i \in S : nodes'[i] = nodes[i]
LEMMA ItemsAfter ==
  ASSUME TypeInv, TypeInv', NEW l \in Labels
  PROVE  /\ OnlyOthers \/ Topic(l) => Left(OpenItems)
         /\ Done(l) => \/ Completed(l) = {} /\ Left(OpenItems)
                       \/ Last(l) \in Completed(l) /\ Left(OpenItems \ {Last(l)})
         /\ Open(l) => \/ ItemsCalled(l) # {} /\ Left(OpenItems)
                       \/ /\ ItemsCalled(l) = {}
                          /\ OpenItems' = OpenItems \cup {Len(nodes) + 1}
                          /\ \A i \in OpenItems : nodes'[i] = nodes[i]
                          /\ nodes'[Len(nodes) + 1].label = l
<1> DEFINE Items0 == Active("OpenItem")
<1>1. /\ Len(nodes) + 1 \notin Items0 /\ Items0 \subseteq 1..Len(nodes)
      /\ OpenItems \subseteq Items0
  BY DEF Active, TypeInv, TypeOK, OpenItems
<1>2. nodes' = nodes => Left(OpenItems)
  BY DEF Left, OpenItems, Active
<1>3. ASSUME Items0' = Items0, \A i \in Items0 : nodes'[i] = nodes[i]
      PROVE  Left(OpenItems)
  BY <1>3 DEF Left, OpenItems
<1>4. OnlyOthers => Left(OpenItems)
  BY <1>3, ActiveNodes
<1>5. ASSUME Topic(l) PROVE Left(OpenItems)
  <2>1. \A m \in Labels : TopicNode(m).kind = "Topic" /\ TopicNode(m).status = "active"
    BY DEF TopicNode, Blank
  <2>2. CASE Grown(TopicNode(l))
    BY <1>3, <2>1, <2>2, ActiveNodes
  <2>3. ASSUME NEW old \in Subsumed(l), NEW m \in Labels, old \in 1..Len(nodes),
               Replaced(old, TopicNode(m))
        PROVE  Left(OpenItems)
    <3> DEFINE n == TopicNode(m)
    <3>1. n.kind = "Topic" /\ n.status = "active" /\ Replaced(old, n)
      BY <2>1, <2>3
    <3> HIDE DEF n
    <3>2. /\ Items0' = (Items0 \ {old}) \cup {i \in {Len(nodes) + 1} : n.kind = "OpenItem"}
          /\ \A i \in Items0 \ {old} : nodes'[i] = nodes[i]
      BY <2>3, <3>1, ActiveNodes
    <3>3. old \notin Items0
      BY DEF Subsumed, Active
    <3> QED BY <1>3, <3>1, <3>2, <3>3
  <2> QED BY <1>2, <1>5, <2>2, <2>3, TopicStep
<1>6. ASSUME Done(l)
      PROVE  \/ Completed(l) = {} /\ Left(OpenItems)
             \/ Last(l) \in Completed(l) /\ Left(OpenItems \ {Last(l)})
  <2> DEFINE n == ItemNode(nodes[Last(l)].label, TRUE)
  <2>1. n.kind = "OpenItem" /\ n.status = "active" /\ n.done
    BY DEF ItemNode, Blank
  <2>2. CASE Last(l) \in Completed(l) /\ Last(l) \in 1..Len(nodes) /\ Replaced(Last(l), n)
    <3> HIDE DEF n
    <3>1. /\ Items0' = (Items0 \ {Last(l)})
                          \cup {i \in {Len(nodes) + 1} : n.kind = "OpenItem"}
          /\ \A i \in Items0 \ {Last(l)} : nodes'[i] = nodes[i]
      BY <2>1, <2>2, ActiveNodes
    <3>2. nodes'[Len(nodes) + 1].done
      BY <2>1, <2>2 DEF Replaced
    <3>3. OpenItems' = {i \in Items0' : ~nodes'[i].done}
      BY DEF OpenItems
    <3>4. OpenItems = {i \in Items0 : ~nodes[i].done}
      BY DEF OpenItems
    <3> HIDE DEF Items0
    <3> QED BY <1>1, <2>1, <2>2, <3>1, <3>2, <3>3, <3>4 DEF Left
  <2> QED BY <1>2, <1>6, <2>2, DoneStep
<1>7. ASSUME Open(l)
      PROVE  \/ ItemsCalled(l) # {} /\ Left(OpenItems)
             \/ /\ ItemsCalled(l) = {}
                /\ OpenItems' = OpenItems \cup {Len(nodes) + 1}
                /\ \A i \in OpenItems : nodes'[i] = nodes[i]
                /\ nodes'[Len(nodes) + 1].label = l
  <2> DEFINE n == ItemNode(l, FALSE)
  <2>1. n.kind = "OpenItem" /\ n.status = "active" /\ ~n.done /\ n.label = l
    BY DEF ItemNode, Blank
  <2>2. CASE ItemsCalled(l) = {} /\ Grown(n)
    <3> HIDE DEF n
    <3>1. /\ Items0' = Items0 \cup {i \in {Len(nodes) + 1} : n.kind = "OpenItem"}
          /\ \A i \in Items0 : nodes'[i] = nodes[i]
      BY <2>1, <2>2, ActiveNodes
    <3>2. nodes'[Len(nodes) + 1] = n
      BY <2>2 DEF Grown
    <3>3. OpenItems' = {i \in Items0' : ~nodes'[i].done}
      BY DEF OpenItems
    <3>4. OpenItems = {i \in Items0 : ~nodes[i].done}
      BY DEF OpenItems
    <3> HIDE DEF Items0
    <3> QED BY <1>1, <2>1, <2>2, <3>1, <3>2, <3>3, <3>4
  <2> QED BY <1>2, <1>7, <2>2, OpenStep
<1> QED BY <1>4, <1>5, <1>6, <1>7

\* The labels of open items, too, are those of items.
ItemsNamed == \A i \in OpenItems : nodes[i].label \in Items
ItemInv == TypeInv /\ OneOpenItem /\ ItemsNamed /\ LastWordCounts

LEMMA ItemsFrame ==
  ASSUME ItemInv, TypeInv', said' = said, Left(OpenItems)
  PROVE  ItemInv'
<1>1. \A l \in Labels : ItemsCalled(l)' = ItemsCalled(l)
  BY DEF ItemsCalled, Left
<1>2. \A l \in Items : l \in Labels
  BY GraphAssumption DEF Items, Lists
<1> QED BY <1>1, <1>2 DEF ItemInv, OneOpenItem, ItemsNamed, LastWordCounts, Left

LEMMA ItemsInductive ==
  ASSUME ItemInv, [Next]_vars
  PROVE  ItemInv'
<1>1. TypeInv /\ TypeInv'
  BY TypeStep DEF ItemInv
<1>2. \A l \in Items : l \in Labels
  BY GraphAssumption DEF Items, Lists
<1>3. CASE UNCHANGED vars
  <2>1. Left(OpenItems) /\ said' = said
    BY <1>3 DEF vars, Left, OpenItems, Active
  <2> QED BY <1>1, <2>1, ItemsFrame
<1>4. ASSUME NEW l \in Labels, Done(l) PROVE ItemInv'
  <2>1. l \in Items /\ said' = [said EXCEPT ![l] = "done"]
    BY <1>4 DEF Done, Takes, Items
  <2>2. said \in [Labels -> {"nothing", "open", "done"}]
    BY <1>1 DEF TypeInv, TypeOK
  <2>3. CASE Completed(l) = {} /\ Left(OpenItems)
    <3>1. \A m \in Labels : ItemsCalled(m)' = ItemsCalled(m)
      BY <2>3 DEF ItemsCalled, Left
    <3>2. ItemsCalled(l) = {}
      BY <2>3 DEF Completed
    <3>3. LastWordCounts'
      BY <1>2, <2>1, <2>2, <3>1, <3>2 DEF LastWordCounts, ItemInv
    <3> QED BY <1>1, <2>3, <3>3 DEF ItemInv, OneOpenItem, ItemsNamed, Left
  <2>4. CASE Last(l) \in Completed(l) /\ Left(OpenItems \ {Last(l)})
    <3> DEFINE old == Last(l)
    <3>1. old \in OpenItems /\ Overlap(l, nodes[old].label) /\ nodes[old].label \in Items
      BY <2>4 DEF Completed, ItemsCalled, ItemsLike, Overlap, ItemInv, ItemsNamed
    <3>2. \A m \in Labels : ItemsCalled(m)' = ItemsCalled(m) \ {old}
      BY <2>4 DEF ItemsCalled, Left
    <3>3. ASSUME NEW m \in Items, Isolated(m)
          PROVE  ItemsCalled(m)' # {} <=> said'[m] = "open"
      <4>1. ItemsCalled(m) # {} <=> said[m] = "open"
        BY <3>3 DEF ItemInv, LastWordCounts
      <4>2. CASE m = l
        <5>1. nodes[old].label = l
          BY <3>1, <3>3, <4>2 DEF Isolated
        <5>2. ItemsCalled(l) \subseteq {old}
          BY <3>1, <5>1 DEF ItemsCalled, ItemInv, OneOpenItem
        <5> QED BY <1>2, <2>1, <2>2, <3>2, <4>2, <5>2
      <4>3. CASE m # l
        <5>1. nodes[old].label # m
          BY <2>1, <3>1, <3>3, <4>3 DEF Isolated, Overlap
        <5> QED BY <1>2, <2>1, <2>2, <3>2, <4>1, <4>3, <5>1 DEF ItemsCalled
      <4> QED BY <4>2, <4>3
    <3> QED BY <1>1, <2>4, <3>3 DEF ItemInv, OneOpenItem, ItemsNamed, Left, LastWordCounts
  <2> QED BY <1>1, <1>4, <2>3, <2>4, ItemsAfter
<1>5. ASSUME NEW l \in Labels, Open(l) PROVE ItemInv'
  <2>1. l \in Items /\ said' = [said EXCEPT ![l] = "open"]
    BY <1>5 DEF Open, Takes, Items
  <2>2. said \in [Labels -> {"nothing", "open", "done"}]
    BY <1>1 DEF TypeInv, TypeOK
  <2>3. CASE ItemsCalled(l) # {} /\ Left(OpenItems)
    <3>1. \A m \in Labels : ItemsCalled(m)' = ItemsCalled(m)
      BY <2>3 DEF ItemsCalled, Left
    <3>2. LastWordCounts'
      BY <1>2, <2>1, <2>2, <2>3, <3>1 DEF LastWordCounts, ItemInv
    <3> QED BY <1>1, <2>3, <3>2 DEF ItemInv, OneOpenItem, ItemsNamed, Left
  <2>4. CASE /\ ItemsCalled(l) = {}
             /\ OpenItems' = OpenItems \cup {Len(nodes) + 1}
             /\ \A i \in OpenItems : nodes'[i] = nodes[i]
             /\ nodes'[Len(nodes) + 1].label = l
    <3> DEFINE new == Len(nodes) + 1
    <3>1. ItemsCalled(l)' # {}
      BY <2>4 DEF ItemsCalled
    <3>2. \A m \in Labels \ {l} : ItemsCalled(m)' = ItemsCalled(m)
      <4> TAKE m \in Labels \ {l}
      <4>1. \A i : i \in ItemsCalled(m)' <=> i \in OpenItems' /\ nodes'[i].label = m
        BY DEF ItemsCalled
      <4>2. \A i : i \in ItemsCalled(m) <=> i \in OpenItems /\ nodes[i].label = m
        BY DEF ItemsCalled
      <4> QED BY <2>4, <4>1, <4>2
    <3>3. LastWordCounts'
      BY <1>2, <2>1, <2>2, <3>1, <3>2 DEF LastWordCounts, ItemInv
    <3>4. OneOpenItem' /\ ItemsNamed'
      BY <2>1, <2>4 DEF ItemInv, OneOpenItem, ItemsNamed, ItemsCalled
    <3> QED BY <1>1, <3>3, <3>4 DEF ItemInv
  <2> QED BY <1>1, <1>5, <2>3, <2>4, ItemsAfter
<1>6. ASSUME NEW l \in Labels, Topic(l) PROVE ItemInv'
  <2>1. said' = said
    BY <1>6 DEF Topic, history
  <2> QED BY <1>1, <1>6, <2>1, ItemsAfter, ItemsFrame
<1>7. CASE Next /\ ~\E l \in Labels : Topic(l) \/ Done(l) \/ Open(l)
  <2>1. said' = said
    BY <1>7 DEF Next, BeginTurn, Move, Reload, PruneTurns, PruneFacts, PruneDurable, Prunes,
         Sentence, Path, Heading, Identifier, Design, history
  <2>2. OnlyOthers
    BY <1>1, <1>7, Touches
  <2>3. Left(OpenItems)
    BY <1>1, <2>2, ActiveNodes DEF Left, OpenItems
  <2> QED BY <1>1, <2>1, <2>3, ItemsFrame
<1> QED BY <1>3, <1>4, <1>5, <1>6, <1>7

LEMMA ItemsInvariant == Spec => []ItemInv
<1>1. Init => ItemInv
  <2> SUFFICES ASSUME Init PROVE ItemInv
    OBVIOUS
  <2>1. nodes = <<>> /\ OpenItems = {} /\ \A l \in Labels : ItemsCalled(l) = {}
    BY DEF Init, OpenItems, ItemsCalled, Active
  <2>2. TypeInv
    BY DEF Init, TypeInv, TypeOK, Labelled, Phases, Lists
  <2>3. Items \subseteq Labels
    BY GraphAssumption DEF Items, Lists
  <2> QED BY <2>1, <2>2, <2>3 DEF Init, ItemInv, OneOpenItem, ItemsNamed, LastWordCounts
<1> QED BY <1>1, ItemsInductive, PTL DEF Spec

\* One open item of a name, through what was completed and opened again: an item is
\* opened only when none of its name is open, and completing one opens none.
THEOREM ItemsOpenOnce == Spec => []OneOpenItem
BY ItemsInvariant, PTL DEF ItemInv

\* An item that no other one is taken for is open exactly if the last turn that named it
\* opened it: openings and completions act in the order they are said.
THEOREM LastWordKept == Spec => []LastWordCounts
BY ItemsInvariant, PTL DEF ItemInv

-----------------------------------------------------------------------------
(* Topics.                                                                  *)

\* Topics that are left, and perhaps one more.
LEMMA TopicsAfter ==
  ASSUME TypeInv, TypeInv', NEW l \in Labels
  PROVE  /\ OnlyOthers \/ Done(l) \/ Open(l) =>
              /\ Active("Topic")' = Active("Topic")
              /\ \A i \in Active("Topic") : nodes'[i] = nodes[i]
         /\ Topic(l) =>
              \/ nodes' = nodes
              \/ /\ TopicsCalled(l) = {}
                 /\ \E m \in Labels, gone \in SUBSET Active("Topic") :
                      /\ m = l \/ \E i \in gone : nodes[i].label = m
                      /\ Active("Topic")' = (Active("Topic") \ gone) \cup {Len(nodes) + 1}
                      /\ \A i \in Active("Topic") \ gone : nodes'[i] = nodes[i]
                      /\ nodes'[Len(nodes) + 1].label = Cut[m]
<1>1. /\ \A m \in Labels : /\ TopicNode(m).kind = "Topic" /\ TopicNode(m).status = "active"
                           /\ TopicNode(m).label = Cut[m]
      /\ \A m \in Labels, d \in BOOLEAN : ItemNode(m, d).kind = "OpenItem"
                                          /\ ItemNode(m, d).status = "active"
  BY DEF TopicNode, ItemNode, Blank
<1> DEFINE Kept == /\ Active("Topic")' = Active("Topic")
                   /\ \A i \in Active("Topic") : nodes'[i] = nodes[i]
<1>2. nodes' = nodes => Kept
  BY DEF Active
<1>3. OnlyOthers => Kept
  BY ActiveNodes
<1>4. ASSUME Done(l) PROVE Kept
  <2> DEFINE n == ItemNode(nodes[Last(l)].label, TRUE)
  <2>1. CASE Last(l) \in Completed(l) /\ Last(l) \in 1..Len(nodes) /\ Replaced(Last(l), n)
    <3>1. nodes[Last(l)].label \in Labels /\ Last(l) \notin Active("Topic")
      BY <2>1, LookupsFind DEF Active
    <3>2. n.kind = "OpenItem" /\ n.status = "active"
      BY <1>1, <3>1
    <3> HIDE DEF n
    <3>3. /\ Active("Topic")' = (Active("Topic") \ {Last(l)})
                 \cup {i \in {Len(nodes) + 1} : n.kind = "Topic"}
          /\ \A i \in Active("Topic") \ {Last(l)} : nodes'[i] = nodes[i]
      BY <2>1, <3>2, ActiveNodes
    <3> QED BY <3>1, <3>2, <3>3
  <2> QED BY <1>2, <1>4, <2>1, DoneStep
<1>5. ASSUME Open(l) PROVE Kept
  <2> DEFINE n == ItemNode(l, FALSE)
  <2>1. n.kind = "OpenItem" /\ n.status = "active"
    BY <1>1
  <2>2. CASE Grown(n)
    <3> HIDE DEF n
    <3>1. /\ Active("Topic")' = Active("Topic")
                 \cup {i \in {Len(nodes) + 1} : n.kind = "Topic"}
          /\ \A i \in Active("Topic") : nodes'[i] = nodes[i]
      BY <2>1, <2>2, ActiveNodes
    <3> QED BY <2>1, <3>1
  <2> QED BY <1>2, <1>5, <2>2, OpenStep
<1>6. ASSUME Topic(l)
      PROVE  \/ nodes' = nodes
             \/ /\ TopicsCalled(l) = {}
                /\ \E m \in Labels, gone \in SUBSET Active("Topic") :
                     /\ m = l \/ \E i \in gone : nodes[i].label = m
                     /\ Active("Topic")' = (Active("Topic") \ gone) \cup {Len(nodes) + 1}
                     /\ \A i \in Active("Topic") \ gone : nodes'[i] = nodes[i]
                     /\ nodes'[Len(nodes) + 1].label = Cut[m]
  <2>1. CASE TopicsCalled(l) = {} /\ Grown(TopicNode(l))
    <3>1. /\ Active("Topic")' = Active("Topic") \cup {Len(nodes) + 1}
          /\ \A i \in Active("Topic") : nodes'[i] = nodes[i]
      BY <1>1, <2>1, ActiveNodes
    <3>2. nodes'[Len(nodes) + 1].label = Cut[l]
      BY <1>1, <2>1 DEF Grown
    <3>3. {} \in SUBSET Active("Topic") /\ Active("Topic") \ {} = Active("Topic")
      OBVIOUS
    <3> QED BY <2>1, <3>1, <3>2, <3>3
  <2>2. ASSUME TopicsCalled(l) = {}, NEW old \in Subsumed(l), NEW m \in {l, nodes[old].label},
               m \in Labels, old \in 1..Len(nodes), Replaced(old, TopicNode(m))
        PROVE  \E gone \in SUBSET Active("Topic") :
                 /\ m = l \/ \E i \in gone : nodes[i].label = m
                 /\ Active("Topic")' = (Active("Topic") \ gone) \cup {Len(nodes) + 1}
                 /\ \A i \in Active("Topic") \ gone : nodes'[i] = nodes[i]
                 /\ nodes'[Len(nodes) + 1].label = Cut[m]
    <3> DEFINE n == TopicNode(m)
    <3>1. n.kind = "Topic" /\ n.status = "active" /\ n.label = Cut[m] /\ Replaced(old, n)
      BY <1>1, <2>2
    <3> HIDE DEF n
    <3>2. /\ Active("Topic")' = (Active("Topic") \ {old}) \cup {Len(nodes) + 1}
          /\ \A i \in Active("Topic") \ {old} : nodes'[i] = nodes[i]
      BY <2>2, <3>1, ActiveNodes
    <3>3. nodes'[Len(nodes) + 1].label = Cut[m]
      BY <3>1 DEF Replaced
    <3>4. {old} \in SUBSET Active("Topic")
      BY DEF Subsumed
    <3> QED BY <2>2, <3>2, <3>3, <3>4
  <2> QED BY <1>6, <2>1, <2>2, TopicStep
<1> QED BY <1>3, <1>4, <1>5, <1>6

LEMMA TopicsInductive ==
  ASSUME TypeInv, OneTopic, [Next]_vars
  PROVE  TypeInv' /\ OneTopic'
<1>1. TypeInv'
  BY TypeStep
<1>2. ASSUME Active("Topic")' = Active("Topic"),
             \A i \in Active("Topic") : nodes'[i] = nodes[i]
      PROVE  OneTopic'
  BY <1>2 DEF OneTopic
<1>3. CASE nodes' = nodes
  BY <1>1, <1>2, <1>3 DEF Active
<1>4. ASSUME NEW l \in Labels, NEW m \in Labels, NEW gone \in SUBSET Active("Topic"),
             TopicsCalled(l) = {}, m = l \/ \E i \in gone : nodes[i].label = m,
             Active("Topic")' = (Active("Topic") \ gone) \cup {Len(nodes) + 1},
             \A i \in Active("Topic") \ gone : nodes'[i] = nodes[i],
             nodes'[Len(nodes) + 1].label = Cut[m]
      PROVE  OneTopic'
  <2>1. ASSUME NEW j \in Active("Topic") \ gone, Whole(Cut[m]) PROVE nodes[j].label # Cut[m]
    <3>1. Cut[m] = m
      BY <2>1 DEF Whole
    <3>2. CASE m = l
      BY <1>4, <3>1, <3>2 DEF TopicsCalled
    <3>3. CASE \E i \in gone : nodes[i].label = m
      BY <2>1, <3>1, <3>3 DEF OneTopic
    <3> QED BY <1>4, <3>2, <3>3
  <2> QED BY <1>4, <2>1 DEF OneTopic
<1>5. ASSUME NEW l \in Labels, Topic(l) PROVE OneTopic'
  BY <1>1, <1>3, <1>4, <1>5, TopicsAfter
<1>6. ASSUME NEW l \in Labels, Done(l) \/ Open(l) PROVE OneTopic'
  BY <1>1, <1>2, <1>6, TopicsAfter
<1>7. CASE OnlyOthers
  BY <1>1, <1>2, <1>7, ActiveNodes
<1> QED BY <1>1, <1>3, <1>5, <1>6, <1>7, Touches DEF vars

\* No topic is there twice, however topics gave way to each other: what takes the place
\* of a topic is either new, or that topic's own text.
THEOREM TopicsOnce == Spec => []OneTopic
<1>1. Init => TypeInv /\ OneTopic
  BY DEF Init, TypeInv, TypeOK, Labelled, Phases, Lists, OneTopic, Active
<1> QED BY <1>1, TopicsInductive, PTL DEF Spec

-----------------------------------------------------------------------------
(* The caps.                                                                *)

CapsInv ==
  /\ phase \in {"prune facts", "prune durable", "idle"} =>
       Cardinality(Active("Turn")) <= MaxTurns
  /\ phase \in {"prune durable", "idle"} => Cardinality(Facts) <= MaxFacts
  /\ phase = "idle" => Cardinality(Durable) <= MaxDurable

\* What is dropped is in no set of active nodes any more, and nothing comes to one.
LEMMA Shrinking ==
  ASSUME TypeInv, NEW i, nodes' = [nodes EXCEPT ![i].status = "pruned"]
  PROVE  /\ Cardinality(Active("Turn")') <= Cardinality(Active("Turn"))
         /\ Cardinality(Facts') <= Cardinality(Facts)
         /\ Cardinality(Active("Turn")) \in Nat /\ Cardinality(Facts) \in Nat
         /\ Cardinality(Active("Turn")') \in Nat /\ Cardinality(Facts') \in Nat
<1>1. /\ nodes \in Seq(Node) /\ Len(nodes) \in Nat /\ DOMAIN nodes = 1..Len(nodes)
      /\ \A j \in 1..Len(nodes) : nodes[j] \in Node
  BY DEF TypeInv, TypeOK
<1>2. DOMAIN nodes' = DOMAIN nodes
  OBVIOUS
<1>3. ASSUME NEW j \in DOMAIN nodes, nodes'[j].status = "active"
      PROVE  nodes'[j] = nodes[j]
  <2>1. CASE j = i
    <3>1. nodes'[j] = [nodes[j] EXCEPT !.status = "pruned"]
      BY <2>1
    <3>2. nodes'[j].status = "pruned"
      BY <1>1, <3>1 DEF Node
    <3> QED BY <1>3, <3>2
  <2>2. CASE j # i
    BY <2>2
  <2> QED BY <2>1, <2>2
<1>4. /\ Active("Turn")' \subseteq Active("Turn") /\ Facts' \subseteq Facts
      /\ Active("Turn") \subseteq 1..Len(nodes) /\ Facts \subseteq 1..Len(nodes)
  BY <1>1, <1>2, <1>3 DEF Active, Facts
<1>5. IsFiniteSet(1..Len(nodes))
  BY <1>1, FS_Interval
<1>6. IsFiniteSet(Active("Turn")) /\ IsFiniteSet(Facts)
  BY <1>4, <1>5, FS_Subset
<1>7. /\ IsFiniteSet(Active("Turn")') /\ Cardinality(Active("Turn")') <= Cardinality(Active("Turn"))
      /\ IsFiniteSet(Facts') /\ Cardinality(Facts') <= Cardinality(Facts)
  BY <1>4, <1>6, FS_Subset
<1> QED BY <1>6, <1>7, FS_CardinalityType

LEMMA AtMost ==
  \A a, b, c \in Nat : a <= b /\ b <= c => a <= c
OBVIOUS

LEMMA CapsInductive ==
  ASSUME TypeInv, CapsInv, [Next]_vars
  PROVE  TypeInv' /\ CapsInv'
<1>1. TypeInv'
  BY TypeStep
<1>2. /\ Cardinality(Active("Turn")) \in Nat /\ Cardinality(Facts) \in Nat
      /\ Cardinality(Durable) \in Nat
      /\ MaxTurns \in Nat /\ MaxFacts \in Nat /\ MaxDurable \in Nat
  <2>1. Len(nodes) \in Nat /\ DOMAIN nodes = 1..Len(nodes)
    BY DEF TypeInv, TypeOK
  <2>2. IsFiniteSet(1..Len(nodes))
    BY <2>1, FS_Interval
  <2>3. \A S \in SUBSET (1..Len(nodes)) : IsFiniteSet(S)
    BY <2>2, FS_Subset
  <2>4. /\ Active("Turn") \in SUBSET (1..Len(nodes)) /\ Facts \in SUBSET (1..Len(nodes))
        /\ Durable \in SUBSET (1..Len(nodes))
    BY <2>1 DEF Active, Facts, Durable
  <2>5. /\ Cardinality(Active("Turn")) \in Nat /\ Cardinality(Facts) \in Nat
        /\ Cardinality(Durable) \in Nat
    BY <2>3, <2>4, FS_CardinalityType
  <2> QED BY <2>5, GraphAssumption
<1>3. ASSUME nodes' = nodes
      PROVE  Active("Turn")' = Active("Turn") /\ Facts' = Facts /\ Durable' = Durable
  BY <1>3 DEF Active, Facts, Durable
<1>4. CASE nodes' = nodes /\ phase' = phase
  BY <1>1, <1>3, <1>4 DEF CapsInv
<1>5. CASE phase' \notin {"prune facts", "prune durable", "idle"}
  BY <1>1, <1>5 DEF CapsInv
<1>6. CASE PruneTurns
  <2>1. CASE Cardinality(Active("Turn")) > MaxTurns
    BY <1>5, <1>6, <2>1 DEF PruneTurns, Prunes
  <2>2. CASE ~(Cardinality(Active("Turn")) > MaxTurns)
    <3>1. nodes' = nodes /\ phase' = "prune facts"
      BY <1>6, <2>2 DEF PruneTurns, Prunes
    <3>2. Cardinality(Active("Turn")) <= MaxTurns
      BY <1>2, <2>2
    <3>3. Cardinality(Active("Turn")') <= MaxTurns
      BY <1>3, <3>1, <3>2
    <3> QED BY <1>1, <3>1, <3>3 DEF CapsInv
  <2> QED BY <2>1, <2>2
<1>7. CASE PruneFacts
  <2>1. phase = "prune facts" /\ Cardinality(Active("Turn")) <= MaxTurns
    BY <1>7 DEF PruneFacts, Prunes, CapsInv
  <2>2. CASE Cardinality(Facts) > MaxFacts
    <3>1. phase' = phase /\ nodes' = [nodes EXCEPT ![OldestFact].status = "pruned"]
      BY <1>7, <2>2 DEF PruneFacts, Prunes
    <3> DEFINE i == OldestFact
    <3>2. nodes' = [nodes EXCEPT ![i].status = "pruned"]
      BY <3>1
    <3> HIDE DEF i
    <3>3. /\ Cardinality(Active("Turn")') <= Cardinality(Active("Turn"))
          /\ Cardinality(Active("Turn")') \in Nat
      BY <3>2, Shrinking
    <3>4. Cardinality(Active("Turn")') <= MaxTurns
      BY <1>2, <2>1, <3>3, AtMost, Zenon
    <3> QED BY <1>1, <2>1, <3>1, <3>4 DEF CapsInv
  <2>3. CASE ~(Cardinality(Facts) > MaxFacts)
    <3>1. nodes' = nodes /\ phase' = "prune durable"
      BY <1>7, <2>3 DEF PruneFacts, Prunes
    <3>2. Cardinality(Facts) <= MaxFacts
      BY <1>2, <2>3
    <3>3. Cardinality(Active("Turn")') <= MaxTurns /\ Cardinality(Facts') <= MaxFacts
      BY <1>3, <2>1, <3>1, <3>2
    <3> QED BY <1>1, <3>1, <3>3 DEF CapsInv
  <2> QED BY <2>2, <2>3
<1>8. CASE PruneDurable
  <2>1. /\ phase = "prune durable" /\ Cardinality(Active("Turn")) <= MaxTurns
        /\ Cardinality(Facts) <= MaxFacts
    BY <1>8 DEF PruneDurable, Prunes, CapsInv
  <2>2. CASE Cardinality(Durable) > MaxDurable
    <3>1. phase' = phase /\ nodes' = [nodes EXCEPT ![Victim].status = "pruned"]
      BY <1>8, <2>2 DEF PruneDurable, Prunes
    <3> DEFINE i == Victim
    <3>2. nodes' = [nodes EXCEPT ![i].status = "pruned"]
      BY <3>1
    <3> HIDE DEF i
    <3>3. /\ Cardinality(Active("Turn")') <= Cardinality(Active("Turn"))
          /\ Cardinality(Facts') <= Cardinality(Facts)
          /\ Cardinality(Active("Turn")') \in Nat /\ Cardinality(Facts') \in Nat
      BY <3>2, Shrinking
    <3>4. Cardinality(Active("Turn")') <= MaxTurns /\ Cardinality(Facts') <= MaxFacts
      BY <1>2, <2>1, <3>3, AtMost, Zenon
    <3> QED BY <1>1, <2>1, <3>1, <3>4 DEF CapsInv
  <2>3. CASE ~(Cardinality(Durable) > MaxDurable)
    <3>1. nodes' = nodes /\ phase' = "idle"
      BY <1>8, <2>3 DEF PruneDurable, Prunes
    <3>2. Cardinality(Durable) <= MaxDurable
      BY <1>2, <2>3
    <3>3. /\ Cardinality(Active("Turn")') <= MaxTurns /\ Cardinality(Facts') <= MaxFacts
          /\ Cardinality(Durable') <= MaxDurable
      BY <1>3, <2>1, <3>1, <3>2
    <3> QED BY <1>1, <3>1, <3>3 DEF CapsInv
  <2> QED BY <2>2, <2>3
<1>9. ASSUME NEW l \in Labels,
             \/ Sentence(l) \/ Path(l) \/ Identifier(l) \/ Heading(l)
             \/ Design(l) \/ Topic(l) \/ Done(l) \/ Open(l)
      PROVE  phase' \notin {"prune facts", "prune durable", "idle"}
  BY <1>9 DEF Sentence, Path, Identifier, Heading, Design, Topic, Done, Open, Takes
<1>10. CASE BeginTurn
  BY <1>5, <1>10 DEF BeginTurn
<1>11. CASE Move
  <2>1. /\ After["sentences"] = "paths" /\ After["paths"] = "identifiers"
        /\ After["identifiers"] = "headings" /\ After["headings"] = "designs"
        /\ After["designs"] = "topics" /\ After["topics"] = "done"
        /\ After["done"] = "open" /\ After["open"] = "prune turns"
    BY DEF After
  <2> QED BY <1>5, <1>11, <2>1 DEF Move, Lists
<1>12. CASE Reload \/ UNCHANGED vars
  BY <1>4, <1>12 DEF Reload, Keep, vars
<1> QED BY <1>5, <1>6, <1>7, <1>8, <1>9, <1>10, <1>11, <1>12 DEF Next

\* Between two turns there are never more active turns, facts and durable facts than the
\* caps, however many a turn brought.
THEOREM CapsHold == Spec => []CapsKept
<1>1. Init => TypeInv /\ CapsInv
  <2> SUFFICES ASSUME Init PROVE TypeInv /\ CapsInv
    OBVIOUS
  <2>1. Active("Turn") = {} /\ Facts = {} /\ Durable = {}
    BY DEF Init, Active, Facts, Durable
  <2>2. Cardinality({}) = 0
    BY FS_EmptySet
  <2>3. 0 <= MaxTurns /\ 0 <= MaxFacts /\ 0 <= MaxDurable
    BY GraphAssumption
  <2>4. CapsInv
    BY <2>1, <2>2, <2>3 DEF CapsInv
  <2> QED BY <2>4 DEF Init, TypeInv, TypeOK, Labelled, Phases, Lists
<1>2. CapsInv => CapsKept
  BY DEF CapsInv, CapsKept
<1> QED BY <1>1, <1>2, CapsInductive, PTL DEF Spec

-----------------------------------------------------------------------------
(* The history of items and topics.                                         *)

Supersessions == {e \in edges : e.rel = "supersedes"}
Inside == \A e \in Supersessions : e.src \in 1..Len(nodes) /\ e.dst \in 1..Len(nodes)
HistoryInv == TypeInv /\ SupersededOnce /\ Inside

\* No action but those of items and topics supersedes anything.
LEMMA SupersessionsKept ==
  ASSUME TypeInv, Next, ~\E l \in Labels : Topic(l) \/ Done(l) \/ Open(l)
  PROVE  Supersessions' = Supersessions
<1>1. CASE BeginTurn
  <2>1. \A e \in edges' : e \in edges \/ e.rel = "continues"
    BY <1>1 DEF BeginTurn
  <2>2. edges \subseteq edges'
    BY <1>1 DEF BeginTurn
  <2> QED BY <2>1, <2>2 DEF Supersessions
<1>2. CASE ~BeginTurn
  <2>1. edges' = edges
    BY <1>2 DEF Next, Move, Reload, Keep, PruneTurns, PruneFacts, PruneDurable, Prunes,
         Sentence, Path, Heading, Identifier, Design, Insert
  <2> QED BY <2>1 DEF Supersessions
<1> QED BY <1>1, <1>2

LEMMA HistoryFrame ==
  ASSUME HistoryInv, TypeInv', Supersessions' = Supersessions,
         \/ OnlyOthers
         \/ \E n \in Node : Grown(n) /\ n.status = "active"
  PROVE  HistoryInv'
<1>1. /\ Len(nodes) \in Nat /\ DOMAIN nodes = 1..Len(nodes)
      /\ Len(nodes') \in Nat /\ DOMAIN nodes' = 1..Len(nodes')
  BY DEF HistoryInv, TypeInv, TypeOK
<1>2. /\ Len(nodes) <= Len(nodes')
      /\ \A i \in 1..Len(nodes) :
           /\ nodes'[i].kind = nodes[i].kind
           /\ nodes'[i].status = "superseded" <=> nodes[i].status = "superseded"
      /\ \A i \in 1..Len(nodes') : i \notin 1..Len(nodes) => nodes'[i].status # "superseded"
  <2>1. CASE nodes' = nodes
    BY <1>1, <2>1
  <2>2. ASSUME NEW n \in Node, Grown(n), n.status = "active"
        PROVE  <1>2!1 /\ <1>2!2 /\ <1>2!3
    BY <1>1, <2>2 DEF Grown
  <2>3. ASSUME NEW i \in 1..Len(nodes), NEW n \in Node, Edited(i, n), n.kind = nodes[i].kind,
               n.status = "superseded" <=> nodes[i].status = "superseded"
        PROVE  <1>2!1 /\ <1>2!2 /\ <1>2!3
    BY <1>1, <2>3 DEF Edited
  <2> QED BY <2>1, <2>2, <2>3 DEF OnlyOthers, Only
<1>3. \A i : SupersededBy(i)' = SupersededBy(i)
  <2>1. \A i : SupersededBy(i) = {e \in Supersessions : e.dst = i}
    BY DEF SupersededBy, Supersessions
  <2>2. \A i : SupersededBy(i)' = {e \in Supersessions' : e.dst = i}
    BY DEF SupersededBy, Supersessions
  <2> QED BY <2>1, <2>2
<1>4. \A i : i \notin 1..Len(nodes) => SupersededBy(i) = {}
  BY DEF HistoryInv, Inside, SupersededBy, Supersessions
<1>5. \A i \in 1..Len(nodes) : \A e \in SupersededBy(i) : e.src \in 1..Len(nodes)
  BY DEF HistoryInv, Inside, SupersededBy, Supersessions
<1>6. SupersededOnce'
  <2> SUFFICES ASSUME NEW i \in 1..Len(nodes')
               PROVE  IF nodes'[i].status = "superseded"
                      THEN \E e \in SupersededBy(i) :
                             /\ SupersededBy(i) = {e}
                             /\ i < e.src /\ e.src <= Len(nodes')
                             /\ nodes'[e.src].kind = nodes'[i].kind
                      ELSE SupersededBy(i) = {}
    BY <1>1, <1>3 DEF SupersededOnce
  <2>1. CASE i \in 1..Len(nodes)
    <3>1. IF nodes[i].status = "superseded"
          THEN \E e \in SupersededBy(i) :
                 /\ SupersededBy(i) = {e}
                 /\ i < e.src /\ e.src <= Len(nodes) /\ nodes[e.src].kind = nodes[i].kind
          ELSE SupersededBy(i) = {}
      BY <1>1, <2>1 DEF HistoryInv, SupersededOnce
    <3> QED BY <1>1, <1>2, <1>5, <2>1, <3>1
  <2>2. CASE i \notin 1..Len(nodes)
    BY <1>2, <1>4, <2>2
  <2> QED BY <2>1, <2>2
<1>7. Inside'
  BY <1>1, <1>2 DEF HistoryInv, Inside
<1> QED BY <1>6, <1>7 DEF HistoryInv

LEMMA HistoryGrows ==
  ASSUME HistoryInv, TypeInv', NEW old \in 1..Len(nodes), NEW n,
         Supersede(old, n), Replaced(old, n),
         nodes[old].status = "active", n.status = "active", n.kind = nodes[old].kind
  PROVE  HistoryInv'
<1>1. /\ Len(nodes) \in Nat /\ DOMAIN nodes = 1..Len(nodes) /\ nodes[old] \in Node
      /\ Len(nodes') = Len(nodes) + 1 /\ DOMAIN nodes' = 1..(Len(nodes) + 1)
  BY DEF HistoryInv, TypeInv, TypeOK, Replaced
<1> DEFINE new == [rel |-> "supersedes", src |-> Len(nodes) + 1, dst |-> old]
<1>2. edges' = edges \cup {new}
  BY DEF Supersede
<1>3. \A i : SupersededBy(i)' = SupersededBy(i) \cup {e \in {new} : i = old}
  BY <1>2 DEF SupersededBy
<1>4. /\ nodes'[old].status = "superseded" /\ nodes'[old].kind = nodes[old].kind
      /\ \A i \in 1..Len(nodes) : i # old => nodes'[i] = nodes[i]
      /\ nodes'[Len(nodes) + 1] = n
  BY <1>1 DEF Replaced, Node
<1>5. \A i \in 1..Len(nodes) : nodes'[i].kind = nodes[i].kind
  BY <1>4
<1>6. \A i : i \notin 1..Len(nodes) => SupersededBy(i) = {}
  BY DEF HistoryInv, Inside, SupersededBy, Supersessions
<1>7. SupersededBy(old) = {}
  BY <1>1 DEF HistoryInv, SupersededOnce
<1>8. SupersededOnce'
  <2> SUFFICES ASSUME NEW i \in 1..(Len(nodes) + 1)
               PROVE  IF nodes'[i].status = "superseded"
                      THEN \E e \in SupersededBy(i)' :
                             /\ SupersededBy(i)' = {e}
                             /\ i < e.src /\ e.src <= Len(nodes')
                             /\ nodes'[e.src].kind = nodes'[i].kind
                      ELSE SupersededBy(i)' = {}
    BY <1>1 DEF SupersededOnce
  <2>1. CASE i = old
    <3>1. SupersededBy(i)' = {new}
      BY <1>3, <1>7, <2>1
    <3>2. new.src = Len(nodes) + 1 /\ i < new.src
      BY <1>1, <2>1
    <3> QED BY <1>1, <1>4, <2>1, <3>1, <3>2
  <2>2. CASE i = Len(nodes) + 1
    BY <1>1, <1>3, <1>4, <1>6, <2>2
  <2>3. CASE i \in 1..Len(nodes) /\ i # old
    <3>1. SupersededBy(i)' = SupersededBy(i) /\ nodes'[i] = nodes[i]
      BY <1>3, <1>4, <2>3
    <3>2. IF nodes[i].status = "superseded"
          THEN \E e \in SupersededBy(i) :
                 /\ SupersededBy(i) = {e}
                 /\ i < e.src /\ e.src <= Len(nodes) /\ nodes[e.src].kind = nodes[i].kind
          ELSE SupersededBy(i) = {}
      BY <1>1, <2>3 DEF HistoryInv, SupersededOnce
    <3>3. \A e \in SupersededBy(i) : e.src \in 1..Len(nodes)
      BY DEF HistoryInv, Inside, SupersededBy, Supersessions
    <3> QED BY <1>1, <1>5, <2>3, <3>1, <3>2, <3>3
  <2> QED BY <1>1, <2>1, <2>2, <2>3
<1>9. Inside'
  <2>1. new.src \in 1..(Len(nodes) + 1) /\ new.dst \in 1..(Len(nodes) + 1)
    BY <1>1
  <2>2. \A e \in Supersessions' : e \in Supersessions \/ e = new
    BY <1>2 DEF Supersessions
  <2> QED BY <1>1, <2>1, <2>2 DEF HistoryInv, Inside
<1> QED BY <1>8, <1>9 DEF HistoryInv

LEMMA HistoryInductive ==
  ASSUME HistoryInv, [Next]_vars
  PROVE  HistoryInv'
<1>1. TypeInv /\ TypeInv'
  BY TypeStep DEF HistoryInv
<1>2. edges' = edges => Supersessions' = Supersessions
  BY DEF Supersessions
<1>3. nodes' = nodes /\ edges' = edges => HistoryInv'
  BY <1>1, <1>2, HistoryFrame DEF OnlyOthers, Only
<1>4. \A m \in Labels : /\ TopicNode(m).kind = "Topic" /\ TopicNode(m).status = "active"
                        /\ TopicNode(m) \in Node
                        /\ \A d \in BOOLEAN : /\ ItemNode(m, d).kind = "OpenItem"
                                              /\ ItemNode(m, d).status = "active"
                                              /\ ItemNode(m, d) \in Node
  BY <1>1, NewNodes DEF TopicNode, ItemNode, Blank
<1>5. ASSUME NEW l \in Labels, Topic(l) PROVE HistoryInv'
  <2>1. CASE Grown(TopicNode(l)) /\ edges' = edges
    BY <1>1, <1>2, <1>4, <2>1, HistoryFrame
  <2>2. ASSUME NEW old \in Subsumed(l), NEW m \in Labels, old \in 1..Len(nodes),
               Supersede(old, TopicNode(m)), Replaced(old, TopicNode(m))
        PROVE  HistoryInv'
    <3>1. nodes[old].status = "active" /\ nodes[old].kind = "Topic"
      BY DEF Subsumed, Active
    <3> QED BY <1>1, <1>4, <2>2, <3>1, HistoryGrows
  <2> QED BY <1>1, <1>3, <1>5, <2>1, <2>2, TopicStep
<1>6. ASSUME NEW l \in Labels, Done(l) PROVE HistoryInv'
  <2> DEFINE n == ItemNode(nodes[Last(l)].label, TRUE)
  <2>1. CASE /\ Last(l) \in Completed(l) /\ Last(l) \in 1..Len(nodes)
             /\ Supersede(Last(l), n) /\ Replaced(Last(l), n)
    <3>1. /\ nodes[Last(l)].status = "active" /\ nodes[Last(l)].kind = "OpenItem"
          /\ nodes[Last(l)].label \in Labels
      BY <1>1, <2>1, LookupsFind DEF Completed, ItemsCalled, ItemsLike, OpenItems, Active
    <3>2. n.kind = "OpenItem" /\ n.status = "active"
      BY <1>4, <3>1
    <3> HIDE DEF n
    <3> QED BY <1>1, <2>1, <3>1, <3>2, HistoryGrows
  <2> QED BY <1>1, <1>3, <1>6, <2>1, DoneStep
<1>7. ASSUME NEW l \in Labels, Open(l) PROVE HistoryInv'
  <2>1. CASE Grown(ItemNode(l, FALSE)) /\ edges' = edges
    BY <1>1, <1>2, <1>4, <2>1, HistoryFrame
  <2> QED BY <1>1, <1>3, <1>7, <2>1, OpenStep
<1>8. CASE Next /\ ~\E l \in Labels : Topic(l) \/ Done(l) \/ Open(l)
  BY <1>1, <1>8, SupersessionsKept, Touches, HistoryFrame
<1> QED BY <1>3, <1>5, <1>6, <1>7, <1>8 DEF vars

\* The history of an item or a topic is a chain that goes forward: what is superseded
\* was so once, by a later node of its kind, and nothing else was.
THEOREM HistoryIsLinear == Spec => []SupersededOnce
<1>1. Init => HistoryInv
  BY DEF Init, HistoryInv, TypeInv, TypeOK, Labelled, Phases, Lists, SupersededOnce, Inside,
         Supersessions
<1> QED BY <1>1, HistoryInductive, PTL DEF Spec, HistoryInv

-----------------------------------------------------------------------------
(* The chain of turns.  With a clock that does not go back, the order of prune   *)
(* is that of the places: turns have later stamps, or higher indices.  So prune  *)
(* never takes the newest turn, and a reload finds it again.                     *)

Sorted(i, j) == \/ nodes[i].at < nodes[j].at
                \/ nodes[i].at = nodes[j].at /\ nodes[i].index < nodes[j].index
InOrder == \A i, j \in Turns : i < j => Sorted(i, j)
Stamped == \A i \in Turns : /\ nodes[i].at <= clock
                            /\ nodes[i].at = clock => nodes[i].index < turnIndex
LastKnown == IF Turns = {} THEN lastTurn = 0
             ELSE /\ lastTurn \in Turns /\ nodes[lastTurn].status = "active"
                  /\ \A i \in Turns : i <= lastTurn
ChainInv == Monotone => InOrder /\ Stamped /\ LastKnown /\ ChainUnbroken

LEMMA TurnsTyped ==
  ASSUME TypeInv
  PROVE  /\ Len(nodes) \in Nat /\ DOMAIN nodes = 1..Len(nodes) /\ Turns \subseteq 1..Len(nodes)
         /\ \A i \in 1..Len(nodes) : nodes[i] \in Node /\ nodes[i].at \in Nat /\ nodes[i].index \in Nat
         /\ clock \in Nat /\ turnIndex \in Nat /\ lastTurn \in 0..Len(nodes)
         /\ Active("Turn") = {i \in Turns : nodes[i].status = "active"}
<1>1. nodes \in Seq(Node) /\ clock \in Nat /\ turnIndex \in Nat /\ lastTurn \in 0..Len(nodes)
  BY DEF TypeInv, TypeOK
<1>2. \A n \in Node : n.at \in Nat /\ n.index \in Nat
  BY DEF Node
<1>3. /\ Len(nodes) \in Nat /\ DOMAIN nodes = 1..Len(nodes)
      /\ \A i \in 1..Len(nodes) : nodes[i] \in Node
  BY <1>1
<1> QED BY <1>1, <1>2, <1>3 DEF Turns, Active

\* A turn is touched only by what touches turns, a fact only by what touches facts.
Of(kind) == {i \in DOMAIN nodes : nodes[i].kind = kind}
LEMMA KindKept ==
  ASSUME TypeInv, TypeInv', NEW kind \in Other, NEW other \in Other, kind # other,
         \/ nodes' = nodes
         \/ Only({other})
         \/ \E l \in Labels : Topic(l) \/ Done(l) \/ Open(l)
  PROVE  Of(kind)' = Of(kind) /\ \A i \in Of(kind) : nodes'[i] = nodes[i]
<1>1. /\ Len(nodes) \in Nat /\ DOMAIN nodes = 1..Len(nodes)
      /\ Len(nodes') \in Nat /\ DOMAIN nodes' = 1..Len(nodes')
      /\ \A i \in 1..Len(nodes) : nodes[i] \in Node
  BY DEF TypeInv, TypeOK
<1> DEFINE Kept == Of(kind)' = Of(kind) /\ \A i \in Of(kind) : nodes'[i] = nodes[i]
<1>2. nodes' = nodes => Kept
  BY DEF Of
<1>3. ASSUME NEW n, Grown(n), n.kind # kind PROVE Kept
  BY <1>1, <1>3 DEF Grown, Of
<1>4. ASSUME NEW i \in 1..Len(nodes), NEW n, Edited(i, n), nodes[i].kind # kind, n.kind # kind
      PROVE  Kept
  BY <1>1, <1>4 DEF Edited, Of
<1>5. ASSUME NEW old \in 1..Len(nodes), NEW n, Replaced(old, n), nodes[old].kind # kind,
             n.kind # kind
      PROVE  Kept
  <2>1. nodes'[old].kind = nodes[old].kind
    BY <1>1, <1>5 DEF Replaced, Node
  <2>2. /\ DOMAIN nodes' = 1..(Len(nodes) + 1) /\ nodes'[Len(nodes) + 1].kind # kind
        /\ \A i \in 1..Len(nodes) : i # old => nodes'[i] = nodes[i]
    BY <1>1, <1>5 DEF Replaced
  <2>3. \A i \in 1..Len(nodes) : nodes'[i].kind = kind <=> nodes[i].kind = kind
    BY <2>1, <2>2
  <2>4. \A i \in 1..(Len(nodes) + 1) : i \in 1..Len(nodes) \/ i = Len(nodes) + 1
    BY <1>1
  <2>5. Of(kind)' = Of(kind)
    BY <1>1, <2>2, <2>3, <2>4 DEF Of
  <2> QED BY <1>1, <1>5, <2>2, <2>5 DEF Of
<1>6. Only({other}) => Kept
  BY <1>2, <1>3, <1>4 DEF Only
<1>7. kind # "Topic" /\ kind # "OpenItem"
  BY DEF Other
<1>8. \A m \in Labels : TopicNode(m).kind = "Topic" /\ \A d \in BOOLEAN : ItemNode(m, d).kind = "OpenItem"
  BY DEF TopicNode, ItemNode, Blank
<1>9. ASSUME NEW l \in Labels, Topic(l) PROVE Kept
  <2>1. ASSUME NEW old \in Subsumed(l), NEW m \in Labels, old \in 1..Len(nodes),
               Replaced(old, TopicNode(m))
        PROVE  Kept
    <3>1. nodes[old].kind = "Topic"
      BY DEF Subsumed, Active
    <3> QED BY <1>5, <1>7, <1>8, <2>1, <3>1
  <2> QED BY <1>2, <1>3, <1>7, <1>8, <1>9, <2>1, TopicStep
<1>10. ASSUME NEW l \in Labels, Done(l) PROVE Kept
  <2> DEFINE n == ItemNode(nodes[Last(l)].label, TRUE)
  <2>1. CASE Last(l) \in Completed(l) /\ Last(l) \in 1..Len(nodes) /\ Replaced(Last(l), n)
    <3>1. nodes[Last(l)].kind = "OpenItem" /\ nodes[Last(l)].label \in Labels
      BY <2>1, LookupsFind
    <3>2. n.kind = "OpenItem"
      BY <1>8, <3>1
    <3> HIDE DEF n
    <3> QED BY <1>5, <1>7, <2>1, <3>1, <3>2
  <2> QED BY <1>2, <1>10, <2>1, DoneStep
<1>11. ASSUME NEW l \in Labels, Open(l) PROVE Kept
  BY <1>2, <1>3, <1>7, <1>8, <1>11, OpenStep
<1> QED BY <1>2, <1>6, <1>9, <1>10, <1>11

LEMMA TurnsKept ==
  ASSUME TypeInv, TypeInv', Next, ~BeginTurn, ~PruneTurns
  PROVE  /\ Turns' = Turns /\ \A i \in Turns : nodes'[i] = nodes[i]
         /\ edges \subseteq edges'
<1>1. \/ nodes' = nodes \/ Only({"Fact"})
      \/ \E l \in Labels : Topic(l) \/ Done(l) \/ Open(l)
  <2>1. CASE Move \/ Reload
    BY <2>1 DEF Move, Reload, Keep
  <2>2. CASE PruneFacts \/ PruneDurable
    BY <2>2, PruneStep
  <2> QED BY <2>1, <2>2, FactStep DEF Next
<1>2. Of("Turn")' = Of("Turn") /\ \A i \in Of("Turn") : nodes'[i] = nodes[i]
  BY <1>1, KindKept DEF Other
<1>3. edges \subseteq edges'
  <2>1. \A old, n : Supersede(old, n) => edges \subseteq edges'
    BY DEF Supersede
  <2>2. ASSUME NEW l \in Labels, Topic(l) \/ Done(l) \/ Open(l) PROVE edges \subseteq edges'
    BY <2>1, <2>2, TopicStep, DoneStep, OpenStep
  <2>3. CASE ~\E l \in Labels : Topic(l) \/ Done(l) \/ Open(l)
    BY <2>3 DEF Next, Move, Reload, Keep, PruneTurns, PruneFacts, PruneDurable, Prunes, Sentence,
         Path, Heading, Identifier, Design, Insert
  <2> QED BY <2>2, <2>3
<1>4. Of("Turn") = Turns /\ Of("Turn")' = Turns'
  BY DEF Of, Turns
<1> QED BY <1>2, <1>3, <1>4

\* What does not touch a turn, nor the handle's idea of it, keeps the chain.
LEMMA ChainFrame ==
  ASSUME TypeInv, ChainInv, Turns' = Turns, \A i \in Turns : nodes'[i] = nodes[i],
         edges \subseteq edges', UNCHANGED <<lastTurn, turnIndex, clock>>
  PROVE  ChainInv'
<1> SUFFICES ASSUME Monotone
             PROVE  InOrder' /\ Stamped' /\ LastKnown' /\ ChainUnbroken'
  BY DEF ChainInv
<1>1. InOrder /\ Stamped /\ LastKnown /\ ChainUnbroken
  BY DEF ChainInv
<1>2. InOrder' /\ Stamped'
  BY <1>1 DEF InOrder, Stamped, Sorted
<1>3. LastKnown'
  BY <1>1 DEF LastKnown
<1>4. ChainUnbroken'
  BY <1>1 DEF ChainUnbroken, Follows
<1> QED BY <1>2, <1>3, <1>4

LEMMA ChainBegins ==
  ASSUME TypeInv, TypeInv', ChainInv, BeginTurn
  PROVE  ChainInv'
<1> SUFFICES ASSUME Monotone
             PROVE  InOrder' /\ Stamped' /\ LastKnown' /\ ChainUnbroken'
  BY DEF ChainInv
<1>1. InOrder /\ Stamped /\ LastKnown /\ ChainUnbroken
  BY DEF ChainInv
<1> DEFINE new == Len(nodes) + 1
<1>2. PICK t \in 0..MaxClock :
        /\ t >= clock /\ clock' = t
        /\ nodes' = Append(nodes, [Blank EXCEPT !.kind = "Turn", !.at = t, !.index = turnIndex])
  BY DEF BeginTurn
<1>3. t \in Nat
  BY GraphAssumption
<1>4. /\ Len(nodes) \in Nat /\ DOMAIN nodes = 1..Len(nodes)
      /\ DOMAIN nodes' = 1..new /\ \A i \in 1..Len(nodes) : nodes'[i] = nodes[i]
      /\ nodes'[new].kind = "Turn" /\ nodes'[new].at = t /\ nodes'[new].index = turnIndex
      /\ nodes'[new].status = "active"
  <2>1. nodes \in Seq(Node)
    BY DEF TypeInv, TypeOK
  <2> QED BY <1>2, <2>1 DEF Blank
<1>5. Turns' = Turns \cup {new}
  BY <1>4 DEF Turns
<1>6. \A i \in Turns : /\ i \in 1..Len(nodes) /\ i < new /\ nodes'[i] = nodes[i]
                       /\ nodes[i].at \in Nat /\ nodes[i].index \in Nat
  BY <1>4, TurnsTyped
<1>7. clock \in Nat /\ turnIndex \in Nat /\ turnIndex' = turnIndex + 1 /\ lastTurn' = new
  BY TurnsTyped DEF BeginTurn
<1>8. InOrder'
  <2> SUFFICES ASSUME NEW i \in Turns', NEW j \in Turns', i < j
               PROVE  Sorted(i, j)'
    BY DEF InOrder
  <2>1. CASE j \in Turns
    <3>1. i \in Turns
      BY <1>4, <1>5, <1>6, <2>1
    <3> QED BY <1>1, <1>6, <2>1, <3>1 DEF InOrder, Sorted
  <2>2. CASE j = new
    <3>1. i \in Turns
      BY <1>4, <1>5, <2>2
    <3>2. nodes[i].at <= clock /\ (nodes[i].at = clock => nodes[i].index < turnIndex)
      BY <1>1, <3>1 DEF Stamped
    <3> QED BY <1>2, <1>3, <1>4, <1>6, <1>7, <2>2, <3>1, <3>2 DEF Sorted
  <2> QED BY <1>5, <2>1, <2>2
<1>9. Stamped'
  <2> SUFFICES ASSUME NEW i \in Turns'
               PROVE  nodes'[i].at <= clock' /\ (nodes'[i].at = clock' => nodes'[i].index < turnIndex')
    BY DEF Stamped
  <2>1. CASE i \in Turns
    <3>1. nodes[i].at <= clock /\ (nodes[i].at = clock => nodes[i].index < turnIndex)
      BY <1>1, <2>1 DEF Stamped
    <3> QED BY <1>2, <1>3, <1>6, <1>7, <2>1, <3>1
  <2>2. CASE i = new
    BY <1>2, <1>3, <1>4, <1>7, <2>2
  <2> QED BY <1>5, <2>1, <2>2
<1>10. LastKnown'
  BY <1>4, <1>5, <1>6, <1>7 DEF LastKnown
<1>11. edges' = edges \cup
         {[rel |-> "continues", src |-> new, dst |-> u] : u \in {lastTurn} \ {0}}
  BY DEF BeginTurn
<1>12. ChainUnbroken'
  <2> SUFFICES ASSUME NEW i \in Turns', NEW j \in Turns', j < i,
                      \A k \in Turns' : k <= j \/ i <= k
               PROVE  Follows(i, j)'
    BY DEF ChainUnbroken
  <2>1. j \in Turns
    BY <1>4, <1>5, <1>6
  <2>2. CASE i \in Turns
    <3>1. Follows(i, j)
      BY <1>1, <1>5, <2>1, <2>2 DEF ChainUnbroken
    <3> QED BY <1>11, <3>1 DEF Follows
  <2>3. CASE i = new
    <3>1. lastTurn \in Turns /\ \A k \in Turns : k <= lastTurn
      BY <1>1, <2>1 DEF LastKnown
    <3>2. lastTurn = j
      <4>1. lastTurn <= j \/ new <= lastTurn
        BY <1>5, <2>3, <3>1
      <4> QED BY <1>4, <1>6, <2>1, <3>1, <4>1
    <3>3. lastTurn # 0
      BY <1>6, <3>1
    <3> QED BY <1>11, <2>3, <3>2, <3>3 DEF Follows
  <2> QED BY <1>5, <2>2, <2>3
<1> QED BY <1>8, <1>9, <1>10, <1>12

LEMMA ChainPruned ==
  ASSUME TypeInv, ChainInv, PruneTurns
  PROVE  ChainInv'
<1> SUFFICES ASSUME Monotone
             PROVE  InOrder' /\ Stamped' /\ LastKnown' /\ ChainUnbroken'
  BY DEF ChainInv
<1>1. InOrder /\ Stamped /\ LastKnown /\ ChainUnbroken
  BY DEF ChainInv
<1>2. UNCHANGED <<edges, lastTurn, turnIndex, clock>>
  BY DEF PruneTurns, Prunes, turn
<1>3. CASE nodes' = nodes
  <2>1. Turns' = Turns
    BY <1>3 DEF Turns
  <2> QED BY <1>2, <1>3, <2>1, ChainFrame DEF ChainInv
<1>4. CASE /\ Cardinality(Active("Turn")) > MaxTurns
           /\ nodes' = [nodes EXCEPT ![OldestTurn].status = "pruned"]
  <2>1. \E i \in Active("Turn") : i # lastTurn
    <3>1. Cardinality({lastTurn}) = 1 /\ Cardinality({}) = 0
      BY FS_Singleton, FS_EmptySet
    <3>2. Cardinality(Active("Turn")) > MaxTurns /\ MaxTurns \in Nat /\ MaxTurns >= 1
      BY <1>4, GraphAssumption
    <3>3. ~(0 > MaxTurns) /\ ~(1 > MaxTurns)
      BY <3>2
    <3>4. \A S : S = {} \/ S = {lastTurn} => ~(Cardinality(S) > MaxTurns)
      BY <3>1, <3>3
    <3>5. \A S, x : (\A k \in S : k = x) => S = {} \/ S = {x}
      BY Zenon
    <3> QED BY <3>2, <3>4, <3>5, Zenon
  <2>2. PICK i \in Active("Turn") : i # lastTurn
    BY <2>1
  <2>3. i \in Turns /\ Turns # {} /\ i \in Nat /\ lastTurn \in Nat
    BY <2>2, TurnsTyped
  <2>4. lastTurn \in Turns /\ nodes[lastTurn].status = "active" /\ \A k \in Turns : k <= lastTurn
    BY <1>1, <2>3 DEF LastKnown
  <2>5. i < lastTurn
    BY <2>2, <2>3, <2>4
  <2>6. Sorted(i, lastTurn)
    BY <1>1, <2>3, <2>4, <2>5 DEF InOrder
  <2>7. ~TurnBefore(lastTurn, i)
    BY <2>3, <2>4, <2>6, TurnsTyped DEF Sorted, TurnBefore
  <2>8. OldestTurn \in Turns /\ OldestTurn # lastTurn
    BY <2>2, <2>7, HasOldest, TurnsTyped
  <2>9. /\ DOMAIN nodes' = DOMAIN nodes
        /\ \A k \in DOMAIN nodes : k # OldestTurn => nodes'[k] = nodes[k]
        /\ \A k \in DOMAIN nodes : /\ nodes'[k].kind = nodes[k].kind /\ nodes'[k].at = nodes[k].at
                                   /\ nodes'[k].index = nodes[k].index
    <3>1. \A k \in DOMAIN nodes : nodes[k] \in Node
      BY TurnsTyped
    <3> QED BY <1>4, <3>1 DEF Node
  <2>10. Turns' = Turns /\ \A k \in Turns : k \in DOMAIN nodes
    BY <2>9 DEF Turns
  <2>11. InOrder' /\ Stamped'
    BY <1>1, <1>2, <2>9, <2>10 DEF InOrder, Stamped, Sorted
  <2>12. LastKnown'
    BY <1>2, <2>3, <2>4, <2>8, <2>9, <2>10 DEF LastKnown
  <2>13. ChainUnbroken'
    BY <1>1, <1>2, <2>10 DEF ChainUnbroken, Follows
  <2> QED BY <2>11, <2>12, <2>13
<1> QED BY <1>3, <1>4 DEF PruneTurns, Prunes

LEMMA ChainReloaded ==
  ASSUME TypeInv, ChainInv, Reload
  PROVE  ChainInv'
<1> SUFFICES ASSUME Monotone
             PROVE  InOrder' /\ Stamped' /\ LastKnown' /\ ChainUnbroken'
  BY DEF ChainInv
<1>1. InOrder /\ Stamped /\ LastKnown /\ ChainUnbroken
  BY DEF ChainInv
<1>2. /\ nodes' = nodes /\ edges' = edges /\ clock' > clock /\ clock' \in Nat
      /\ lastTurn' = IF Active("Turn") = {} THEN 0 ELSE Newest(Active("Turn"))
  BY GraphAssumption DEF Reload, Keep
<1>3. Turns' = Turns
  BY <1>2 DEF Turns
<1>4. InOrder' /\ ChainUnbroken'
  BY <1>1, <1>2, <1>3 DEF InOrder, Sorted, ChainUnbroken, Follows
<1>5. Stamped'
  <2>1. \A i \in Turns : nodes[i].at < clock'
    BY <1>1, <1>2, TurnsTyped DEF Stamped
  <2> QED BY <1>2, <1>3, <2>1, TurnsTyped DEF Stamped
<1>6. lastTurn' = lastTurn
  <2>1. CASE Turns = {}
    <3>1. Active("Turn") = {} /\ lastTurn = 0
      BY <1>1, <2>1, TurnsTyped DEF LastKnown
    <3> QED BY <1>2, <3>1
  <2>2. CASE Turns # {}
    <3>1. lastTurn \in Active("Turn") /\ \A i \in Active("Turn") : i <= lastTurn
      BY <1>1, <2>2, TurnsTyped DEF LastKnown
    <3>2. Active("Turn") \in SUBSET (1..Len(nodes)) /\ Len(nodes) \in Nat
      BY TurnsTyped
    <3>3. /\ Newest(Active("Turn")) \in Active("Turn")
          /\ \A j \in Active("Turn") : j <= Newest(Active("Turn"))
      BY <3>1, <3>2, HasNewest
    <3> QED BY <1>2, <3>1, <3>2, <3>3
  <2> QED BY <2>1, <2>2
<1>7. LastKnown'
  BY <1>1, <1>2, <1>3, <1>6 DEF LastKnown
<1> QED BY <1>4, <1>5, <1>7

\* Each turn continues the one before it, also across reloads and prunes, when the clock
\* does not go back (graph.ts ingestTurn, prune, fromDict).
THEOREM ChainHolds == Spec => []ChainUnbroken
<1>1. Init => TypeInv /\ ChainInv
  BY DEF Init, TypeInv, TypeOK, Labelled, Phases, Lists, ChainInv, InOrder, Stamped, LastKnown,
         Turns, ChainUnbroken
<1>2. ASSUME TypeInv, ChainInv, [Next]_vars
      PROVE  TypeInv' /\ ChainInv'
  <2>1. TypeInv'
    BY <1>2, TypeStep
  <2>2. CASE UNCHANGED vars
    <3>1. Turns' = Turns
      BY <2>2 DEF vars, Turns
    <3> QED BY <1>2, <2>1, <2>2, <3>1, ChainFrame DEF vars
  <2>3. CASE BeginTurn
    BY <1>2, <2>1, <2>3, ChainBegins
  <2>4. CASE PruneTurns
    BY <1>2, <2>1, <2>4, ChainPruned
  <2>5. CASE Reload
    BY <1>2, <2>1, <2>5, ChainReloaded
  <2>6. CASE Next /\ ~BeginTurn /\ ~PruneTurns /\ ~Reload
    <3>1. UNCHANGED <<lastTurn, turnIndex, clock>>
      BY <2>6 DEF Next, Move, PruneTurns, PruneFacts, PruneDurable, Prunes, Sentence,
           Path, Heading, Identifier, Design, Topic, Done, Open, turn
    <3> QED BY <1>2, <2>1, <2>6, <3>1, TurnsKept, ChainFrame
  <2> QED BY <1>2, <2>1, <2>2, <2>3, <2>4, <2>5, <2>6
<1>3. ChainInv => ChainUnbroken
  BY DEF ChainInv, ChainUnbroken
<1> QED BY <1>1, <1>2, <1>3, PTL DEF Spec

-----------------------------------------------------------------------------
(* The vault.  A plain text is the label of one active fact at most, so that the  *)
(* identifiers among the durable facts are no more than those that were named;    *)
(* while these are no more than are kept, prune finds another to drop.           *)

AllPlain == \A l \in vault : Plain(l)
Holds(l) == \E i \in FactsCalled(l) : nodes[i].ident /\ nodes[i].durable
Unique == \A l \in Labels : Plain(l) => \A i, j \in FactsCalled(l) : i = j
Named == AllPlain => \A i \in Active("Fact") : nodes[i].ident => nodes[i].label \in vault
There == (AllPlain /\ Cardinality(vault) <= MaxDurable) => \A l \in vault : Holds(l)
VaultInv == IsFiniteSet(vault) /\ Unique /\ Named /\ There

\* What may happen to the active facts: one is new, the others keep their labels.
LEMMA VaultOn ==
  ASSUME TypeInv, VaultInv, NEW new,
         Active("Fact")' \subseteq Active("Fact") \cup {new},
         vault \subseteq vault', IsFiniteSet(vault'),
         \A i \in Active("Fact")' : i # new =>
            /\ nodes'[i].label = nodes[i].label
            /\ AllPlain' /\ nodes'[i].ident => nodes[i].ident \/ nodes'[i].label \in vault',
         new \in Active("Fact")' =>
            /\ \A l \in Labels : (Plain(l) /\ nodes'[new].label = l) => FactsCalled(l) = {}
            /\ AllPlain' /\ nodes'[new].ident => nodes'[new].label \in vault',
         There'
  PROVE  VaultInv'
<1>1. Unique'
  <2> SUFFICES ASSUME NEW l \in Labels, Plain(l), NEW i \in FactsCalled(l)', NEW j \in FactsCalled(l)'
               PROVE  i = j
    BY DEF Unique, Plain, Whole
  <2>1. \A k \in FactsCalled(l)' : k \in Active("Fact")' /\ nodes'[k].label = l
    BY DEF FactsCalled
  <2>2. \A k \in FactsCalled(l)' : k # new => k \in FactsCalled(l)
    BY <2>1 DEF FactsCalled
  <2>3. new \in FactsCalled(l)' => FactsCalled(l) = {}
    BY <2>1
  <2>4. \A h, k \in FactsCalled(l) : h = k
    BY DEF VaultInv, Unique
  <2> QED BY <2>2, <2>3, <2>4
<1>2. AllPlain' => AllPlain
  BY DEF AllPlain, Plain, Whole
<1>3. Named'
  <2> SUFFICES ASSUME AllPlain', NEW i \in Active("Fact")', nodes'[i].ident
               PROVE  nodes'[i].label \in vault'
    BY DEF Named
  <2>1. CASE i = new
    BY <2>1
  <2>2. CASE i # new
    <3>1. i \in Active("Fact") /\ nodes'[i].label = nodes[i].label
      BY <2>2
    <3>2. nodes[i].ident => nodes[i].label \in vault
      BY <1>2, <3>1 DEF VaultInv, Named
    <3> QED BY <2>2, <3>1, <3>2
  <2> QED BY <2>1, <2>2
<1> QED BY <1>1, <1>3 DEF VaultInv

\* An identifier that is there stays, if its node does.
LEMMA HoldsOn ==
  ASSUME NEW l, NEW i \in FactsCalled(l), nodes[i].ident, nodes[i].durable,
         i \in Active("Fact")', nodes'[i].label = nodes[i].label,
         nodes'[i].ident, nodes'[i].durable
  PROVE  Holds(l)'
BY DEF Holds, FactsCalled

LEMMA FactInserted ==
  ASSUME TypeInv, TypeInv', NEW n \in Node, Insert(n), n.kind = "Fact", n.status = "active"
  PROVE  /\ Len(nodes) + 1 \notin Active("Fact")
         /\ Active("Fact")' = Active("Fact") \cup {Len(nodes) + 1}
         /\ \A i \in Active("Fact") : nodes'[i] = nodes[i]
         /\ nodes'[Len(nodes) + 1] = n
<1>1. /\ Len(nodes) \in Nat /\ DOMAIN nodes = 1..Len(nodes)
      /\ Len(nodes') \in Nat /\ DOMAIN nodes' = 1..Len(nodes')
  BY DEF TypeInv, TypeOK
<1>2. Grown(n)
  BY Growing DEF Insert
<1> QED BY <1>1, <1>2 DEF Grown, Active

LEMMA FactChanged ==
  ASSUME TypeInv, NEW i \in Active("Fact"), NEW n \in Node, nodes' = [nodes EXCEPT ![i] = n],
         n.kind = "Fact"
  PROVE  /\ Active("Fact")' = IF n.status = "active" THEN Active("Fact") ELSE Active("Fact") \ {i}
         /\ \A j \in Active("Fact") : j # i => nodes'[j] = nodes[j]
         /\ nodes'[i] = n
<1>1. nodes \in Seq(Node) /\ i \in DOMAIN nodes /\ nodes[i].kind = "Fact" /\ nodes[i].status = "active"
  BY DEF TypeInv, TypeOK, Active
<1>2. /\ DOMAIN nodes' = DOMAIN nodes /\ nodes'[i] = n
      /\ \A j \in DOMAIN nodes : j # i => nodes'[j] = nodes[j]
  BY <1>1
<1>3. Active("Fact") \subseteq DOMAIN nodes
  BY DEF Active
<1> QED BY <1>1, <1>2, <1>3 DEF Active

\* A fact that is no identifier.
LEMMA VaultInserts ==
  ASSUME TypeInv, TypeInv', VaultInv, NEW n \in Node, Insert(n), n.kind = "Fact",
         n.status = "active", ~n.ident, vault' = vault,
         \A l \in Labels : (Plain(l) /\ n.label = l) => FactsCalled(l) = {}
  PROVE  VaultInv'
<1> DEFINE new == Len(nodes) + 1
<1>1. /\ Active("Fact")' = Active("Fact") \cup {new}
      /\ \A i \in Active("Fact") : nodes'[i] = nodes[i]
      /\ nodes'[new] = n
  BY FactInserted
<1>2. AllPlain' => AllPlain
  BY DEF AllPlain, Plain, Whole
<1>3. There'
  <2> SUFFICES ASSUME AllPlain, Cardinality(vault) <= MaxDurable, NEW l \in vault
               PROVE  Holds(l)'
    BY <1>2 DEF There
  <2>1. PICK i \in FactsCalled(l) : nodes[i].ident /\ nodes[i].durable
    BY DEF VaultInv, There, Holds
  <2>2. i \in Active("Fact")
    BY DEF FactsCalled
  <2> QED BY <1>1, <2>1, <2>2, HoldsOn
<1> HIDE DEF new
<1>4. \A i \in Active("Fact")' : i # new => nodes'[i] = nodes[i]
  BY <1>1
<1>5. IsFiniteSet(vault')
  BY DEF VaultInv
<1> QED BY <1>1, <1>3, <1>4, <1>5, VaultOn

\* A fact that is made more salient, or dropped and no identifier that must stay.
LEMMA VaultChanges ==
  ASSUME TypeInv, VaultInv, NEW i \in Active("Fact"), NEW n \in Node,
         nodes' = [nodes EXCEPT ![i] = n], n.kind = "Fact", vault' = vault,
         n.label = nodes[i].label, n.ident = nodes[i].ident, n.durable = nodes[i].durable,
         n.status = "active" \/ ((AllPlain /\ Cardinality(vault) <= MaxDurable) =>
                                   ~(nodes[i].ident /\ nodes[i].durable))
  PROVE  VaultInv'
<1>1. /\ Active("Fact")' = IF n.status = "active" THEN Active("Fact") ELSE Active("Fact") \ {i}
      /\ \A j \in Active("Fact") : j # i => nodes'[j] = nodes[j]
      /\ nodes'[i] = n
  BY FactChanged
<1>2. Active("Fact")' \subseteq Active("Fact")
  BY <1>1
<1>3. \A j \in Active("Fact") : /\ nodes'[j].label = nodes[j].label
                                /\ nodes'[j].ident = nodes[j].ident
                                /\ nodes'[j].durable = nodes[j].durable
  BY <1>1
<1>4. AllPlain' => AllPlain
  BY DEF AllPlain, Plain, Whole
<1>5. There'
  <2> SUFFICES ASSUME AllPlain, Cardinality(vault) <= MaxDurable, NEW l \in vault
               PROVE  Holds(l)'
    BY <1>4 DEF There
  <2>1. PICK j \in FactsCalled(l) : nodes[j].ident /\ nodes[j].durable
    BY DEF VaultInv, There, Holds
  <2>2. j \in Active("Fact")
    BY DEF FactsCalled
  <2>3. j \in Active("Fact")'
    BY <1>1, <2>1, <2>2
  <2> QED BY <1>3, <2>1, <2>2, <2>3, HoldsOn
<1>6. IsFiniteSet(vault')
  BY DEF VaultInv
<1>7. PICK new : new \notin Active("Fact")'
  <2>1. Active("Fact")' \subseteq 1..Len(nodes) /\ Len(nodes) \in Nat
    BY <1>2 DEF Active, TypeInv, TypeOK
  <2>2. Len(nodes) + 1 \notin Active("Fact")'
    BY <2>1
  <2> QED BY <2>2
<1> QED BY <1>2, <1>3, <1>5, <1>6, <1>7, VaultOn

\* An identifier is named.
LEMMA VaultIdentifies ==
  ASSUME TypeInv, TypeInv', VaultInv, NEW l \in Labels, Identifier(l)
  PROVE  VaultInv'
<1>1. vault' = vault \cup {l} /\ l \in vault' /\ vault \subseteq vault'
  BY DEF Identifier
<1>2. /\ IsFiniteSet(vault') /\ Cardinality(vault') \in Nat /\ Cardinality(vault) \in Nat
      /\ Cardinality(vault) <= Cardinality(vault')
  BY <1>1, FS_AddElement, FS_CardinalityType DEF VaultInv
<1>3. AllPlain' => AllPlain /\ Plain(l)
  BY <1>1 DEF AllPlain, Plain, Whole
<1>4. MaxDurable \in Nat /\ Cut[l] \in Labels /\ clock \in Nat
  BY GraphAssumption DEF TypeInv, TypeOK
<1>5. ASSUME AllPlain', Cardinality(vault') <= MaxDurable, NEW m \in vault
      PROVE  \E i \in FactsCalled(m) : nodes[i].ident /\ nodes[i].durable
  BY <1>2, <1>3, <1>4, <1>5 DEF VaultInv, There, Holds
<1>6. Salience[phase] \subseteq Nat
  BY GraphAssumption DEF Identifier, Takes, Lists
<1>7. CASE FactsCalled(l) = {}
  <2>1. PICK sal \in Nat : Insert([Fact(Cut[l], NoText, sal) EXCEPT !.ident = TRUE])
    BY <1>6, <1>7 DEF Identifier
  <2> DEFINE n == [Fact(Cut[l], NoText, sal) EXCEPT !.ident = TRUE]
             new == Len(nodes) + 1
  <2>2. n \in Node /\ n.kind = "Fact" /\ n.status = "active" /\ n.label = Cut[l] /\ n.ident /\ n.durable
    BY <1>4 DEF Fact, Blank, Node
  <2> HIDE DEF n
  <2>3. Insert(n)
    BY <2>1 DEF n
  <2>4. /\ Active("Fact")' = Active("Fact") \cup {new}
        /\ \A i \in Active("Fact") : nodes'[i] = nodes[i]
        /\ nodes'[new] = n
    BY <2>2, <2>3, FactInserted
  <2> HIDE DEF new
  <2>5. AllPlain' => Cut[l] = l
    BY <1>3 DEF Plain
  <2>6. There'
    <3> SUFFICES ASSUME AllPlain', Cardinality(vault') <= MaxDurable, NEW m \in vault'
                 PROVE  Holds(m)'
      BY DEF There
    <3>1. CASE m = l
      <4>1. new \in FactsCalled(m)' /\ nodes'[new].ident /\ nodes'[new].durable
        BY <2>2, <2>4, <2>5, <3>1 DEF FactsCalled
      <4> QED BY <4>1 DEF Holds
    <3>2. CASE m \in vault
      <4>1. PICK i \in FactsCalled(m) : nodes[i].ident /\ nodes[i].durable
        BY <1>5, <3>2
      <4>2. i \in Active("Fact")
        BY DEF FactsCalled
      <4> QED BY <2>4, <4>1, <4>2, HoldsOn
    <3> QED BY <1>1, <3>1, <3>2
  <2>7. \A m \in Labels : (Plain(m) /\ nodes'[new].label = m) => FactsCalled(m) = {}
    BY <1>7, <2>2, <2>4 DEF Plain, Whole
  <2>8. AllPlain' /\ nodes'[new].ident => nodes'[new].label \in vault'
    BY <1>1, <2>2, <2>4, <2>5
  <2>9. \A i \in Active("Fact")' : i # new => nodes'[i] = nodes[i]
    BY <2>4
  <2> QED BY <1>1, <1>2, <2>4, <2>6, <2>7, <2>8, <2>9, VaultOn
<1>8. CASE FactsCalled(l) # {}
  <2> DEFINE i == Newest(FactsCalled(l))
             s(sal) == IF nodes[i].sal < sal THEN sal ELSE nodes[i].sal
             n(sal) == [nodes[i] EXCEPT !.sal = s(sal), !.ident = TRUE, !.durable = TRUE]
  <2>1. i \in FactsCalled(l) /\ i \in Active("Fact") /\ i \in 1..Len(nodes) /\ nodes[i] \in Node
        /\ nodes \in Seq(Node) /\ nodes[i].label = l
    <3>1. i \in FactsCalled(l) /\ i \in 1..Len(nodes)
      BY <1>8, LookupsFind
    <3> QED BY <3>1 DEF FactsCalled, TypeInv, TypeOK
  <2>2. PICK sal \in Nat :
          nodes' = [nodes EXCEPT ![i].sal = IF @ < sal THEN sal ELSE @,
                                 ![i].ident = TRUE, ![i].durable = TRUE]
    BY <1>6, <1>8 DEF Identifier
  <2>3. /\ n(sal) \in Node /\ n(sal).kind = nodes[i].kind /\ n(sal).status = nodes[i].status
        /\ n(sal).label = l /\ n(sal).ident /\ n(sal).durable
    BY <2>1 DEF Node
  <2>4. nodes' = [nodes EXCEPT ![i] = n(sal)]
    BY <2>1, <2>2
  <2>5. n(sal).kind = "Fact" /\ n(sal).status = "active"
    BY <2>1, <2>3 DEF Active
  <2> HIDE DEF i, n
  <2>6. /\ Active("Fact")' = Active("Fact")
        /\ \A j \in Active("Fact") : j # i => nodes'[j] = nodes[j]
        /\ nodes'[i] = n(sal)
    BY <2>1, <2>3, <2>4, <2>5, FactChanged
  <2>7. There'
    <3> SUFFICES ASSUME AllPlain', Cardinality(vault') <= MaxDurable, NEW m \in vault'
                 PROVE  Holds(m)'
      BY DEF There
    <3>1. CASE m = l
      <4>1. i \in FactsCalled(m)' /\ nodes'[i].ident /\ nodes'[i].durable
        BY <2>1, <2>3, <2>6, <3>1 DEF FactsCalled
      <4> QED BY <4>1 DEF Holds
    <3>2. CASE m \in vault
      <4>1. PICK j \in FactsCalled(m) : nodes[j].ident /\ nodes[j].durable
        BY <1>5, <3>2
      <4>2. j \in Active("Fact")'
        BY <2>6 DEF FactsCalled
      <4>3. nodes'[j].label = nodes[j].label /\ nodes'[j].ident /\ nodes'[j].durable
        BY <2>1, <2>3, <2>6, <4>1, <4>2
      <4> QED BY <4>1, <4>2, <4>3, HoldsOn
    <3> QED BY <1>1, <3>1, <3>2
  <2>8. \A j \in Active("Fact")' :
          /\ nodes'[j].label = nodes[j].label
          /\ AllPlain' /\ nodes'[j].ident => nodes[j].ident \/ nodes'[j].label \in vault'
    BY <1>1, <2>1, <2>3, <2>6
  <2>9. PICK new : new \notin Active("Fact")'
    <3>1. Active("Fact") \subseteq 1..Len(nodes) /\ Len(nodes) \in Nat
      BY DEF Active, TypeInv, TypeOK
    <3>2. Len(nodes) + 1 \notin Active("Fact")'
      BY <2>6, <3>1
    <3> QED BY <3>2
  <2> QED BY <1>1, <1>2, <2>6, <2>7, <2>8, <2>9, VaultOn
<1> QED BY <1>7, <1>8

\* While there is room for all identifiers, prune drops another fact.
LEMMA VictimIsOther ==
  ASSUME TypeInv, VaultInv, Cardinality(Durable) > MaxDurable, AllPlain,
         Cardinality(vault) <= MaxDurable, Victim \in Spare
  PROVE  ~nodes[Victim].ident
<1> DEFINE I == {i \in Durable : nodes[i].ident}
           name == [i \in I |-> nodes[i].label]
<1>1. I \subseteq Active("Fact") /\ Durable \subseteq Active("Fact")
  BY DEF Durable
<1>2. \A i \in I : nodes[i].label \in vault
  BY <1>1 DEF VaultInv, Named
<1>3. \A i, j \in I : nodes[i].label = nodes[j].label => i = j
  <2> SUFFICES ASSUME NEW i \in I, NEW j \in I, nodes[i].label = nodes[j].label
               PROVE  i = j
    OBVIOUS
  <2>1. nodes[i].label \in Labels /\ Plain(nodes[i].label)
    BY <1>2 DEF AllPlain, TypeInv, TypeOK
  <2>2. i \in FactsCalled(nodes[i].label) /\ j \in FactsCalled(nodes[i].label)
    BY <1>1 DEF FactsCalled
  <2> QED BY <2>1, <2>2 DEF VaultInv, Unique
<1>4. name \in Injection(I, vault)
  BY <1>2, <1>3 DEF Injection, IsInjective
<1> HIDE DEF I, name
<1>5. IsFiniteSet(I) /\ Cardinality(I) <= Cardinality(vault)
  BY <1>4, FS_Injection DEF VaultInv
<1>6. Cardinality(I) \in Nat /\ Cardinality(vault) \in Nat /\ MaxDurable \in Nat
  BY <1>5, FS_CardinalityType, GraphAssumption DEF VaultInv
<1>7. IsFiniteSet(Durable) /\ Cardinality(Durable) \in Nat
  <2>1. Durable \subseteq 1..Len(nodes) /\ Len(nodes) \in Nat
    BY DEF Durable, Active, TypeInv, TypeOK
  <2>2. IsFiniteSet(1..Len(nodes))
    BY <2>1, FS_Interval
  <2>3. IsFiniteSet(Durable)
    BY <2>1, <2>2, FS_Subset
  <2> QED BY <2>3, FS_CardinalityType
<1>8. I # Durable
  BY <1>5, <1>6, <1>7
<1>9. \E i \in Durable : ~nodes[i].ident
  BY <1>8 DEF I
<1>10. Spare \subseteq {i \in Durable : ~nodes[i].ident}
  BY <1>9 DEF Spare
<1> QED BY <1>10

LEMMA VaultPrunes ==
  ASSUME TypeInv, TypeInv', VaultInv, PruneFacts \/ PruneDurable
  PROVE  VaultInv'
<1>1. vault' = vault
  BY DEF PruneFacts, PruneDurable, Prunes, history
<1>2. /\ \A i \in Active("Fact") : nodes[i] \in Node /\ nodes[i].kind = "Fact"
      /\ nodes \in Seq(Node) /\ Active("Fact") \subseteq DOMAIN nodes
  BY DEF Active, TypeInv, TypeOK
<1>3. ASSUME NEW i \in Active("Fact"), nodes' = [nodes EXCEPT ![i].status = "pruned"],
             (AllPlain /\ Cardinality(vault) <= MaxDurable) =>
                ~(nodes[i].ident /\ nodes[i].durable)
      PROVE  VaultInv'
  <2> DEFINE n == [nodes[i] EXCEPT !.status = "pruned"]
  <2>1. /\ n \in Node /\ n.kind = "Fact" /\ n.label = nodes[i].label
        /\ n.ident = nodes[i].ident /\ n.durable = nodes[i].durable
    BY <1>2 DEF Node
  <2>2. nodes' = [nodes EXCEPT ![i] = n]
    BY <1>2, <1>3
  <2> HIDE DEF n
  <2> QED BY <1>1, <1>3, <2>1, <2>2, VaultChanges
<1>5. MaxFacts \in Nat /\ MaxDurable \in Nat
  BY GraphAssumption
<1>6. CASE nodes' = nodes
  <2>1. Active("Fact")' = Active("Fact") /\ AllPlain' = AllPlain
    BY <1>1, <1>6 DEF Active, AllPlain, Plain, Whole
  <2> QED BY <1>1, <1>6, <2>1 DEF VaultInv, Unique, Named, There, Holds, FactsCalled, Plain, Whole
<1>7. CASE Cardinality(Facts) > MaxFacts /\ nodes' = [nodes EXCEPT ![OldestFact].status = "pruned"]
  <2>1. Facts # {}
    BY <1>5, <1>7, FS_EmptySet
  <2>2. OldestFact \in Active("Fact") /\ ~nodes[OldestFact].durable
    BY <2>1, HasOldest DEF Facts
  <2> QED BY <1>3, <1>7, <2>2
<1>8. CASE Cardinality(Durable) > MaxDurable /\ nodes' = [nodes EXCEPT ![Victim].status = "pruned"]
  <2>1. Durable # {}
    BY <1>5, <1>8, FS_EmptySet
  <2>2. Victim \in Active("Fact") /\ Victim \in Spare
    BY <2>1, HasOldest DEF Durable
  <2> QED BY <1>3, <1>8, <2>2, VictimIsOther
<1> QED BY <1>6, <1>7, <1>8 DEF PruneFacts, PruneDurable, Prunes

\* What does not touch a fact, nor names an identifier.
LEMMA VaultFrame ==
  ASSUME VaultInv, vault' = vault, Of("Fact")' = Of("Fact"), \A i \in Of("Fact") : nodes'[i] = nodes[i]
  PROVE  VaultInv'
<1>1. /\ Active("Fact") = {i \in Of("Fact") : nodes[i].status = "active"}
      /\ Active("Fact")' = {i \in Of("Fact")' : nodes'[i].status = "active"}
  BY DEF Active, Of
<1>2. Active("Fact")' = Active("Fact") /\ \A i \in Active("Fact") : nodes'[i] = nodes[i]
  BY <1>1
<1>3. \A l : FactsCalled(l)' = FactsCalled(l) /\ FactsCalled(l) \subseteq Active("Fact")
  BY <1>2 DEF FactsCalled
<1>4. AllPlain' = AllPlain /\ \A l : Holds(l)' = Holds(l)
  BY <1>2, <1>3 DEF AllPlain, Holds, Plain, Whole
<1> QED BY <1>2, <1>3, <1>4 DEF VaultInv, Unique, Named, There, Plain, Whole

\* The finds that are no identifiers.
LEMMA VaultFinds ==
  ASSUME TypeInv, TypeInv', VaultInv, NEW l \in Labels,
         Sentence(l) \/ Path(l) \/ Heading(l) \/ Design(l)
  PROVE  VaultInv'
<1>1. vault' = vault
  BY DEF Sentence, Path, Heading, Design, history
<1>2. phase \in Lists => Salience[phase] \subseteq Nat
  BY GraphAssumption
<1>3. Cut[l] \in Labels /\ clock \in Nat
  BY GraphAssumption DEF TypeInv, TypeOK
<1>4. CASE nodes' = nodes
  <2>1. Of("Fact")' = Of("Fact")
    BY <1>4 DEF Of
  <2> QED BY <1>1, <1>4, <2>1, VaultFrame
<1>5. ASSUME NEW m \in Labels, NEW s \in Labels \cup {NoText}, NEW sal \in Nat, Insert(Fact(m, s, sal)),
             \A k \in Labels : (Plain(k) /\ m = k) => FactsCalled(k) = {}
      PROVE  VaultInv'
  <2> DEFINE n == Fact(m, s, sal)
  <2>1. n \in Node /\ n.kind = "Fact" /\ n.status = "active" /\ ~n.ident /\ n.label = m
    BY <1>3 DEF Fact, Blank, Node
  <2>2. Insert(n)
    BY <1>5
  <2> HIDE DEF n
  <2> QED BY <1>1, <1>5, <2>1, <2>2, VaultInserts
<1>6. ASSUME NEW sal \in Nat, Raise(l, sal), FactsCalled(l) # {}
      PROVE  VaultInv'
  <2> DEFINE i == Newest(FactsCalled(l))
             s == IF nodes[i].sal < sal THEN sal ELSE nodes[i].sal
             n == [nodes[i] EXCEPT !.sal = s]
  <2>1. i \in Active("Fact") /\ nodes[i] \in Node /\ nodes[i].kind = "Fact" /\ nodes[i].status = "active"
    <3>1. i \in FactsCalled(l) /\ i \in 1..Len(nodes)
      BY <1>6, LookupsFind
    <3> QED BY <3>1 DEF FactsCalled, Active, TypeInv, TypeOK
  <2>2. /\ n \in Node /\ n.kind = nodes[i].kind /\ n.status = nodes[i].status
        /\ n.label = nodes[i].label /\ n.ident = nodes[i].ident /\ n.durable = nodes[i].durable
    BY <2>1 DEF Node
  <2>3. nodes' = [nodes EXCEPT ![i] = n]
    BY <1>6 DEF Raise
  <2> HIDE DEF i, n
  <2> QED BY <1>1, <2>1, <2>2, <2>3, VaultChanges
<1>7. \A k \in Labels : (Plain(k) /\ Cut[l] = k) => l = k
  BY DEF Plain, Whole
<1>8. CASE Sentence(l)
  <2> DEFINE n == [Blank EXCEPT !.label = Cut[l], !.summary = l]
  <2>1. n \in Node /\ n.kind = "Fact" /\ n.status = "active" /\ ~n.ident /\ n.label = Cut[l]
    BY NewNodes DEF Blank
  <2>2. Insert(n) /\ l \in Found["sentences"]
    BY <1>8 DEF Sentence
  <2> HIDE DEF n
  <2>3. \A k \in Labels : (Plain(k) /\ n.label = k) => FactsCalled(k) = {}
    BY <1>7, <2>1, <2>2 DEF Plain
  <2> QED BY <1>1, <2>1, <2>2, <2>3, VaultInserts
<1>9. CASE Path(l)
  <2>1. PICK sal \in Nat : IF FactsCalled(l) = {} THEN Insert(Fact(l, NoText, sal))
                           ELSE Raise(l, sal) /\ UNCHANGED edges
    BY <1>2, <1>3, <1>9 DEF Path, Takes, Lists
  <2> QED BY <1>5, <1>6, <2>1
<1>10. CASE Heading(l)
  <2>1. PICK sal \in Nat : IF FactsCalled(l) = {} THEN Insert(Fact(Cut[l], NoText, sal))
                           ELSE Raise(l, sal) /\ UNCHANGED edges
    BY <1>2, <1>3, <1>10 DEF Heading, Takes, Lists
  <2> QED BY <1>3, <1>5, <1>6, <1>7, <2>1
<1>11. CASE Design(l)
  <2>1. \/ nodes' = nodes
        \/ \E sal \in Nat : Insert(Fact(Cut[l], l, sal))
    BY <1>2, <1>3, <1>11 DEF Design, Takes, Lists, Keep
  <2>2. l \in Found["designs"]
    BY <1>11 DEF Design, Takes
  <2>3. \A k \in Labels : (Plain(k) /\ Cut[l] = k) => FactsCalled(k) = {}
    BY <1>7, <2>2 DEF Plain
  <2> QED BY <1>3, <1>4, <1>5, <2>1, <2>3
<1> QED BY <1>8, <1>9, <1>10, <1>11

\* Identifiers are not lost to paths, headings and decisions (graph.ts prune): while no more
\* of them were named than durable facts are kept, all are there.
THEOREM IdentifiersStay == Spec => []VaultKept
<1>1. Init => TypeInv /\ VaultInv
  <2> SUFFICES ASSUME Init PROVE TypeInv /\ VaultInv
    OBVIOUS
  <2>1. TypeInv
    BY DEF Init, TypeInv, TypeOK, Labelled, Phases, Lists
  <2>2. vault = {} /\ Active("Fact") = {} /\ IsFiniteSet({})
    BY FS_EmptySet DEF Init, Active
  <2> QED BY <2>1, <2>2 DEF VaultInv, Unique, Named, There, FactsCalled
<1>2. ASSUME TypeInv, VaultInv, [Next]_vars
      PROVE  TypeInv' /\ VaultInv'
  <2>1. TypeInv'
    BY <1>2, TypeStep
  <2>2. ASSUME nodes' = nodes, vault' = vault PROVE VaultInv'
    <3>1. Of("Fact")' = Of("Fact")
      BY <2>2 DEF Of
    <3> QED BY <1>2, <2>2, <3>1, VaultFrame
  <2>3. ASSUME Only({"Turn"}) \/ \E l \in Labels : Topic(l) \/ Done(l) \/ Open(l), vault' = vault
        PROVE  VaultInv'
    <3>1. Of("Fact")' = Of("Fact") /\ \A i \in Of("Fact") : nodes'[i] = nodes[i]
      BY <1>2, <2>1, <2>3, KindKept DEF Other
    <3> QED BY <1>2, <2>3, <3>1, VaultFrame
  <2>4. CASE BeginTurn
    <3>1. Only({"Turn"})
      BY <1>2, <2>4, TurnStep
    <3>2. vault' = vault
      BY <2>4 DEF BeginTurn, history
    <3> QED BY <2>1, <2>3, <3>1, <3>2
  <2>5. CASE PruneTurns
    <3>1. Only({"Turn"})
      BY <1>2, <2>5, PruneStep
    <3>2. vault' = vault
      BY <2>5 DEF PruneTurns, Prunes, history
    <3> QED BY <2>1, <2>3, <3>1, <3>2
  <2>6. CASE PruneFacts \/ PruneDurable
    BY <1>2, <2>1, <2>6, VaultPrunes
  <2>7. CASE Move \/ Reload \/ UNCHANGED vars
    <3>1. nodes' = nodes /\ vault' = vault
      BY <2>7 DEF Move, Reload, Keep, history, vars
    <3> QED BY <2>1, <2>2, <3>1
  <2>8. ASSUME NEW l \in Labels, Topic(l) \/ Done(l) \/ Open(l) PROVE VaultInv'
    BY <2>3, <2>8 DEF Topic, Done, Open, history
  <2>9. ASSUME NEW l \in Labels, Sentence(l) \/ Path(l) \/ Heading(l) \/ Design(l) PROVE VaultInv'
    BY <1>2, <2>1, <2>9, VaultFinds
  <2>10. ASSUME NEW l \in Labels, Identifier(l) PROVE VaultInv'
    BY <1>2, <2>1, <2>10, VaultIdentifies
  <2> QED BY <1>2, <2>1, <2>4, <2>5, <2>6, <2>7, <2>8, <2>9, <2>10 DEF Next
<1>3. TypeInv /\ VaultInv => VaultKept
  <2> SUFFICES ASSUME VaultInv, Cardinality(vault) <= MaxDurable, \A l \in vault : Plain(l), NEW l \in vault
               PROVE  \E i \in Durable : nodes[i].ident /\ nodes[i].label = l
    BY DEF VaultKept
  <2>1. Holds(l)
    BY DEF VaultInv, There, AllPlain
  <2> QED BY <2>1 DEF Holds, FactsCalled, Durable
<1> QED BY <1>1, <1>2, <1>3, PTL DEF Spec
=============================================================================
