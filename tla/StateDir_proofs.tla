---------------------------- MODULE StateDir_proofs ----------------------------
(* Proofs about the state directory, whichever front end works on it: the types *)
(* of what an access leaves, and that for one process at a time the store is a  *)
(* log (StateLog).                                                             *)
EXTENDS StateDir, FiniteSetTheorems, SequenceTheorems, TLAPS

-----------------------------------------------------------------------------
(* Types.  What a process is doing decides which of its fields are in use.      *)

Stepping == {"prev", "blob", "blob half", "agent", "new agent", "row", "reload", "spans"}
Sound(w) ==
  /\ w.for = "flush" => w.snap = "always"
  /\ w.at \in Stepping => w.for = "step"
  /\ w.at = "latest" => w.for = "flush"
  /\ (w.at # "idle" /\ w.for = "step") => w.turn \in Turns
WorkOK == \A p \in Procs : Sound(work[p])
\* Where a step has read the latest state, and has not written its own row yet.
After == {"graph", "graph half", "snap", "snap half", "blob", "blob half", "agent",
          "new agent", "row"}

LEMMA TimesHasOne == 1 \in Times /\ Times \subseteq Nat
BY DirAssumption DEF Times

LEMMA IdleType == \A a \in Agents : Idle(a) \in Work
BY DirAssumption, TimesHasOne DEF Idle, Work, Places

LEMMA DirTypes == DirInit => TypeOK /\ WorkOK
<1> SUFFICES ASSUME DirInit PROVE TypeOK /\ WorkOK
  OBVIOUS
<1>1. PICK a \in Agents : work = [p \in Procs |-> Idle(a)]
  BY DEF DirInit
<1>2. work \in [Procs -> Work]
  BY <1>1, IdleType
<1>3. WorkOK
  BY <1>1 DEF WorkOK, Sound, Idle, Stepping
<1>4. NoFile \in File
  BY DEF NoFile, File
<1> QED BY <1>2, <1>3, <1>4 DEF DirInit, TypeOK

\* A process moves on: only its place changes.
LEMMA GoWork ==
  ASSUME TypeOK, NEW p \in Procs, NEW place \in Places, Go(p, place)
  PROVE  /\ work' \in [Procs -> Work]
         /\ \A q \in Procs \ {p} : work'[q] = work[q]
         /\ work'[p] = [work[p] EXCEPT !.at = place]
<1>1. work \in [Procs -> Work]
  BY DEF TypeOK
<1>2. [work[p] EXCEPT !.at = place] \in Work
  BY <1>1 DEF Work
<1> QED BY <1>1, <1>2 DEF Go

\* Any other change of one process's work.
LEMMA SetWork ==
  ASSUME TypeOK, NEW p \in Procs, NEW w \in Work, work' = [work EXCEPT ![p] = w]
  PROVE  /\ work' \in [Procs -> Work]
         /\ \A q \in Procs \ {p} : work'[q] = work[q]
         /\ work'[p] = w
BY DEF TypeOK

LEMMA SoundStep ==
  ASSUME WorkOK, NEW p \in Procs, Sound(work'[p]),
         \A q \in Procs \ {p} : work'[q] = work[q]
  PROVE  WorkOK'
BY DEF WorkOK

LEMMA RowType ==
  ASSUME TypeOK, WorkOK, NEW p \in Procs, At(p, "row")
  PROVE  RowOf(work[p]) \in Row
<1>1. work[p] \in Work /\ Sound(work[p])
  BY DEF TypeOK, WorkOK
<1>2. work[p].turn \in Turns
  BY <1>1 DEF At, Sound, Stepping
<1> QED BY <1>1, <1>2 DEF RowOf, Row, Work

LEMMA LatestType ==
  ASSUME TypeOK, NEW a \in Agents, NEW r \in Latest(a)
  PROVE  /\ r \in Row /\ r \in rows /\ r.agent = a /\ r.t \in Times /\ r.by \in Turns
         /\ BlobOf(r) \in File
<1>1. r \in Row /\ r \in rows /\ r.agent = a /\ r.t \in Times /\ r.by \in Turns
  BY DEF TypeOK, Latest, RowsOf, Row
<1>2. <<r.agent, r.t>> \in Agents \X Times
  BY <1>1
<1> QED BY <1>1, <1>2 DEF TypeOK, BlobOf

LEMMA TypeReadPrev ==
  ASSUME TypeOK, WorkOK, NEW p \in Procs, ReadPrev(p)
  PROVE  TypeOK' /\ WorkOK'
<1> DEFINE w == work[p]
<1>1. w \in Work /\ Sound(w) /\ w.at = "prev" /\ w.for = "step" /\ w.turn \in Turns
      /\ w.agent \in Agents
  BY DEF TypeOK, WorkOK, ReadPrev, At, Sound, Stepping, Work
<1>2. CASE /\ RowsOf(w.agent) = {}
           /\ work' = [work EXCEPT ![p].at = "graph", ![p].prev = 0, ![p].t = 1,
                                   ![p].C = {w.turn}, ![p].mem = @ \cup {w.turn}]
  <2> DEFINE v == [w EXCEPT !.at = "graph", !.prev = 0, !.t = 1, !.C = {w.turn},
                            !.mem = @ \cup {w.turn}]
  <2>1. v \in Work
    BY <1>1, TimesHasOne DEF Work, Places
  <2>2. work' = [work EXCEPT ![p] = v]
    BY <1>2
  <2>3. Sound(v)
    BY <1>1 DEF Sound, Stepping, Work
  <2> HIDE DEF v
  <2>4. work' \in [Procs -> Work] /\ work'[p] = v /\ \A q \in Procs \ {p} : work'[q] = work[q]
    BY <2>1, <2>2, SetWork
  <2>5. WorkOK'
    BY <2>3, <2>4, SoundStep
  <2> QED BY <2>4, <2>5 DEF ReadPrev, TypeOK, disk
<1>3. ASSUME NEW r \in Latest(w.agent), BlobOf(r).is # "whole", Go(p, "raised")
      PROVE  TypeOK' /\ WorkOK'
  <2>1. /\ work' \in [Procs -> Work] /\ work'[p] = [w EXCEPT !.at = "raised"]
        /\ \A q \in Procs \ {p} : work'[q] = work[q]
    BY <1>3, GoWork DEF Places
  <2>2. Sound(work'[p])
    BY <1>1, <2>1 DEF Sound, Stepping, Work
  <2>3. WorkOK'
    BY <2>1, <2>2, SoundStep
  <2> QED BY <2>1, <2>3 DEF ReadPrev, TypeOK, disk
<1>4. ASSUME NEW r \in Latest(w.agent), r.t + 1 \in Times,
             work' = [work EXCEPT ![p].at = "graph", ![p].prev = r.by, ![p].t = r.t + 1,
                                  ![p].C = BlobOf(r).holds \cup {w.turn},
                                  ![p].mem = @ \cup {w.turn}]
      PROVE  TypeOK' /\ WorkOK'
  <2> DEFINE v == [w EXCEPT !.at = "graph", !.prev = r.by, !.t = r.t + 1,
                            !.C = BlobOf(r).holds \cup {w.turn}, !.mem = @ \cup {w.turn}]
  <2>0. r.by \in Turns /\ BlobOf(r).holds \in SUBSET Turns
    BY <1>1, LatestType DEF File
  <2>1. v \in Work
    BY <1>1, <1>4, <2>0 DEF Work, Places
  <2>2. work' = [work EXCEPT ![p] = v]
    BY <1>4
  <2>3. Sound(v)
    BY <1>1 DEF Sound, Stepping, Work
  <2> HIDE DEF v
  <2>4. work' \in [Procs -> Work] /\ work'[p] = v /\ \A q \in Procs \ {p} : work'[q] = work[q]
    BY <2>1, <2>2, SetWork
  <2>5. WorkOK'
    BY <2>3, <2>4, SoundStep
  <2> QED BY <2>4, <2>5 DEF ReadPrev, TypeOK, disk
<1> QED BY <1>2, <1>3, <1>4 DEF ReadPrev

LEMMA TypeReadLatest ==
  ASSUME TypeOK, WorkOK, NEW p \in Procs, ReadLatest(p)
  PROVE  TypeOK' /\ WorkOK'
<1> DEFINE w == work[p]
<1>1. w \in Work /\ Sound(w) /\ w.at = "latest" /\ w.for = "flush" /\ w.agent \in Agents
  BY DEF TypeOK, WorkOK, ReadLatest, At, Sound, Work
<1>2. ASSUME NEW t \in Times, work' = [work EXCEPT ![p].at = "graph", ![p].t = t]
      PROVE  TypeOK' /\ WorkOK'
  <2> DEFINE v == [w EXCEPT !.at = "graph", !.t = t]
  <2>1. v \in Work
    BY <1>1 DEF Work, Places
  <2>2. work' = [work EXCEPT ![p] = v]
    BY <1>2
  <2>3. Sound(v)
    BY <1>1 DEF Sound, Stepping, Work
  <2> HIDE DEF v
  <2>4. work' \in [Procs -> Work] /\ work'[p] = v /\ \A q \in Procs \ {p} : work'[q] = work[q]
    BY <2>1, <2>2, SetWork
  <2>5. WorkOK'
    BY <2>3, <2>4, SoundStep
  <2> QED BY <2>4, <2>5 DEF ReadLatest, TypeOK, disk
<1>3. (IF w.index = 0 THEN 1 ELSE w.index) \in Times
  BY <1>1, TimesHasOne, DirAssumption DEF Work, Times
<1>4. ASSUME Go(p, "raised") PROVE TypeOK' /\ WorkOK'
  <2>1. /\ work' \in [Procs -> Work] /\ work'[p] = [w EXCEPT !.at = "raised"]
        /\ \A q \in Procs \ {p} : work'[q] = work[q]
    BY <1>4, GoWork DEF Places
  <2>2. Sound(work'[p])
    BY <1>1, <2>1 DEF Sound, Stepping, Work
  <2>3. WorkOK'
    BY <2>1, <2>2, SoundStep
  <2> QED BY <2>1, <2>3 DEF ReadLatest, TypeOK, disk
<1>5. \A r \in Latest(w.agent) : r.t \in Times
  BY <1>1, LatestType
<1> QED BY <1>2, <1>3, <1>4, <1>5 DEF ReadLatest

\* The accesses that move on and write one thing.
LEMMA TypeMoves ==
  ASSUME TypeOK, WorkOK, NEW p \in Procs,
         \/ TruncateGraph(p) \/ WriteGraph(p) \/ TruncateSnap(p) \/ WriteSnap(p)
         \/ TruncateBlob(p) \/ WriteBlob(p) \/ SelectAgent(p) \/ InsertAgent(p)
         \/ InsertRow(p) \/ Reload(p) \/ WriteSpans(p) \/ Raises(p)
  PROVE  TypeOK' /\ WorkOK'
<1> DEFINE w == work[p]
<1>1. w \in Work /\ Sound(w)
  BY DEF TypeOK, WorkOK
<1>2. w.agent \in Agents /\ w.t \in Times /\ w.C \in SUBSET Turns /\ w.mem \in SUBSET Turns
      /\ w.for \in {"step", "flush"}
  BY <1>1 DEF Work
<1>3. Whole(w.mem) \in File /\ Whole(w.C) \in File /\ TornFile \in File
  BY <1>2 DEF Whole, TornFile, File
<1>4. PICK place \in Places : Go(p, place) /\ Sound([w EXCEPT !.at = place])
  <2>1. CASE TruncateGraph(p)
    BY <1>1, <2>1 DEF TruncateGraph, Places, Sound, Stepping, At, Work
  <2>2. CASE WriteGraph(p)
    BY <1>1, <1>2, <2>2 DEF WriteGraph, Places, Sound, Stepping, At, Work, Versioned
  <2>3. CASE TruncateSnap(p)
    BY <1>1, <2>3 DEF TruncateSnap, Places, Sound, Stepping, At, Work
  <2>4. CASE WriteSnap(p)
    BY <1>1, <1>2, <2>4 DEF WriteSnap, Places, Sound, Stepping, At, Work
  <2>5. CASE TruncateBlob(p)
    BY <1>1, <2>5 DEF TruncateBlob, Places, Sound, Stepping, At, Work
  <2>6. CASE WriteBlob(p)
    BY <1>1, <2>6 DEF WriteBlob, Places, Sound, Stepping, At, Work
  <2>7. CASE SelectAgent(p)
    BY <1>1, <2>7 DEF SelectAgent, Places, Sound, Stepping, At, Work
  <2>8. CASE InsertAgent(p)
    BY <1>1, <2>8 DEF InsertAgent, Places, Sound, Stepping, At, Work
  <2>9. CASE InsertRow(p)
    BY <1>1, <2>9 DEF InsertRow, Places, Sound, Stepping, At, Work
  <2>10. CASE Reload(p)
    BY <1>1, <2>10 DEF Reload, Places, Sound, Stepping, At, Work
  <2>11. CASE WriteSpans(p)
    BY <1>1, <2>11 DEF WriteSpans, Places, Sound, Stepping, At, Work
  <2>12. CASE Raises(p)
    BY <1>1, <2>12 DEF Raises, Places, Sound, Stepping, At, Work
  <2> QED BY <2>1, <2>2, <2>3, <2>4, <2>5, <2>6, <2>7, <2>8, <2>9, <2>10, <2>11, <2>12
<1>5. /\ work' \in [Procs -> Work] /\ work'[p] = [w EXCEPT !.at = place]
      /\ \A q \in Procs \ {p} : work'[q] = work[q]
  BY <1>4, GoWork
<1>6. WorkOK'
  BY <1>4, <1>5, SoundStep
<1>7. known' \subseteq Agents /\ rows' \subseteq Row
  BY <1>2, RowType DEF TypeOK, disk, TruncateGraph, WriteGraph, TruncateSnap, WriteSnap, TruncateBlob,
     WriteBlob, SelectAgent, InsertAgent, InsertRow, Reload, WriteSpans, Raises
<1>8. graph' \in [Agents -> File]
  BY <1>3 DEF TypeOK, disk, TruncateGraph, WriteGraph, TruncateSnap, WriteSnap, TruncateBlob,
     WriteBlob, SelectAgent, InsertAgent, InsertRow, Reload, WriteSpans, Raises
<1>9. blobs' \in [Agents \X Times -> File] /\ snaps' \in [Agents \X Times -> File]
  BY <1>3 DEF TypeOK, disk, TruncateGraph, WriteGraph, TruncateSnap, WriteSnap, TruncateBlob,
     WriteBlob, SelectAgent, InsertAgent, InsertRow, Reload, WriteSpans, Raises
<1> QED BY <1>5, <1>6, <1>7, <1>8, <1>9 DEF TypeOK

\* A process drops what it holds.
LEMMA TypeForget ==
  ASSUME TypeOK, WorkOK, NEW p \in Procs, Forget(p)
  PROVE  /\ work' \in [Procs -> Work] /\ WorkOK'
         /\ work'[p] = Idle(work[p].agent)
         /\ \A q \in Procs \ {p} : work'[q] = work[q]
<1>1. work[p].agent \in Agents
  BY DEF TypeOK, Work
<1>2. Idle(work[p].agent) \in Work
  BY <1>1, IdleType
<1>3. Sound(Idle(work[p].agent))
  BY DEF Sound, Idle, Stepping
<1>4. /\ work' \in [Procs -> Work] /\ work'[p] = Idle(work[p].agent)
      /\ \A q \in Procs \ {p} : work'[q] = work[q]
  BY <1>2, SetWork DEF Forget
<1> QED BY <1>3, <1>4, SoundStep

\* A process takes up an agent, a step or a flush: its work is typed and sound.
LEMMA TypeTakes ==
  ASSUME TypeOK, WorkOK, NEW p \in Procs, NEW v \in Work, Sound(v),
         work' = [work EXCEPT ![p] = v], UNCHANGED disk
  PROVE  /\ TypeOK' /\ WorkOK' /\ work'[p] = v
         /\ \A q \in Procs \ {p} : work'[q] = work[q]
<1>1. /\ work' \in [Procs -> Work] /\ work'[p] = v
      /\ \A q \in Procs \ {p} : work'[q] = work[q]
  BY SetWork
<1>2. WorkOK'
  BY <1>1, SoundStep
<1> QED BY <1>1, <1>2 DEF TypeOK, disk

\* Every access keeps the types of the directory.
LEMMA TypeAccess ==
  ASSUME TypeOK, WorkOK, NEW p \in Procs, Access(p) \/ Raises(p)
  PROVE  TypeOK' /\ WorkOK'
BY TypeReadPrev, TypeReadLatest, TypeMoves DEF Access
\* ... and is an access of one process.
LEMMA AccessIsOnes ==
  ASSUME TypeOK, NEW p \in Procs, Access(p) \/ Raises(p)
  PROVE  \A q \in Procs \ {p} : work'[q] = work[q]
BY DEF TypeOK, Access, Raises, ReadPrev, ReadLatest, TruncateGraph, WriteGraph, TruncateSnap, WriteSnap,
   TruncateBlob, WriteBlob, SelectAgent, InsertAgent, InsertRow, Reload, WriteSpans, Go

LEMMA AccessKeeps ==
  ASSUME TypeOK, NEW p \in Procs, Access(p) \/ Raises(p)
  PROVE  /\ work'[p].for = work[p].for /\ work'[p].turn = work[p].turn
         /\ work'[p].agent = work[p].agent
         /\ rows \subseteq rows'
         /\ work'[p].at \in {"reload", "spans", "done"} =>
              \/ work[p].at \in {"reload", "spans"}
              \/ work[p].for = "flush"
              \/ RowOf(work[p]) \in rows'
<1>1. work \in [Procs -> Work] /\ work[p] \in Work
  BY DEF TypeOK
<1>2. CASE ReadPrev(p)
  <2>1. rows' = rows
    BY <1>2 DEF ReadPrev, disk
  <2> DEFINE Keeps == /\ work'[p].for = work[p].for /\ work'[p].turn = work[p].turn
                      /\ work'[p].agent = work[p].agent
                      /\ work'[p].at \in {"graph", "raised"}
  <2>2. ASSUME work' = [work EXCEPT ![p].at = "graph", ![p].prev = 0, ![p].t = 1,
                                    ![p].C = {work[p].turn}, ![p].mem = @ \cup {work[p].turn}]
        PROVE  Keeps
    BY <1>1, <2>2 DEF Work
  <2>3. ASSUME Go(p, "raised") PROVE Keeps
    BY <1>1, <2>3 DEF Work, Go
  <2>4. ASSUME NEW r \in Latest(work[p].agent),
               work' = [work EXCEPT ![p].at = "graph", ![p].prev = r.by, ![p].t = r.t + 1,
                                    ![p].C = BlobOf(r).holds \cup {work[p].turn},
                                    ![p].mem = @ \cup {work[p].turn}]
        PROVE  Keeps
    BY <1>1, <2>4 DEF Work
  <2>5. Keeps
    <3> HIDE DEF Keeps
    <3> QED BY <1>2, <2>2, <2>3, <2>4 DEF ReadPrev
  <2> QED BY <2>1, <2>5
<1>3. CASE ReadLatest(p)
  BY <1>1, <1>3 DEF ReadLatest, Go, Work, disk
<1>4. CASE InsertRow(p)
  BY <1>1, <1>4 DEF InsertRow, Go, Work
<1>5. CASE WriteSnap(p)
  BY <1>1, <1>5 DEF WriteSnap, Go, Work
<1>6. CASE Reload(p) \/ WriteSpans(p)
  BY <1>1, <1>6 DEF Reload, WriteSpans, At, Go, Work, disk
<1>7. CASE \/ TruncateGraph(p) \/ WriteGraph(p) \/ TruncateSnap(p) \/ TruncateBlob(p)
           \/ WriteBlob(p) \/ SelectAgent(p) \/ InsertAgent(p) \/ Raises(p)
  <2>1. rows' = rows
    BY <1>7 DEF TruncateGraph, WriteGraph, TruncateSnap, TruncateBlob, WriteBlob, SelectAgent,
       InsertAgent, Raises, disk
  <2>2. PICK place \in Places \ {"reload", "spans", "done"} : Go(p, place)
    BY <1>7 DEF TruncateGraph, WriteGraph, TruncateSnap, TruncateBlob, WriteBlob, SelectAgent,
       InsertAgent, Raises, Places
  <2>3. work'[p] = [work[p] EXCEPT !.at = place]
    BY <1>1, <2>2 DEF Go
  <2> QED BY <1>1, <2>1, <2>3 DEF Work
<1> QED BY <1>2, <1>3, <1>4, <1>5, <1>6, <1>7 DEF Access

-----------------------------------------------------------------------------
(* The store is a log.  While one process works at a time the states of an agent *)
(* are numbered from 1 without gaps or doubles, a step under way is about to     *)
(* add the next one, and the only blob it touches is that one's.                *)

Count(a) == Cardinality(RowsOf(a))
LastState(a) == IF Count(a) = 0 THEN {} ELSE blobs[<<a, Count(a)>>].holds
Dense ==
  /\ IsFiniteSet(rows)
  /\ \A r \in rows : r.t \in 1..Count(r.agent) /\ BlobOf(r).is = "whole"
  /\ \A a \in Agents : \A t \in 1..Count(a) : \E r \in RowsOf(a) : r.t = t
Adding(w) ==
  /\ (w.for = "step" /\ w.at \in After) =>
       w.t = Count(w.agent) + 1 /\ w.C = LastState(w.agent) \cup {w.turn}
  /\ w.at \in {"agent", "new agent", "row"} => blobs[<<w.agent, w.t>>] = Whole(w.C)

LEMMA CountType ==
  ASSUME Dense, NEW a
  PROVE  /\ IsFiniteSet(RowsOf(a)) /\ Count(a) \in Nat
         /\ Count(a) = 0 <=> RowsOf(a) = {}
<1>1. IsFiniteSet(RowsOf(a))
  <2>1. RowsOf(a) \in SUBSET rows
    BY DEF RowsOf
  <2> QED BY <2>1, FS_Subset DEF Dense
<1> QED BY <1>1, FS_CardinalityType, FS_EmptySet DEF Count

\* What load_latest finds is the newest state, and its blob can be read.
LEMMA LatestIsLast ==
  ASSUME TypeOK, Dense, NEW a \in Agents, NEW r \in Latest(a)
  PROVE  /\ r.t = Count(a) /\ Count(a) # 0 /\ BlobOf(r).is = "whole"
         /\ BlobOf(r) = blobs[<<a, Count(a)>>]
<1>1. r \in rows /\ r.agent = a /\ r \in RowsOf(a)
  BY DEF Latest, RowsOf
<1>2. Count(a) \in Nat
  BY CountType
<1>3. r.t \in 1..Count(a) /\ BlobOf(r).is = "whole"
  BY <1>1 DEF Dense
<1>4. Count(a) \in 1..Count(a)
  BY <1>2, <1>3
<1>5. PICK s \in RowsOf(a) : s.t = Count(a)
  BY <1>4 DEF Dense
<1>6. Count(a) <= r.t
  BY <1>5 DEF Latest
<1>7. r.t = Count(a)
  BY <1>2, <1>3, <1>6
<1> QED BY <1>1, <1>2, <1>3, <1>7 DEF BlobOf

\* Nothing about the rows and the blobs: the same states.
LEMMA DenseStays ==
  ASSUME Dense, rows' = rows, blobs' = blobs
  PROVE  Dense' /\ \A a : Count(a)' = Count(a) /\ LastState(a)' = LastState(a) /\ LogOf(a)' = LogOf(a)
BY DEF Dense, Count, LastState, LogOf, RowsOf, BlobOf

\* A blob that no row names is written: the same states.
LEMMA DenseBlob ==
  ASSUME TypeOK, Dense, NEW a \in Agents, NEW t \in Times, NEW f \in File, t = Count(a) + 1,
         rows' = rows, blobs' = [blobs EXCEPT ![<<a, t>>] = f]
  PROVE  Dense' /\ \A b : Count(b)' = Count(b) /\ LastState(b)' = LastState(b) /\ LogOf(b)' = LogOf(b)
<1>1. blobs \in [Agents \X Times -> File] /\ rows \subseteq Row
  BY DEF TypeOK
<1>2. \A b : Count(b)' = Count(b) /\ RowsOf(b)' = RowsOf(b)
  BY DEF Count, RowsOf
<1>3. Count(a) \in Nat
  BY CountType
<1>4. ASSUME NEW b, NEW u \in 1..Count(b) PROVE blobs'[<<b, u>>] = blobs[<<b, u>>]
  <2>1. <<b, u>> # <<a, t>>
    BY <1>3
  <2>2. CASE b \in Agents
    <3>1. PICK r \in RowsOf(b) : r.t = u
      BY <2>2 DEF Dense
    <3>2. u \in Times
      BY <1>1, <3>1 DEF RowsOf, Row
    <3> QED BY <1>1, <2>1, <2>2, <3>2
  <2>3. CASE b \notin Agents
    <3>1. RowsOf(b) = {}
      BY <1>1, <2>3 DEF RowsOf, Row
    <3>2. Count(b) = 0
      BY <3>1, FS_EmptySet DEF Count
    <3> QED BY <3>2
  <2> QED BY <2>2, <2>3
<1>5. ASSUME NEW b PROVE LastState(b)' = LastState(b) /\ LogOf(b)' = LogOf(b)
  <2>1. Count(b) \in Nat /\ Count(b)' = Count(b) /\ RowsOf(b)' = RowsOf(b)
    BY <1>2, CountType
  <2>2. LastState(b)' = LastState(b)
    BY <1>4, <2>1 DEF LastState
  <2>3. \A u \in 1..Count(b) : blobs'[<<b, u>>] = blobs[<<b, u>>]
    BY <1>4
  <2>4. LogOf(b) = [u \in 1..Count(b) |-> blobs[<<b, u>>].holds]
    BY DEF LogOf, Count
  <2>5. LogOf(b)' = [u \in 1..Count(b) |-> blobs'[<<b, u>>].holds]
    BY <2>1 DEF LogOf, Count
  <2> QED BY <2>2, <2>3, <2>4, <2>5
<1>6. Dense'
  <2>1. ASSUME NEW r \in rows PROVE r.t \in 1..Count(r.agent)' /\ BlobOf(r)'.is = "whole"
    <3>1. r.t \in 1..Count(r.agent) /\ BlobOf(r).is = "whole"
      BY DEF Dense
    <3> QED BY <1>2, <1>4, <3>1 DEF BlobOf
  <2> QED BY <1>2, <2>1 DEF Dense
<1> QED BY <1>2, <1>5, <1>6
\* A log is a sequence, as long as there are rows.
LEMMA LogIsSeq ==
  ASSUME TypeOK, Dense, NEW a \in Agents
  PROVE  /\ LogOf(a) \in Seq(SUBSET Turns) /\ Len(LogOf(a)) = Count(a)
         /\ \A t \in 1..Count(a) : LogOf(a)[t] = blobs[<<a, t>>].holds
<1>1. Count(a) \in Nat
  BY CountType
<1>2. ASSUME NEW t \in 1..Count(a) PROVE blobs[<<a, t>>].holds \in SUBSET Turns
  <2>1. PICK r \in RowsOf(a) : r.t = t
    BY DEF Dense
  <2>2. <<a, t>> \in Agents \X Times
    BY <2>1 DEF TypeOK, RowsOf, Row
  <2> QED BY <2>2 DEF TypeOK, File
<1>3. LogOf(a) = [t \in 1..Count(a) |-> blobs[<<a, t>>].holds]
  BY DEF LogOf, Count
<1>4. LogOf(a) \in [1..Count(a) -> SUBSET Turns]
  BY <1>2, <1>3
<1>5. LogOf(a) \in Seq(SUBSET Turns)
  BY <1>1, <1>4, SeqDef
<1>6. Len(LogOf(a)) \in Nat /\ DOMAIN LogOf(a) = 1..Len(LogOf(a))
  BY <1>5, LenProperties
<1>7. 1..Len(LogOf(a)) = 1..Count(a)
  BY <1>4, <1>6
<1>8. Len(LogOf(a)) = Count(a)
  BY <1>1, <1>6, <1>7
<1> QED BY <1>3, <1>5, <1>8

LEMMA NewestIsLast ==
  ASSUME TypeOK, Dense, NEW a \in Agents
  PROVE  Log!Newest(LogOf(a)) = LastState(a)
<1>1. Count(a) \in Nat
  BY CountType
<1>2. CASE Count(a) = 0
  <2>1. LogOf(a) = <<>>
    BY <1>2, LogIsSeq, EmptySeq
  <2> QED BY <1>2, <2>1 DEF Log!Newest, LastState
<1>3. CASE Count(a) # 0
  <2>1. LogOf(a) # <<>>
    BY <1>3, LogIsSeq, EmptySeq
  <2>2. Count(a) \in 1..Count(a)
    BY <1>1, <1>3
  <2> QED BY <1>3, <2>1, <2>2, LogIsSeq DEF Log!Newest, LastState
<1> QED BY <1>2, <1>3

\* The row is written: one more state, made of the newest one and the turn.
LEMMA DenseRow ==
  ASSUME TypeOK, TypeOK', Dense, NEW w \in Work, w.t = Count(w.agent) + 1,
         w.C = LastState(w.agent) \cup {w.turn}, blobs[<<w.agent, w.t>>] = Whole(w.C),
         rows' = rows \cup {RowOf(w)}, blobs' = blobs
  PROVE  /\ Dense'
         /\ \A b \in Agents \ {w.agent} : LogOf(b)' = LogOf(b)
         /\ LogOf(w.agent)' = Append(LogOf(w.agent), LastState(w.agent) \cup {w.turn})
<1> DEFINE a == w.agent
           n == Count(a)
<1>0. a \in Agents /\ n \in Nat /\ w.t = n + 1
  BY CountType DEF Work
<1>1. RowOf(w).agent = a /\ RowOf(w).t = n + 1
  BY DEF RowOf
<1>2. RowsOf(a)' = RowsOf(a) \cup {RowOf(w)}
  BY <1>1 DEF RowsOf
<1>3. RowOf(w) \notin RowsOf(a)
  BY <1>0, <1>1 DEF Dense, RowsOf
<1>4. Count(a)' = n + 1
  BY <1>2, <1>3, CountType, FS_AddElement DEF Count
<1>5. ASSUME NEW b, b # a PROVE RowsOf(b)' = RowsOf(b) /\ Count(b)' = Count(b)
  <2>1. RowsOf(b)' = RowsOf(b)
    BY <1>1, <1>5 DEF RowsOf
  <2> QED BY <2>1 DEF Count
<1>6. ASSUME NEW b \in Agents \ {a} PROVE LogOf(b)' = LogOf(b)
  BY <1>5 DEF LogOf
<1>7. Dense'
  <2>1. IsFiniteSet(rows')
    BY FS_AddElement DEF Dense
  <2>2. ASSUME NEW r \in rows' PROVE r.t \in 1..Count(r.agent)' /\ BlobOf(r)'.is = "whole"
    <3>1. CASE r = RowOf(w)
      BY <1>0, <1>1, <1>4, <3>1 DEF BlobOf, Whole
    <3>2. CASE r \in rows
      <4>1. r.t \in 1..Count(r.agent) /\ BlobOf(r).is = "whole"
        BY <3>2 DEF Dense
      <4>2. r.agent = a => r.t \in 1..(n + 1)
        BY <1>0, <4>1
      <4> QED BY <1>4, <1>5, <4>1, <4>2 DEF BlobOf
    <3> QED BY <3>1, <3>2
  <2>3. ASSUME NEW b \in Agents, NEW t \in 1..Count(b)' PROVE \E r \in RowsOf(b)' : r.t = t
    <3>1. CASE b # a
      BY <1>5, <3>1 DEF Dense
    <3>2. CASE b = a /\ t = n + 1
      BY <1>1, <1>2, <3>2
    <3>3. CASE b = a /\ t # n + 1
      <4>1. t \in 1..n
        BY <1>0, <1>4, <3>3
      <4> QED BY <1>0, <1>2, <3>3, <4>1 DEF Dense
    <3> QED BY <3>1, <3>2, <3>3
  <2> QED BY <2>1, <2>2, <2>3 DEF Dense
<1>8. LogOf(a)' = Append(LogOf(a), LastState(a) \cup {w.turn})
  <2> DEFINE s == LogOf(a)
             e == LastState(a) \cup {w.turn}
             u == LogOf(a)'
  <2>1. s \in Seq(SUBSET Turns) /\ Len(s) = n /\ \A t \in 1..n : s[t] = blobs[<<a, t>>].holds
    BY <1>0, LogIsSeq
  <2>2. e \in SUBSET Turns
    BY DEF Work
  <2>3. u = [t \in 1..(n + 1) |-> blobs[<<a, t>>].holds]
    BY <1>4 DEF LogOf, Count
  <2>4. \A t \in 1..(n + 1) : blobs[<<a, t>>].holds \in SUBSET Turns
    <3>1. \A t \in 1..n : blobs[<<a, t>>].holds \in SUBSET Turns
      BY <2>1, ElementOfSeq
    <3>2. blobs[<<a, n + 1>>].holds \in SUBSET Turns
      BY <1>0, <2>2 DEF Whole
    <3>3. ASSUME NEW t \in 1..(n + 1) PROVE t \in 1..n \/ t = n + 1
      BY <1>0
    <3> QED BY <3>1, <3>2, <3>3
  <2>5. u \in [1..(n + 1) -> SUBSET Turns]
    BY <2>3, <2>4
  <2>6. u \in Seq(SUBSET Turns)
    BY <1>0, <2>5, SeqDef
  <2>7. Len(u) = n + 1
    <3>1. Len(u) \in Nat /\ DOMAIN u = 1..Len(u)
      BY <2>6, LenProperties
    <3>2. 1..Len(u) = 1..(n + 1)
      BY <2>5, <3>1
    <3> QED BY <1>0, <3>1, <3>2
  <2>8. /\ Append(s, e) \in Seq(SUBSET Turns) /\ Len(Append(s, e)) = n + 1
        /\ \A t \in 1..n : Append(s, e)[t] = s[t]
        /\ Append(s, e)[n + 1] = e
    BY <2>1, <2>2, AppendProperties
  <2>9. ASSUME NEW t \in 1..(n + 1) PROVE u[t] = Append(s, e)[t]
    <3>1. u[t] = blobs[<<a, t>>].holds
      BY <2>3
    <3>2. t \in 1..n \/ t = n + 1
      BY <1>0
    <3>3. blobs[<<a, n + 1>>].holds = e
      BY <1>0 DEF Whole
    <3> HIDE DEF s, e, u
    <3>4. CASE t = n + 1
      BY <2>8, <3>1, <3>3, <3>4
    <3>5. CASE t \in 1..n
      BY <2>1, <2>8, <3>1, <3>5
    <3> QED BY <3>2, <3>4, <3>5
  <2> HIDE DEF s, e, u
  <2>10. u = Append(s, e)
    BY <2>6, <2>7, <2>8, <2>9, SeqEqual
  <2> QED BY <2>10 DEF s, e, u
<1> QED BY <1>6, <1>7, <1>8
SameLogs == \A a \in Agents : LogOf(a)' = LogOf(a)
\* A step under way, in terms of the agent and the turn it is for.
LEMMA AddingFrom ==
  ASSUME NEW p \in Procs, NEW a, NEW t, NEW C,
         work'[p].at \in {"graph"}, work'[p].agent = a, work'[p].t = t, work'[p].C = C,
         t = Count(a)' + 1, C = LastState(a)' \cup {work'[p].turn}
  PROVE  Adding(work[p])'
BY DEF Adding

LEMMA DenseAccess ==
  ASSUME TypeOK, TypeOK', WorkOK, NEW p \in Procs, Access(p) \/ Raises(p), Dense, Adding(work[p])
  PROVE  /\ Dense' /\ Adding(work[p])'
         /\ SameLogs \/ (work[p].turn \in Turns /\ Log!Save(work[p].agent, work[p].turn))
<1> DEFINE w == work[p]
           a == w.agent
<1>1. /\ w \in Work /\ Sound(w) /\ work \in [Procs -> Work] /\ a \in Agents
      /\ w.t \in Times /\ w.C \in SUBSET Turns
  BY DEF TypeOK, WorkOK, Work
<1>2. ASSUME rows' = rows, blobs' = blobs
      PROVE  Dense' /\ SameLogs /\ \A b : Count(b)' = Count(b) /\ LastState(b)' = LastState(b)
  BY <1>2, DenseStays DEF SameLogs
<1>3. CASE ReadPrev(p)
  <2>1. rows' = rows /\ blobs' = blobs
    BY <1>3 DEF ReadPrev, disk
  <2>2. Dense' /\ SameLogs /\ \A b : Count(b)' = Count(b) /\ LastState(b)' = LastState(b)
    BY <1>2, <2>1
  <2>3. ASSUME RowsOf(a) = {},
               work' = [work EXCEPT ![p].at = "graph", ![p].prev = 0, ![p].t = 1,
                                    ![p].C = {w.turn}, ![p].mem = @ \cup {w.turn}]
        PROVE  Adding(work[p])'
    <3>1. /\ work'[p].at = "graph" /\ work'[p].agent = a /\ work'[p].turn = w.turn
          /\ work'[p].t = 1 /\ work'[p].C = {w.turn}
      BY <1>1, <2>3 DEF Work
    <3>2. PICK c : c = a
      OBVIOUS
    <3>3. Count(c) = 0 /\ LastState(c) = {}
      BY <2>3, <3>2, CountType DEF LastState
    <3>4. 1 = Count(c)' + 1 /\ {w.turn} = LastState(c)' \cup {work'[p].turn}
      BY <2>2, <3>1, <3>3
    <3> QED BY <3>1, <3>2, <3>4, AddingFrom
  <2>4. ASSUME NEW r \in Latest(a),
               work' = [work EXCEPT ![p].at = "graph", ![p].prev = r.by, ![p].t = r.t + 1,
                                    ![p].C = BlobOf(r).holds \cup {w.turn}, ![p].mem = @ \cup {w.turn}]
        PROVE  Adding(work[p])'
    <3>1. /\ work'[p].at = "graph" /\ work'[p].agent = a /\ work'[p].turn = w.turn
          /\ work'[p].t = r.t + 1 /\ work'[p].C = BlobOf(r).holds \cup {w.turn}
      BY <1>1, <2>4 DEF Work
    <3>2. PICK c : c = a
      OBVIOUS
    <3>3. r.t = Count(c) /\ BlobOf(r).holds = LastState(c)
      BY <1>1, <3>2, LatestIsLast DEF LastState
    <3>4. r.t + 1 = Count(c)' + 1
      BY <2>2, <3>3
    <3>5. PICK C : C = BlobOf(r).holds \cup {w.turn}
      OBVIOUS
    <3>6. C = LastState(c)' \cup {work'[p].turn}
      BY <2>2, <3>1, <3>3, <3>5
    <3> QED BY <3>1, <3>2, <3>4, <3>5, <3>6, AddingFrom
  <2>5. ASSUME Go(p, "raised") PROVE Adding(work[p])'
    <3>1. work'[p].at = "raised"
      BY <1>1, <2>5 DEF Go, Work
    <3> QED BY <3>1 DEF Adding, After
  <2>6. Adding(work[p])'
    <3> HIDE DEF Adding
    <3> QED BY <1>3, <2>3, <2>4, <2>5 DEF ReadPrev
  <2> QED BY <2>2, <2>6
<1>4. CASE ReadLatest(p)
  <2>1. rows' = rows /\ blobs' = blobs /\ w.for = "flush"
    BY <1>1, <1>4 DEF ReadLatest, disk, At, Sound
  <2>2. work'[p].for = "flush" /\ work'[p].at \in {"graph", "raised"}
    BY <1>1, <1>4, <2>1 DEF ReadLatest, Go, Work
  <2> QED BY <1>2, <2>1, <2>2 DEF Adding
<1>5. ASSUME NEW place \in Places, Go(p, place), rows' = rows, blobs' = blobs,
             (place \in After /\ w.for = "step") => w.at \in After,
             place \in {"agent", "new agent", "row"} => w.at \in {"agent", "new agent", "row"}
      PROVE  Dense' /\ SameLogs /\ Adding(work[p])'
  <2>1. work'[p] = [w EXCEPT !.at = place]
    BY <1>1, <1>5 DEF Go
  <2>2. /\ work'[p].at = place /\ work'[p].agent = a /\ work'[p].t = w.t
        /\ work'[p].turn = w.turn /\ work'[p].for = w.for /\ work'[p].C = w.C
    BY <1>1, <2>1 DEF Work
  <2>3. Dense' /\ SameLogs /\ \A b : Count(b)' = Count(b) /\ LastState(b)' = LastState(b)
    BY <1>2, <1>5
  <2> QED BY <1>5, <2>2, <2>3 DEF Adding
<1>6. ASSUME NEW place \in {"blob half", "agent"}, Go(p, place), rows' = rows, NEW f \in File,
             blobs' = [blobs EXCEPT ![<<a, w.t>>] = f], w.at \in {"blob", "blob half"},
             place = "agent" => f = Whole(w.C)
      PROVE  Dense' /\ SameLogs /\ Adding(work[p])'
  <2>1. work'[p] = [w EXCEPT !.at = place]
    BY <1>1, <1>6 DEF Go
  <2>2. /\ work'[p].at = place /\ work'[p].agent = a /\ work'[p].t = w.t
        /\ work'[p].turn = w.turn /\ work'[p].for = w.for /\ work'[p].C = w.C
    BY <1>1, <2>1 DEF Work
  <2>3. w.for = "step" /\ w.t = Count(a) + 1 /\ w.C = LastState(a) \cup {w.turn}
    BY <1>1, <1>6 DEF Sound, Stepping, Adding, After
  <2>4. Dense' /\ \A b : Count(b)' = Count(b) /\ LastState(b)' = LastState(b) /\ LogOf(b)' = LogOf(b)
    BY <1>1, <1>6, <2>3, DenseBlob
  <2>5. place = "agent" => blobs'[<<a, w.t>>] = Whole(w.C)
    BY <1>1, <1>6 DEF TypeOK
  <2>6. Adding(work[p])'
    BY <1>6, <2>2, <2>3, <2>4, <2>5 DEF Adding
  <2> QED BY <2>4, <2>6 DEF SameLogs
<1>7. CASE TruncateBlob(p)
  <2>1. TornFile \in File
    BY DEF TornFile, File
  <2> QED BY <1>6, <1>7, <2>1 DEF TruncateBlob, At
<1>8. CASE WriteBlob(p)
  <2>1. Whole(w.C) \in File
    BY <1>1 DEF Whole, File
  <2> QED BY <1>6, <1>8, <2>1 DEF WriteBlob, At
<1>9. CASE InsertRow(p)
  <2>0. PICK v : v = work[p]
    OBVIOUS
  <2>1. v \in Work /\ v.agent \in Agents /\ v.at = "row" /\ v.for = "step" /\ v.turn \in Turns
    BY <1>1, <1>9, <2>0 DEF InsertRow, At, Sound, Stepping
  <2>2. /\ v.t = Count(v.agent) + 1 /\ v.C = LastState(v.agent) \cup {v.turn}
        /\ blobs[<<v.agent, v.t>>] = Whole(v.C)
    BY <2>0, <2>1 DEF Adding, After
  <2>3. rows' = rows \cup {RowOf(v)} /\ blobs' = blobs
    BY <1>9, <2>0 DEF InsertRow
  <2>4. /\ Dense'
        /\ \A b \in Agents \ {v.agent} : LogOf(b)' = LogOf(b)
        /\ LogOf(v.agent)' = Append(LogOf(v.agent), LastState(v.agent) \cup {v.turn})
    BY <2>1, <2>2, <2>3, DenseRow
  <2>5. Log!Newest(LogOf(v.agent)) = LastState(v.agent)
    BY <2>1, NewestIsLast
  <2>6. Log!Save(v.agent, v.turn)
    <3> DEFINE old == [b \in Agents |-> LogOf(b)]
               new == [b \in Agents |-> LogOf(b)']
    <3>1. Log!Newest(old[v.agent]) = LastState(v.agent)
      BY <2>1, <2>5
    <3>2. new = [old EXCEPT ![v.agent] = Append(old[v.agent], LastState(v.agent) \cup {v.turn})]
      BY <2>1, <2>4
    <3>3. new = [old EXCEPT ![v.agent] = Append(old[v.agent], Log!Newest(old[v.agent]) \cup {v.turn})]
      BY <3>1, <3>2
    <3> QED BY <3>3 DEF Log!Save
  <2>7. work'[p].at = "reload"
    BY <1>1, <1>9 DEF InsertRow, Go, Work
  <2>8. Adding(work[p])'
    BY <2>7 DEF Adding, After
  <2> QED BY <2>0, <2>1, <2>4, <2>6, <2>8
<1>10. CASE TruncateGraph(p) \/ WriteGraph(p) \/ TruncateSnap(p)
  BY <1>5, <1>10 DEF TruncateGraph, WriteGraph, TruncateSnap, At, Places, After
<1>11. CASE WriteSnap(p)
  BY <1>5, <1>11 DEF WriteSnap, At, Places, After
<1>12. CASE SelectAgent(p) \/ InsertAgent(p)
  BY <1>5, <1>12 DEF SelectAgent, InsertAgent, At, Places, After, disk
<1>13. CASE Reload(p) \/ WriteSpans(p) \/ Raises(p)
  BY <1>5, <1>13 DEF Reload, WriteSpans, Raises, Places, After, disk
<1> QED BY <1>3, <1>4, <1>7, <1>8, <1>9, <1>10, <1>11, <1>12, <1>13 DEF Access

LEMMA DirDense == DirInit => Dense /\ Log!Init
<1> SUFFICES ASSUME DirInit PROVE Dense /\ Log!Init
  OBVIOUS
<1>1. rows = {}
  BY DEF DirInit
<1>2. \A a : RowsOf(a) = {} /\ Count(a) = 0
  BY <1>1, FS_EmptySet DEF RowsOf, Count
<1>3. Dense
  BY <1>1, <1>2, FS_EmptySet DEF Dense
<1>4. ASSUME NEW a \in Agents PROVE LogOf(a) = <<>>
  <2>1. LogOf(a) = [t \in 1..0 |-> blobs[<<a, t>>].holds]
    BY <1>2 DEF LogOf, Count
  <2>2. LogOf(a) \in Seq({}) /\ Len(LogOf(a)) = 0
    <3>1. LogOf(a) \in [1..0 -> {}]
      BY <2>1
    <3>2. LogOf(a) \in Seq({})
      BY <3>1, SeqDef
    <3>3. Len(LogOf(a)) \in Nat /\ DOMAIN LogOf(a) = 1..Len(LogOf(a))
      BY <3>2, LenProperties
    <3>4. 1..Len(LogOf(a)) = 1..0
      BY <3>1, <3>3
    <3> QED BY <3>2, <3>3, <3>4
  <2> QED BY <2>2, EmptySeq
<1> QED BY <1>3, <1>4 DEF Log!Init
\* An access leaves the process in the middle of its work, or at its end.
LEMMA AccessMoves ==
  ASSUME NEW p \in Procs, work \in [Procs -> Work], Access(p) \/ Raises(p)
  PROVE  work'[p].at # "idle"
<1>1. work[p] \in Work
  OBVIOUS
<1>2. CASE \E place \in Places \ {"idle"} : Go(p, place)
  BY <1>1, <1>2 DEF Go, Work
<1>3. CASE ReadPrev(p)
  <2>1. ASSUME work' = [work EXCEPT ![p].at = "graph", ![p].prev = 0, ![p].t = 1,
                                    ![p].C = {work[p].turn}, ![p].mem = @ \cup {work[p].turn}]
        PROVE  work'[p].at # "idle"
    BY <1>1, <2>1 DEF Work
  <2>2. ASSUME NEW r \in Latest(work[p].agent),
               work' = [work EXCEPT ![p].at = "graph", ![p].prev = r.by, ![p].t = r.t + 1,
                                    ![p].C = BlobOf(r).holds \cup {work[p].turn},
                                    ![p].mem = @ \cup {work[p].turn}]
        PROVE  work'[p].at # "idle"
    BY <1>1, <2>2 DEF Work
  <2>3. Go(p, "raised") => work'[p].at # "idle"
    BY <1>1 DEF Go, Work
  <2> QED BY <1>3, <2>1, <2>2, <2>3 DEF ReadPrev
<1>a. CASE ReadLatest(p)
  BY <1>1, <1>a DEF ReadLatest, Go, Work
<1>4. \/ ReadPrev(p) \/ ReadLatest(p)
      \/ \E place \in Places \ {"idle"} : Go(p, place)
  BY DEF Access, Raises, TruncateGraph, WriteGraph, TruncateSnap, WriteSnap, TruncateBlob, WriteBlob,
     SelectAgent, InsertAgent, InsertRow, Reload, WriteSpans, Places
<1> QED BY <1>2, <1>3, <1>a, <1>4
\* An access touches the graph.json of its agent alone, and a flush that gets to its end has
\* left there what it was given.
FlushKept(w) == (w.for = "flush" /\ w.at \in {"snap", "snap half", "done"}) =>
                  graph[w.agent] = Whole(w.mem)
LEMMA FlushAccess ==
  ASSUME TypeOK, WorkOK, NEW p \in Procs, Access(p) \/ Raises(p)
  PROVE  /\ \A b \in Agents : b # work[p].agent => graph'[b] = graph[b]
         /\ work[p].for = "flush" => work'[p].mem = work[p].mem
         /\ (work[p].for = "flush" /\ FlushKept(work[p])) => FlushKept(work[p])'
<1> DEFINE w == work[p]
<1>1. /\ w \in Work /\ Sound(w) /\ work \in [Procs -> Work] /\ graph \in [Agents -> File]
      /\ w.agent \in Agents
  BY DEF TypeOK, WorkOK, Work
<1>2. \A b \in Agents : b # w.agent => graph'[b] = graph[b]
  BY <1>1 DEF Access, Raises, ReadPrev, ReadLatest, TruncateGraph, WriteGraph, TruncateSnap, WriteSnap,
     TruncateBlob, WriteBlob, SelectAgent, InsertAgent, InsertRow, Reload, WriteSpans, disk
<1>3. ASSUME w.for = "flush" PROVE ~ReadPrev(p)
  BY <1>1, <1>3 DEF ReadPrev, At, Sound, Stepping
<1>4. ASSUME w.for = "flush", FlushKept(w), ReadLatest(p)
      PROVE  work'[p].mem = w.mem /\ FlushKept(work[p])'
  <2>1. work'[p].at \in {"graph", "raised"} /\ work'[p].mem = w.mem
    BY <1>1, <1>4 DEF ReadLatest, Go, Work
  <2> QED BY <2>1 DEF FlushKept
<1>5. ASSUME w.for = "flush", NEW place \in Places, Go(p, place)
      PROVE  /\ work'[p].mem = w.mem /\ work'[p].at = place /\ work'[p].agent = w.agent
  BY <1>1, <1>5 DEF Go, Work
<1>6. ASSUME w.for = "flush", WriteGraph(p) PROVE work'[p].mem = w.mem /\ FlushKept(work[p])'
  <2>1. graph'[w.agent] = Whole(w.mem)
    BY <1>1, <1>6 DEF WriteGraph
  <2>2. \E place \in Places : Go(p, place)
    BY <1>6 DEF WriteGraph, Places
  <2>3. work'[p].mem = w.mem /\ work'[p].agent = w.agent
    BY <1>5, <1>6, <2>2
  <2> QED BY <2>1, <2>3 DEF FlushKept
<1>7. ASSUME w.for = "flush", FlushKept(w), NEW place \in Places, Go(p, place), graph' = graph,
             place \in {"snap", "snap half", "done"} => w.at \in {"snap", "snap half", "done"}
      PROVE  work'[p].mem = w.mem /\ FlushKept(work[p])'
  BY <1>5, <1>7 DEF FlushKept
<1>8. ASSUME w.for = "flush", FlushKept(w), TruncateGraph(p)
      PROVE  work'[p].mem = w.mem /\ FlushKept(work[p])'
  <2>1. Go(p, "graph half") /\ "graph half" \in Places
    BY <1>8 DEF TruncateGraph, Places
  <2>2. work'[p].mem = w.mem /\ work'[p].at = "graph half"
    BY <1>5, <1>8, <2>1
  <2> QED BY <2>2 DEF FlushKept
<1>9. ASSUME w.for = "flush", FlushKept(w), TruncateSnap(p) \/ WriteSnap(p) \/ Raises(p)
      PROVE  work'[p].mem = w.mem /\ FlushKept(work[p])'
  BY <1>7, <1>9 DEF TruncateSnap, WriteSnap, Raises, At, Places, disk
<1>10. ASSUME w.for = "flush"
       PROVE  ~(\/ TruncateBlob(p) \/ WriteBlob(p) \/ SelectAgent(p) \/ InsertAgent(p)
                \/ InsertRow(p) \/ Reload(p) \/ WriteSpans(p))
  BY <1>1, <1>10 DEF TruncateBlob, WriteBlob, SelectAgent, InsertAgent, InsertRow, Reload, WriteSpans,
     At, Sound, Stepping
<1>11. ASSUME w.for = "flush" PROVE work'[p].mem = w.mem
  <2>1. ReadLatest(p) => work'[p].mem = w.mem
    BY <1>1, <1>11 DEF ReadLatest, Go, Work
  <2>2. ~ReadLatest(p) => \E place \in Places : Go(p, place)
    BY <1>3, <1>10, <1>11 DEF Access, TruncateGraph, WriteGraph, TruncateSnap, WriteSnap, Raises, Places
  <2> QED BY <1>5, <1>11, <2>1, <2>2
<1>12. ASSUME w.for = "flush", FlushKept(w) PROVE FlushKept(work[p])'
  <2> HIDE DEF FlushKept
  <2> QED BY <1>3, <1>4, <1>6, <1>8, <1>9, <1>10, <1>12 DEF Access
<1> QED BY <1>2, <1>11, <1>12
=============================================================================
