---------------------------- MODULE HookCli_proofs ----------------------------
(* Proofs about the Cursor hooks: types, the lineage of the states for hooks that *)
(* overlap, and for hooks that wait for each other what graph.json holds and     *)
(* that the store is a log (StateLog).                                          *)
EXTENDS HookCli, StateDir_proofs

-----------------------------------------------------------------------------
(* Types.                                                                      *)

TypeInv == HookTypes /\ WorkOK

LEMMA TypeInit == Init => TypeInv
<1> SUFFICES ASSUME Init PROVE TypeInv
  OBVIOUS
<1>1. TypeOK /\ WorkOK
  BY DirTypes DEF Init
<1>2. hook \in [Procs -> Hook] /\ kills \in Nat /\ scarred \in BOOLEAN
  BY DEF Init, Hook, Events
<1> QED BY <1>1, <1>2 DEF TypeInv, HookTypes

HookPlaces == {"off", "load", "read graph", "load again", "ingest", "sample", "compose",
               "snapshot", "ended", "killed"}
\* One process's hook changes.
LEMMA HookMoves ==
  ASSUME HookTypes, NEW p \in Procs,
         \/ \E place \in HookPlaces : To(p, place)
         \/ \E answer \in {"none", "context", "empty", "notice"} : Answers(p, answer)
         \/ \E event \in Events : hook' = [hook EXCEPT ![p] = [@ EXCEPT !.event = event, !.at = "load"]]
  PROVE  /\ hook' \in [Procs -> Hook]
         /\ \A q \in Procs \ {p} : hook'[q] = hook[q]
<1>1. hook[p] \in Hook /\ hook \in [Procs -> Hook]
  BY DEF HookTypes
<1>2. CASE \E place \in HookPlaces : To(p, place)
  <2>1. PICK place \in HookPlaces : To(p, place)
    BY <1>2
  <2>2. [hook[p] EXCEPT !.at = place] \in Hook
    BY <1>1, <2>1 DEF Hook, HookPlaces
  <2> QED BY <1>1, <2>1, <2>2 DEF To
<1>3. CASE \E answer \in {"none", "context", "empty", "notice"} : Answers(p, answer)
  <2>1. PICK answer \in {"none", "context", "empty", "notice"} : Answers(p, answer)
    BY <1>3
  <2>2. [hook[p] EXCEPT !.at = "ended", !.answer = answer] \in Hook
    BY <1>1, <2>1 DEF Hook
  <2> QED BY <1>1, <2>1, <2>2 DEF Answers
<1>4. CASE \E event \in Events : hook' = [hook EXCEPT ![p] = [@ EXCEPT !.event = event, !.at = "load"]]
  <2>1. PICK event \in Events : hook' = [hook EXCEPT ![p] = [@ EXCEPT !.event = event, !.at = "load"]]
    BY <1>4
  <2>2. [hook[p] EXCEPT !.event = event, !.at = "load"] \in Hook
    BY <1>1, <2>1 DEF Hook
  <2> QED BY <1>1, <2>1, <2>2
<1> QED BY <1>2, <1>3, <1>4

\* What every step of process p keeps: the types, and what the others do.
StepOf(p) ==
  /\ TypeInv'
  /\ \A q \in Procs \ {p} : work'[q] = work[q] /\ hook'[q] = hook[q]

\* A hook that answers nothing, or ends with an answer, and changes nothing on the disk.
LEMMA TypeEnds ==
  ASSUME TypeInv, NEW p \in Procs, NEW answer \in {"none", "context", "empty", "notice"},
         Ends(p, answer), UNCHANGED disk, Calm
  PROVE  StepOf(p)
<1>1. /\ work' \in [Procs -> Work] /\ WorkOK'
      /\ \A q \in Procs \ {p} : work'[q] = work[q]
  BY TypeForget DEF Ends, TypeInv, HookTypes
<1>2. hook' \in [Procs -> Hook] /\ \A q \in Procs \ {p} : hook'[q] = hook[q]
  BY HookMoves DEF Ends, TypeInv
<1> QED BY <1>1, <1>2 DEF StepOf, TypeInv, HookTypes, TypeOK, disk, Calm

LEMMA TypeToForget ==
  ASSUME TypeInv, NEW p \in Procs, NEW place \in HookPlaces,
         To(p, place), Forget(p), UNCHANGED disk, kills' \in Nat, scarred' \in BOOLEAN
  PROVE  StepOf(p)
<1>1. /\ work' \in [Procs -> Work] /\ WorkOK'
      /\ \A q \in Procs \ {p} : work'[q] = work[q]
  BY TypeForget DEF TypeInv, HookTypes
<1>2. hook' \in [Procs -> Hook] /\ \A q \in Procs \ {p} : hook'[q] = hook[q]
  BY HookMoves DEF TypeInv
<1> QED BY <1>1, <1>2 DEF StepOf, TypeInv, HookTypes, TypeOK, disk

LEMMA TypeToTakes ==
  ASSUME TypeInv, NEW p \in Procs, NEW place \in HookPlaces, NEW v \in Work, Sound(v),
         To(p, place), work' = [work EXCEPT ![p] = v], UNCHANGED disk, Calm
  PROVE  StepOf(p) /\ work'[p] = v
<1>1. /\ TypeOK' /\ WorkOK' /\ work'[p] = v
      /\ \A q \in Procs \ {p} : work'[q] = work[q]
  BY TypeTakes DEF TypeInv, HookTypes
<1>2. hook' \in [Procs -> Hook] /\ \A q \in Procs \ {p} : hook'[q] = hook[q]
  BY HookMoves DEF TypeInv
<1> QED BY <1>1, <1>2 DEF StepOf, TypeInv, HookTypes, Calm

LEMMA TypeLoadLatest ==
  ASSUME TypeInv, NEW p \in Procs, LoadLatest(p)
  PROVE  StepOf(p)
<1>0. TypeOK /\ p \in Turns /\ UNCHANGED disk /\ Calm
  BY HookAssumption DEF TypeInv, HookTypes, LoadLatest
<1>1. ASSUME NEW a \in Agents, To(p, "read graph"),
             work' = [work EXCEPT ![p] = [Idle(a) EXCEPT !.turn = p]]
      PROVE  StepOf(p)
  <2> DEFINE v == [Idle(a) EXCEPT !.turn = p]
  <2>1. v \in Work
    BY <1>0, IdleType DEF Work
  <2>2. Sound(v)
    BY DEF Sound, Idle, Stepping
  <2>3. work' = [work EXCEPT ![p] = v]
    BY <1>1
  <2> HIDE DEF v
  <2> QED BY <1>0, <1>1, <2>1, <2>2, <2>3, TypeToTakes DEF HookPlaces
<1>2. ASSUME NEW a \in Agents, NEW r \in Latest(a), To(p, "read graph"),
             work' = [work EXCEPT ![p] = [Idle(a) EXCEPT !.turn = p, !.index = r.t,
                        !.mem = IF r.graph = "snapshot" THEN snaps[<<a, r.t>>].holds ELSE {}]]
      PROVE  StepOf(p)
  <2> DEFINE m == IF r.graph = "snapshot" THEN snaps[<<a, r.t>>].holds ELSE {}
             v == [Idle(a) EXCEPT !.turn = p, !.index = r.t, !.mem = m]
  <2>1. r.t \in Times
    BY <1>0, LatestType
  <2>2. <<a, r.t>> \in Agents \X Times
    BY <2>1
  <2>3. m \in SUBSET Turns
    BY <1>0, <2>2 DEF TypeOK, File
  <2>4. r.t \in 0..MaxT
    BY <2>1, DirAssumption DEF Times
  <2> HIDE DEF m
  <2>5. v \in Work
    <3>1. Idle(a) \in Work
      BY IdleType
    <3> QED BY <1>0, <2>3, <2>4, <3>1 DEF Work
  <2>6. Sound(v)
    BY DEF Sound, Idle, Stepping
  <2>7. work' = [work EXCEPT ![p] = v]
    BY <1>2 DEF m
  <2> HIDE DEF v
  <2> QED BY <1>0, <1>2, <2>5, <2>6, <2>7, TypeToTakes DEF HookPlaces
<1>3. CASE FailsOpen(p)
  BY <1>0, <1>3, TypeEnds DEF FailsOpen
<1> QED BY <1>1, <1>2, <1>3 DEF LoadLatest

LEMMA TypeReadGraph ==
  ASSUME TypeInv, NEW p \in Procs, ReadGraph(p)
  PROVE  StepOf(p)
<1> DEFINE w == work[p]
           g == graph[w.agent]
           m == IF g.is = "whole" THEN g.holds ELSE w.mem
           v == [w EXCEPT !.mem = m]
<1>1. w \in Work /\ Sound(w) /\ TypeOK
  BY DEF TypeInv, WorkOK, HookTypes, TypeOK
<1>2. m \in SUBSET Turns
  BY <1>1 DEF TypeOK, Work, File
<1>3. work' = [work EXCEPT ![p] = v]
  BY <1>1 DEF ReadGraph
<1> HIDE DEF m
<1>4. v \in Work
  BY <1>1, <1>2 DEF Work
<1>5. Sound(v)
  BY <1>1 DEF Sound, Stepping, Work
<1> HIDE DEF v
<1> QED BY <1>3, <1>4, <1>5, TypeToTakes DEF ReadGraph, HookPlaces

LEMMA TypeLoadAgain ==
  ASSUME TypeInv, NEW p \in Procs, LoadAgain(p)
  PROVE  StepOf(p)
<1> DEFINE w == work[p]
<1>1. w \in Work /\ TypeOK /\ UNCHANGED disk /\ Calm /\ p \in Turns
  BY HookAssumption DEF TypeInv, HookTypes, TypeOK, LoadAgain
<1>2. w.agent \in Agents /\ w.index \in 0..MaxT /\ w.mem \in SUBSET Turns
  BY <1>1 DEF Work
<1>3. ASSUME To(p, "ingest"), BeginStep(p, w.agent, p, w.index, w.mem, "auto")
      PROVE  StepOf(p)
  <2> DEFINE v == [Idle(w.agent) EXCEPT !.at = "prev", !.turn = p, !.index = w.index,
                                        !.mem = w.mem, !.snap = "auto"]
  <2>1. v \in Work
    BY <1>1, <1>2, IdleType DEF Work, Places
  <2>2. Sound(v)
    BY <1>1 DEF Sound, Stepping, Idle
  <2>3. work' = [work EXCEPT ![p] = v]
    BY <1>3 DEF BeginStep
  <2> HIDE DEF v
  <2> QED BY <1>1, <1>3, <2>1, <2>2, <2>3, TypeToTakes DEF HookPlaces
<1>4. ASSUME To(p, "ingest"), BeginFlush(p, w.agent, w.index, w.mem)
      PROVE  StepOf(p)
  <2> DEFINE v == [Idle(w.agent) EXCEPT !.at = "latest", !.for = "flush", !.index = w.index,
                                        !.mem = w.mem, !.snap = "always"]
  <2>1. v \in Work
    BY <1>1, <1>2, IdleType DEF Work, Places
  <2>2. Sound(v)
    BY <1>1 DEF Sound, Stepping, Idle
  <2>3. work' = [work EXCEPT ![p] = v]
    BY <1>4 DEF BeginFlush
  <2> HIDE DEF v
  <2> QED BY <1>1, <1>4, <2>1, <2>2, <2>3, TypeToTakes DEF HookPlaces
<1>5. CASE FailsOpen(p)
  BY <1>1, <1>5, TypeEnds DEF FailsOpen
<1> QED BY <1>3, <1>4, <1>5 DEF LoadAgain

LEMMA TypeNext ==
  ASSUME TypeInv, NEW p \in Procs,
         Proceed(p) \/ AccessRaises(p) \/ Kill(p) \/ \E event \in Arrives : Start(p, event)
  PROVE  StepOf(p)
<1>0. HookTypes /\ TypeOK /\ WorkOK
  BY DEF TypeInv, HookTypes
<1>1. CASE Works(p) \/ AccessRaises(p)
  <2>1. Access(p) \/ Raises(p)
    BY <1>1 DEF Works, AccessRaises
  <2>2. TypeOK' /\ WorkOK' /\ \A q \in Procs \ {p} : work'[q] = work[q]
    BY <1>0, <2>1, TypeAccess, AccessIsOnes
  <2>3. UNCHANGED hook /\ kills' \in Nat /\ scarred' \in BOOLEAN
    <3>1. CASE Works(p)
      BY <1>0, <3>1 DEF Works, HookTypes
    <3>2. CASE AccessRaises(p)
      BY <1>0, <3>2 DEF AccessRaises, HookTypes
    <3> QED BY <1>1, <3>1, <3>2
  <2> QED BY <1>0, <2>2, <2>3 DEF StepOf, TypeInv, HookTypes
<1>2. CASE \E event \in Arrives : Start(p, event)
  <2>1. /\ \E event \in Events : hook' = [hook EXCEPT ![p] = [@ EXCEPT !.event = event, !.at = "load"]]
        /\ UNCHANGED dirVars /\ Calm
    BY <1>2, HookAssumption DEF Start
  <2>2. hook' \in [Procs -> Hook] /\ \A q \in Procs \ {p} : hook'[q] = hook[q]
    BY <1>0, <2>1, HookMoves
  <2> QED BY <1>0, <2>1, <2>2
          DEF StepOf, TypeInv, HookTypes, TypeOK, WorkOK, Sound, dirVars, Calm
<1>3. CASE Kill(p)
  <2>1. kills' \in Nat /\ scarred' \in BOOLEAN
    BY <1>0, <1>3 DEF Kill, HookTypes
  <2> QED BY <1>3, <2>1, TypeToForget DEF Kill, HookPlaces
<1>4. CASE Ignored(p)
  BY <1>4, TypeEnds DEF Ignored, FailsOpen
<1>5. CASE Ingested(p)
  BY <1>0, <1>5, TypeEnds, TypeToForget DEF Ingested, FailsOpen, HookPlaces, Calm, HookTypes
<1>6. CASE IngestRaised(p)
  BY <1>6, TypeEnds DEF IngestRaised, FailsOpen
<1>7. CASE Sampled(p)
  BY <1>0, <1>7, TypeEnds, TypeToForget DEF Sampled, FailsOpen, HookPlaces, Calm, HookTypes
<1>8. CASE Composed(p)
  BY <1>8, TypeEnds DEF Composed, FailsOpen
<1>9. CASE Snapshot(p)
  BY <1>9, TypeEnds DEF Snapshot, FailsOpen
<1> QED BY <1>1, <1>2, <1>3, <1>4, <1>5, <1>6, <1>7, <1>8, <1>9,
           TypeLoadLatest, TypeReadGraph, TypeLoadAgain DEF Proceed

LEMMA TypeStays == TypeInv /\ UNCHANGED vars => TypeInv'
BY DEF TypeInv, HookTypes, TypeOK, WorkOK, Sound, vars, dirVars

\* Every variable keeps its type, and a process that steps or flushes has what it needs for it.
THEOREM HooksTyped == Spec => []HookTypes
<1>1. Init => TypeInv
  BY TypeInit
<1>2. TypeInv /\ [Next]_vars => TypeInv'
  BY TypeNext, TypeStays DEF Next, StepOf
<1>3. TypeInv => HookTypes
  BY DEF TypeInv
<1> QED BY <1>1, <1>2, <1>3, PTL DEF Spec
-----------------------------------------------------------------------------
(* The lineage of the states.  A step keeps in mind a row to be the parent of  *)
(* its own; rows are never removed, so that the row is still there when the    *)
(* step writes its own, whatever other processes have written in between.      *)

\* by is the turn of a row one step before t, or t is the first.
Follows(a, t, by) == IF t = 1 THEN by = 0
                     ELSE \E s \in RowsOf(a) : s.by = by /\ s.t = t - 1
PrevKnown(w) == (w.for = "step" /\ w.at \in After) => Follows(w.agent, w.t, w.prev)
LineageInv ==
  /\ LineageWhole
  /\ \A p \in Procs : PrevKnown(work[p])

LEMMA FollowsOn ==
  ASSUME rows \subseteq rows', NEW a, NEW t, NEW by, Follows(a, t, by)
  PROVE  Follows(a, t, by)'
BY DEF Follows, RowsOf

LEMMA ParentsOn ==
  ASSUME LineageWhole, rows' = rows PROVE LineageWhole'
BY DEF LineageWhole, RowsOf

\* What an access does to the rows, and to what a step knows of its parent.
LEMMA LineageAccess ==
  ASSUME TypeOK, WorkOK, NEW p \in Procs, Access(p) \/ Raises(p),
         LineageWhole, PrevKnown(work[p])
  PROVE  /\ rows \subseteq rows' /\ LineageWhole'
         /\ PrevKnown(work[p])'
<1> DEFINE w == work[p]
<1>1. w \in Work /\ Sound(w) /\ work \in [Procs -> Work]
  BY DEF TypeOK, WorkOK
<1>2. CASE ReadPrev(p)
  <2>1. rows' = rows
    BY <1>2 DEF ReadPrev, disk
  <2>2. CASE /\ RowsOf(w.agent) = {}
             /\ work' = [work EXCEPT ![p].at = "graph", ![p].prev = 0, ![p].t = 1,
                                     ![p].C = {w.turn}, ![p].mem = @ \cup {w.turn}]
    <3>1. work'[p].t = 1 /\ work'[p].prev = 0
      BY <1>1, <2>2 DEF Work
    <3> QED BY <2>1, <3>1, ParentsOn DEF PrevKnown, Follows
  <2>3. CASE Go(p, "raised")
    <3>1. work'[p].at = "raised"
      BY <1>1, <2>3 DEF Go, Work
    <3> QED BY <2>1, <3>1, ParentsOn DEF PrevKnown, After
  <2>4. ASSUME NEW r \in Latest(w.agent),
               work' = [work EXCEPT ![p].at = "graph", ![p].prev = r.by, ![p].t = r.t + 1,
                                    ![p].C = BlobOf(r).holds \cup {w.turn},
                                    ![p].mem = @ \cup {w.turn}]
        PROVE  PrevKnown(work[p])'
    <3>1. work'[p].t = r.t + 1 /\ work'[p].prev = r.by /\ work'[p].agent = w.agent
      BY <1>1, <2>4 DEF Work
    <3>2. r \in RowsOf(w.agent) /\ r.t \in Nat \ {0}
      <4>1. w.agent \in Agents
        BY <1>1 DEF Work
      <4>2. r.t \in Times
        BY <4>1, LatestType
      <4> QED BY <4>2, DirAssumption DEF Latest, Times
    <3>3. r \in rows' /\ r.agent = work'[p].agent
      BY <2>1, <3>1, <3>2 DEF RowsOf
    <3>4. work'[p].t # 1 /\ work'[p].t - 1 = r.t
      BY <3>1, <3>2
    <3>5. Follows(work[p].agent, work[p].t, work[p].prev)'
      BY <3>1, <3>3, <3>4 DEF Follows, RowsOf
    <3> QED BY <3>5 DEF PrevKnown
  <2> QED BY <1>2, <2>1, <2>2, <2>3, <2>4, ParentsOn DEF ReadPrev
<1>3. CASE ReadLatest(p)
  <2>1. work'[p].for = "flush"
    BY <1>1, <1>3 DEF ReadLatest, At, Sound, Go, Work
  <2>2. rows' = rows
    BY <1>3 DEF ReadLatest, disk
  <2> QED BY <2>1, <2>2, ParentsOn DEF PrevKnown
<1>4. CASE InsertRow(p)
  <2>1. w.for = "step" /\ w.at = "row"
    BY <1>1, <1>4 DEF InsertRow, At, Sound, Stepping
  <2>2. Follows(w.agent, w.t, w.prev)
    BY <2>1 DEF PrevKnown, After
  <2>3. rows' = rows \cup {RowOf(w)} /\ work'[p].at = "reload"
    BY <1>1, <1>4 DEF InsertRow, Go, Work
  <2>4. \A r \in rows' : Follows(r.agent, r.t, r.parent)'
    <3>1. \A r \in rows : Follows(r.agent, r.t, r.parent)
      BY DEF LineageWhole, Follows
    <3>2. Follows(RowOf(w).agent, RowOf(w).t, RowOf(w).parent)
      BY <2>2 DEF RowOf
    <3> QED BY <2>3, <3>1, <3>2, FollowsOn
  <2>5. LineageWhole'
    BY <2>4 DEF LineageWhole, Follows, RowsOf
  <2> QED BY <2>3, <2>5 DEF PrevKnown, After
<1>5. CASE \/ TruncateGraph(p) \/ WriteGraph(p) \/ TruncateSnap(p) \/ WriteSnap(p)
           \/ TruncateBlob(p) \/ WriteBlob(p) \/ SelectAgent(p) \/ InsertAgent(p)
           \/ Reload(p) \/ WriteSpans(p) \/ Raises(p)
  <2>1. rows' = rows
    BY <1>5 DEF disk, TruncateGraph, WriteGraph, TruncateSnap, WriteSnap, TruncateBlob,
       WriteBlob, SelectAgent, InsertAgent, Reload, WriteSpans, Raises
  <2>2. PICK place \in Places : Go(p, place) /\ (place \in After /\ w.for = "step" => w.at \in After)
    BY <1>5 DEF Places, After, At, TruncateGraph, WriteGraph, TruncateSnap, WriteSnap, TruncateBlob,
       WriteBlob, SelectAgent, InsertAgent, Reload, WriteSpans, Raises
  <2>3. work'[p] = [w EXCEPT !.at = place]
    BY <1>1, <2>2 DEF Go
  <2>4. PrevKnown(work[p])'
    <3>1. work'[p].at = place /\ work'[p].for = w.for /\ work'[p].agent = w.agent
          /\ work'[p].t = w.t /\ work'[p].prev = w.prev
      BY <1>1, <2>3 DEF Work
    <3> QED BY <2>1, <2>2, <3>1 DEF PrevKnown, Follows, RowsOf
  <2> QED BY <2>1, <2>4, ParentsOn
<1> QED BY <1>2, <1>3, <1>4, <1>5 DEF Access

\* A process has work only while its handler ingests.
Rest == \A p \in Procs : hook[p].at # "ingest" => work[p].at = "idle"

\* The steps of a hook that are no access leave the disk alone, and leave the process
\* without work or at the beginning of it.
LEMMA HookLeavesDisk ==
  ASSUME TypeInv, Rest, NEW p \in Procs,
         Proceed(p) \/ Kill(p) \/ \E event \in Arrives : Start(p, event), ~Works(p)
  PROVE  /\ UNCHANGED disk
         /\ work'[p].at \in {"idle", "prev", "latest"}
         /\ hook'[p].at # "ingest" => work'[p].at = "idle"
<1>0. work \in [Procs -> Work] /\ hook \in [Procs -> Hook]
  BY DEF TypeInv, HookTypes, TypeOK
<1>1. ASSUME Forget(p) PROVE work'[p].at = "idle"
  BY <1>0, <1>1 DEF Forget, Idle
<1>2. CASE LoadLatest(p)
  BY <1>0, <1>1, <1>2 DEF LoadLatest, Idle, FailsOpen, Ends
<1>3. CASE LoadAgain(p)
  <2>1. CASE FailsOpen(p)
    BY <1>1, <1>3, <2>1 DEF LoadAgain, FailsOpen, Ends
  <2>2. CASE To(p, "ingest")
    <3>1. hook'[p].at = "ingest"
      BY <1>0, <2>2 DEF To, Hook
    <3>2. work'[p].at \in {"idle", "prev", "latest"}
      BY <1>0, <1>1, <1>3 DEF LoadAgain, BeginStep, BeginFlush, Idle, FailsOpen, Ends
    <3> QED BY <1>3, <3>1, <3>2 DEF LoadAgain
  <2> QED BY <1>3, <2>1, <2>2 DEF LoadAgain
<1>4. CASE Ingested(p) \/ IngestRaised(p) \/ Sampled(p)
  BY <1>1, <1>4 DEF Ingested, IngestRaised, Sampled, FailsOpen, Ends
<1>5. CASE Composed(p) \/ Snapshot(p) \/ Kill(p) \/ Ignored(p)
  BY <1>1, <1>5 DEF Composed, Snapshot, Kill, Ignored, FailsOpen, Ends
<1>6. CASE \E event \in Arrives : Start(p, event)
  <2>1. hook[p].at = "off" /\ UNCHANGED dirVars
    BY <1>6 DEF Start
  <2> QED BY <2>1 DEF Rest, dirVars, disk
<1>7. CASE ReadGraph(p)
  <2>1. work[p].at = "idle"
    BY <1>7 DEF ReadGraph, Rest
  <2>2. work'[p].at = "idle"
    BY <1>0, <1>7, <2>1 DEF ReadGraph, Work
  <2> QED BY <1>7, <2>2 DEF ReadGraph
<1> QED BY <1>2, <1>3, <1>4, <1>5, <1>6, <1>7 DEF Proceed

LEMMA RestNext ==
  ASSUME TypeInv, Rest, NEW p \in Procs,
         Proceed(p) \/ AccessRaises(p) \/ Kill(p) \/ \E event \in Arrives : Start(p, event)
  PROVE  Rest'
<1>1. \A q \in Procs \ {p} : work'[q] = work[q] /\ hook'[q] = hook[q]
  BY TypeNext DEF StepOf
<1>2. hook'[p].at # "ingest" => work'[p].at = "idle"
  <2>1. CASE Works(p) \/ AccessRaises(p)
    BY <2>1 DEF Works, AccessRaises
  <2> QED BY <2>1, HookLeavesDisk
<1> QED BY <1>1, <1>2 DEF Rest

LEMMA LineageNext ==
  ASSUME TypeInv, Rest, LineageInv, NEW p \in Procs,
         Proceed(p) \/ AccessRaises(p) \/ Kill(p) \/ \E event \in Arrives : Start(p, event)
  PROVE  LineageInv'
<1>1. \A q \in Procs \ {p} : work'[q] = work[q]
  BY TypeNext DEF StepOf
<1>2. rows \subseteq rows' /\ LineageWhole' /\ PrevKnown(work[p])'
  <2>1. CASE Works(p) \/ AccessRaises(p)
    <3>1. Access(p) \/ Raises(p)
      BY <2>1 DEF Works, AccessRaises
    <3> QED BY <3>1, LineageAccess DEF TypeInv, HookTypes, LineageInv
  <2>2. CASE ~(Works(p) \/ AccessRaises(p))
    <3>1. UNCHANGED disk /\ work'[p].at \in {"idle", "prev", "latest"}
      BY <2>2, HookLeavesDisk
    <3> QED BY <3>1, ParentsOn DEF disk, PrevKnown, After, LineageInv
  <2> QED BY <2>1, <2>2
<1>3. ASSUME NEW q \in Procs \ {p} PROVE PrevKnown(work[q])'
  <2>1. PrevKnown(work[q]) /\ work'[q] = work[q]
    BY <1>1 DEF LineageInv
  <2> QED BY <1>2, <2>1, FollowsOn DEF PrevKnown
<1> QED BY <1>2, <1>3 DEF LineageInv

LEMMA LineageInit == Init => Rest /\ LineageInv
<1> SUFFICES ASSUME Init PROVE Rest /\ LineageInv
  OBVIOUS
<1>1. \A p \in Procs : work[p].at = "idle"
  BY DEF Init, DirInit, Idle
<1>2. LineageWhole
  BY DEF Init, DirInit, LineageWhole
<1> QED BY <1>1, <1>2 DEF Rest, LineageInv, PrevKnown, After

\* Hooks may overlap, be killed and raise: the states of a conversation have no gaps, and
\* each has a parent one step before it.
THEOREM LineageKept == Spec => []LineageWhole
<1> DEFINE Inv == TypeInv /\ Rest /\ LineageInv
<1>1. Init => Inv
  BY TypeInit, LineageInit
<1>2. Inv /\ [Next]_vars => Inv'
  <2>1. ASSUME Inv, Next PROVE Inv'
    BY <2>1, TypeNext, RestNext, LineageNext DEF Next, StepOf
  <2>2. ASSUME Inv, UNCHANGED vars PROVE Inv'
    <3>1. TypeInv'
      BY <2>2, TypeStays
    <3>2. work' = work /\ hook' = hook /\ rows' = rows
      BY <2>2 DEF vars, dirVars
    <3> QED BY <2>2, <3>1, <3>2 DEF Rest, LineageInv, LineageWhole, PrevKnown, Follows, RowsOf
  <2> QED BY <2>1, <2>2
<1>3. Inv => LineageWhole
  BY DEF LineageInv
<1> QED BY <1>1, <1>2, <1>3, PTL DEF Spec
-----------------------------------------------------------------------------
(* The answer to a prompt: the path through the handler on which a context is   *)
(* given passes the insert of the row of its turn.                             *)

Saved(p) == \E r \in rows : r.by = p
PastRow(p) == hook[p].at \in {"sample", "compose"}
              \/ (hook[p].at = "ingest" /\ work[p].at \in {"reload", "spans", "done"})
AnswerOf(p) ==
  /\ hook[p].at # "ended" => hook[p].answer = "none"
  /\ (hook[p].at = "ingest" /\ hook[p].event \in {"prompt", "response"}) =>
       work[p].for = "step" /\ work[p].turn = p
  /\ (hook[p].event = "prompt" /\ PastRow(p)) => Saved(p)
  /\ (hook[p].event = "prompt" /\ hook[p].answer = "context") => Saved(p)
AnswerInv == \A p \in Procs : AnswerOf(p)

LEMMA AnswerAccess ==
  ASSUME TypeInv, AnswerInv, NEW p \in Procs, hook[p].at = "ingest",
         Access(p) \/ Raises(p), UNCHANGED hook
  PROVE  AnswerOf(p)'
<1>1. TypeOK /\ AnswerOf(p)
  BY DEF TypeInv, HookTypes, AnswerInv
<1>2. /\ work'[p].for = work[p].for /\ work'[p].turn = work[p].turn
      /\ rows \subseteq rows'
      /\ work'[p].at \in {"reload", "spans", "done"} =>
           \/ work[p].at \in {"reload", "spans"}
           \/ work[p].for = "flush"
           \/ RowOf(work[p]) \in rows'
  BY <1>1, AccessKeeps
<1>3. Saved(p) => Saved(p)'
  BY <1>2 DEF Saved
<1>4. ASSUME hook[p].event = "prompt", work'[p].at \in {"reload", "spans", "done"}
      PROVE  Saved(p)'
  <2>1. work[p].for = "step" /\ work[p].turn = p
    BY <1>1, <1>4 DEF AnswerOf
  <2>2. CASE work[p].at \in {"reload", "spans"}
    BY <1>1, <1>3, <1>4, <2>2 DEF AnswerOf, PastRow
  <2>3. CASE RowOf(work[p]) \in rows'
    BY <2>1, <2>3 DEF Saved, RowOf
  <2> QED BY <1>2, <1>4, <2>1, <2>2, <2>3
<1> QED BY <1>1, <1>2, <1>3, <1>4 DEF AnswerOf, PastRow

\* The rest of a hook: what it answers, and where it goes.
LEMMA AnswerHook ==
  ASSUME TypeInv, AnswerInv, NEW p \in Procs,
         Proceed(p) \/ Kill(p) \/ \E event \in Arrives : Start(p, event), ~Works(p)
  PROVE  AnswerOf(p)'
<1>0. /\ work \in [Procs -> Work] /\ hook \in [Procs -> Hook] /\ AnswerOf(p)
      /\ hook[p].answer \in {"none", "context", "empty", "notice"}
  BY DEF TypeInv, HookTypes, TypeOK, AnswerInv, Hook
<1>1. ASSUME NEW place \in HookPlaces \ {"ingest", "ended"}, To(p, place), hook[p].at # "ended",
             rows' = rows, place \in {"sample", "compose"} => (hook[p].event = "prompt" => Saved(p))
      PROVE  AnswerOf(p)'
  <2>1. hook'[p].at = place /\ hook'[p].event = hook[p].event /\ hook'[p].answer = "none"
    BY <1>0, <1>1 DEF To, Hook, AnswerOf
  <2> QED BY <1>1, <2>1 DEF AnswerOf, PastRow, Saved
<1>2. ASSUME NEW answer \in {"empty", "notice"}, Answers(p, answer)
      PROVE  AnswerOf(p)'
  <2>1. hook'[p].at = "ended" /\ hook'[p].answer = answer
    BY <1>0, <1>2 DEF Answers, Hook
  <2> QED BY <2>1 DEF AnswerOf, PastRow
<1>3. CASE LoadLatest(p) \/ ReadGraph(p) \/ Ignored(p)
  BY <1>1, <1>2, <1>3 DEF LoadLatest, ReadGraph, Ignored, FailsOpen, Ends, disk, HookPlaces
<1>4. CASE LoadAgain(p)
  <2>1. CASE FailsOpen(p)
    BY <1>2, <2>1 DEF FailsOpen, Ends
  <2>2. ASSUME To(p, "ingest"),
               IF hook[p].event \in {"prompt", "response"}
               THEN BeginStep(p, work[p].agent, p, work[p].index, work[p].mem, "auto")
               ELSE BeginFlush(p, work[p].agent, work[p].index, work[p].mem)
        PROVE  AnswerOf(p)'
    <3>1. hook'[p].at = "ingest" /\ hook'[p].event = hook[p].event /\ hook'[p].answer = "none"
      BY <1>0, <1>4, <2>2 DEF To, Hook, AnswerOf, LoadAgain
    <3>2. work'[p].at \in {"prev", "latest"}
      BY <1>0, <2>2 DEF BeginStep, BeginFlush, Idle
    <3>3. hook[p].event \in {"prompt", "response"} => work'[p].for = "step" /\ work'[p].turn = p
      BY <1>0, <2>2 DEF BeginStep, Idle
    <3> QED BY <3>1, <3>2, <3>3 DEF AnswerOf, PastRow
  <2> QED BY <1>4, <2>1, <2>2 DEF LoadAgain
<1>5. CASE Ingested(p)
  <2>1. hook[p].event = "prompt" => Saved(p)
    BY <1>0, <1>5 DEF Ingested, At, AnswerOf, PastRow
  <2>2. hook[p].at = "ingest" /\ rows' = rows
    BY <1>5 DEF Ingested, disk
  <2>3. CASE hook[p].event = "response"
    BY <1>2, <1>5, <2>3 DEF Ingested, FailsOpen, Ends
  <2>4. CASE To(p, "snapshot") \/ To(p, "sample")
    BY <1>1, <2>1, <2>2, <2>4 DEF HookPlaces
  <2> QED BY <1>5, <2>3, <2>4 DEF Ingested
<1>6. CASE IngestRaised(p) \/ Snapshot(p)
  BY <1>2, <1>6 DEF IngestRaised, Snapshot, FailsOpen, Ends
<1>7. CASE Sampled(p)
  <2>1. hook[p].event = "prompt" => Saved(p)
    BY <1>0, <1>7 DEF Sampled, AnswerOf, PastRow
  <2>2. hook[p].at = "sample" /\ rows' = rows
    BY <1>7 DEF Sampled, disk
  <2>3. CASE To(p, "compose")
    BY <1>1, <2>1, <2>2, <2>3 DEF HookPlaces
  <2>4. CASE FailsOpen(p)
    BY <1>2, <2>4 DEF FailsOpen, Ends
  <2> QED BY <1>7, <2>3, <2>4 DEF Sampled
<1>8. CASE Composed(p)
  <2>1. hook[p].event = "prompt" => Saved(p)
    BY <1>0, <1>8 DEF Composed, AnswerOf, PastRow
  <2>2. rows' = rows
    BY <1>8 DEF Composed, disk
  <2>3. CASE FailsOpen(p)
    BY <1>2, <2>3 DEF FailsOpen, Ends
  <2>4. CASE Ends(p, "context")
    <3>1. hook'[p].at = "ended" /\ hook'[p].event = hook[p].event
      BY <1>0, <2>4 DEF Ends, Answers, Hook
    <3> QED BY <2>1, <2>2, <3>1 DEF AnswerOf, PastRow, Saved
  <2> QED BY <1>8, <2>3, <2>4 DEF Composed
<1>9. CASE Kill(p)
  BY <1>1, <1>9 DEF Kill, Runs, HookPlaces, disk
<1>10. CASE \E event \in Arrives : Start(p, event)
  <2>1. hook'[p].at = "load" /\ hook'[p].answer = "none"
    BY <1>0, <1>10 DEF Start, Hook, AnswerOf
  <2> QED BY <2>1 DEF AnswerOf, PastRow
<1> QED BY <1>3, <1>4, <1>5, <1>6, <1>7, <1>8, <1>9, <1>10 DEF Proceed

LEMMA AnswerNext ==
  ASSUME TypeInv, Rest, AnswerInv, NEW p \in Procs,
         Proceed(p) \/ AccessRaises(p) \/ Kill(p) \/ \E event \in Arrives : Start(p, event)
  PROVE  AnswerInv'
<1>1. \A q \in Procs \ {p} : work'[q] = work[q] /\ hook'[q] = hook[q]
  BY TypeNext DEF StepOf
<1>2. AnswerOf(p)' /\ rows \subseteq rows'
  <2>1. CASE Works(p) \/ AccessRaises(p)
    <3>1. (Access(p) \/ Raises(p)) /\ UNCHANGED hook /\ hook[p].at = "ingest"
      BY <2>1 DEF Works, AccessRaises
    <3> QED BY <3>1, AnswerAccess, AccessKeeps DEF TypeInv, HookTypes
  <2>2. CASE ~(Works(p) \/ AccessRaises(p))
    BY <2>2, AnswerHook, HookLeavesDisk DEF disk
  <2> QED BY <2>1, <2>2
<1>3. ASSUME NEW q \in Procs \ {p} PROVE AnswerOf(q)'
  <2>1. AnswerOf(q) /\ work'[q] = work[q] /\ hook'[q] = hook[q]
    BY <1>1 DEF AnswerInv
  <2> QED BY <1>2, <2>1 DEF AnswerOf, PastRow, Saved
<1> QED BY <1>2, <1>3 DEF AnswerInv

LEMMA AnswerInit == Init => AnswerInv
BY DEF Init, AnswerInv, AnswerOf, PastRow

\* A context is never the answer to a prompt whose turn has no state, wherever a step raised.
THEOREM AnswersAreSaved == Spec => []AnsweredIsSaved
<1> DEFINE Inv == TypeInv /\ Rest /\ AnswerInv
<1>1. Init => Inv
  BY TypeInit, LineageInit, AnswerInit
<1>2. Inv /\ [Next]_vars => Inv'
  <2>1. ASSUME Inv, Next PROVE Inv'
    BY <2>1, TypeNext, RestNext, AnswerNext DEF Next, StepOf
  <2>2. ASSUME Inv, UNCHANGED vars PROVE Inv'
    <3>1. TypeInv'
      BY <2>2, TypeStays
    <3>2. work' = work /\ hook' = hook /\ rows' = rows
      BY <2>2 DEF vars, dirVars
    <3> QED BY <2>2, <3>1, <3>2 DEF Rest, AnswerInv, AnswerOf, PastRow, Saved
  <2> QED BY <2>1, <2>2
<1>3. Inv => AnsweredIsSaved
  BY DEF AnswerInv, AnswerOf, AnsweredIsSaved, Saved
<1> QED BY <1>1, <1>2, <1>3, PTL DEF Spec
-----------------------------------------------------------------------------
(* Hooks that wait for each other: one process runs at a time, so that what it  *)
(* read is still so when it writes.                                            *)

AnyStep(p) == Proceed(p) \/ AccessRaises(p) \/ Kill(p) \/ \E event \in Arrives : Start(p, event)
AloneInv == Serial => \A p, q \in Procs : (Runs(p) /\ Runs(q)) => p = q

LEMMA StepRuns ==
  ASSUME NEW p \in Procs, AnyStep(p)
  PROVE  Runs(p) \/ (\E event \in Arrives : Start(p, event))
BY DEF AnyStep, Proceed, AccessRaises, Kill, Runs, Ignored, LoadLatest, ReadGraph, LoadAgain, Works,
   Ingested, IngestRaised, Sampled, Composed, Snapshot

LEMMA Alone ==
  ASSUME Serial, Rest, AloneInv, NEW p \in Procs, AnyStep(p)
  PROVE  \A q \in Procs \ {p} : ~Runs(q) /\ work[q].at = "idle"
<1>1. ASSUME NEW q \in Procs \ {p} PROVE ~Runs(q)
  BY StepRuns DEF AloneInv, Start
<1>2. ASSUME NEW q \in Procs, ~Runs(q) PROVE work[q].at = "idle"
  BY <1>2 DEF Rest, Runs
<1> QED BY <1>1, <1>2

LEMMA AloneNext ==
  ASSUME TypeInv, Rest, AloneInv, NEW p \in Procs, AnyStep(p)
  PROVE  AloneInv'
<1>1. \A q \in Procs \ {p} : hook'[q] = hook[q]
  BY TypeNext DEF StepOf, AnyStep
<1>2. Serial => \A q \in Procs \ {p} : ~Runs(q)'
  BY <1>1, Alone DEF Runs
<1> QED BY <1>2 DEF AloneInv

LEMMA AloneInit == Init => AloneInv
BY DEF Init, AloneInv, Runs

-----------------------------------------------------------------------------
(* What graph.json holds: a process has the turns of every row in memory from   *)
(* the time it has read the file, and writes them before it writes its row.    *)

Before == {"prev", "latest", "graph", "graph half"}
Beyond == {"snap", "snap half", "blob", "blob half", "agent", "new agent", "row"}
GraphOf(p) ==
  /\ (hook[p].at = "load again" \/ work[p].at \in Before) =>
       \A r \in RowsOf(work[p].agent) : r.by \in work[p].mem
  /\ (work[p].for = "step" /\ work[p].at \in After) => work[p].turn \in work[p].mem
  /\ (work[p].for = "step" /\ work[p].at \in Beyond) => graph[work[p].agent] = Whole(work[p].mem)
GraphFiles ==
  /\ \A a \in Agents : graph[a].is = "torn" =>
       \E p \in Procs : work[p].at = "graph half" /\ work[p].agent = a
  /\ \A r \in rows : graph[r.agent].is # "absent"
  /\ \A r \in rows : graph[r.agent].is = "whole" => r.by \in graph[r.agent].holds
GraphInv == (Serial /\ ~scarred) => (GraphFiles /\ \A p \in Procs : GraphOf(p))

LEMMA GraphAccess ==
  ASSUME TypeOK, WorkOK, NEW p \in Procs, Access(p) \/ (Raises(p) /\ ~Tears(p)),
         \A q \in Procs \ {p} : work[q].at = "idle",
         hook[p].at = "ingest", UNCHANGED hook, GraphFiles, GraphOf(p)
  PROVE  GraphFiles' /\ GraphOf(p)'
<1> DEFINE w == work[p]
           a == work[p].agent
<1>1. /\ w \in Work /\ Sound(w) /\ work \in [Procs -> Work] /\ graph \in [Agents -> File]
      /\ a \in Agents /\ w.mem \in SUBSET Turns
  BY DEF TypeOK, WorkOK, Work
<1>2. \A b \in Agents : graph[b].is = "torn" => (w.at = "graph half" /\ a = b)
  BY DEF GraphFiles
<1>3. \A r \in rows : r.agent \in Agents
  BY DEF TypeOK, Row
<1>a. hook'[p].at # "load again"
  OBVIOUS
<1>4. CASE ReadPrev(p)
  <2>1. graph' = graph /\ rows' = rows /\ w.at = "prev" /\ w.for = "step"
    BY <1>1, <1>4 DEF ReadPrev, disk, At, Sound, Stepping
  <2>2. GraphFiles'
    BY <1>2, <2>1 DEF GraphFiles
  <2>4. ASSUME work' = [work EXCEPT ![p].at = "graph", ![p].prev = 0, ![p].t = 1,
                                    ![p].C = {w.turn}, ![p].mem = @ \cup {w.turn}]
        PROVE  GraphOf(p)'
    <3>1. /\ work'[p].at = "graph" /\ work'[p].agent = a /\ work'[p].mem = w.mem \cup {w.turn}
          /\ work'[p].turn = w.turn
      BY <1>1, <2>4 DEF Work
    <3> QED BY <1>a, <2>1, <3>1 DEF GraphOf, RowsOf, Before, Beyond
  <2>5. ASSUME NEW r \in Latest(a),
               work' = [work EXCEPT ![p].at = "graph", ![p].prev = r.by, ![p].t = r.t + 1,
                                    ![p].C = BlobOf(r).holds \cup {w.turn}, ![p].mem = @ \cup {w.turn}]
        PROVE  GraphOf(p)'
    <3>1. /\ work'[p].at = "graph" /\ work'[p].agent = a /\ work'[p].mem = w.mem \cup {w.turn}
          /\ work'[p].turn = w.turn
      BY <1>1, <2>5 DEF Work
    <3> QED BY <1>a, <2>1, <3>1 DEF GraphOf, RowsOf, Before, Beyond
  <2>6. ASSUME Go(p, "raised") PROVE GraphOf(p)'
    <3>1. work'[p].at = "raised"
      BY <1>1, <2>6 DEF Go, Work
    <3> QED BY <1>a, <3>1 DEF GraphOf, Before, Beyond, After
  <2>7. GraphOf(p)'
    <3> HIDE DEF GraphOf
    <3> QED BY <1>4, <2>4, <2>5, <2>6 DEF ReadPrev
  <2> QED BY <2>2, <2>7
<1>5. CASE ReadLatest(p)
  <2>1. graph' = graph /\ rows' = rows /\ w.at = "latest" /\ w.for = "flush"
    BY <1>1, <1>5 DEF ReadLatest, disk, At, Sound
  <2>2. GraphFiles'
    BY <1>2, <2>1 DEF GraphFiles
  <2>3. /\ work'[p].at \in {"graph", "raised"} /\ work'[p].agent = a /\ work'[p].mem = w.mem
        /\ work'[p].for = "flush"
    BY <1>1, <1>5, <2>1 DEF ReadLatest, Go, Work
  <2>4. GraphOf(p)'
    BY <1>a, <2>1, <2>3 DEF GraphOf, RowsOf, Before
  <2> QED BY <2>2, <2>4
<1>6. ASSUME NEW place \in Places, Go(p, place), rows' = rows, graph' = graph,
             w.at # "graph half", place \notin Before,
             (place \in Beyond /\ w.for = "step") => w.at \in Beyond
      PROVE  GraphFiles' /\ GraphOf(p)'
  <2>1. work'[p] = [w EXCEPT !.at = place]
    BY <1>1, <1>6 DEF Go
  <2>2. /\ work'[p].at = place /\ work'[p].agent = a /\ work'[p].mem = w.mem
        /\ work'[p].turn = w.turn /\ work'[p].for = w.for
    BY <1>1, <2>1 DEF Work
  <2>3. GraphFiles'
    BY <1>2, <1>6 DEF GraphFiles
  <2>4. GraphOf(p)'
    BY <1>a, <1>6, <2>2 DEF GraphOf, RowsOf, Before, Beyond, After
  <2> QED BY <2>3, <2>4
<1>7. CASE TruncateGraph(p)
  <2>1. work'[p] = [w EXCEPT !.at = "graph half"] /\ rows' = rows /\ w.at = "graph"
    BY <1>1, <1>7 DEF TruncateGraph, Go, At
  <2>2. /\ work'[p].at = "graph half" /\ work'[p].agent = a /\ work'[p].mem = w.mem
        /\ work'[p].turn = w.turn /\ work'[p].for = w.for
    BY <1>1, <2>1 DEF Work
  <2>3. graph' = [graph EXCEPT ![a] = TornFile] /\ TornFile.is = "torn"
    BY <1>7 DEF TruncateGraph, TornFile
  <2>4. GraphFiles'
    <3>1. \A b \in Agents : graph'[b].is = "torn" => b = a
      BY <1>1, <1>2, <2>1, <2>3
    <3>2. \A r \in rows : r.agent = a \/ graph'[r.agent] = graph[r.agent]
      BY <1>1, <1>3, <2>3
    <3>3. graph'[a].is = "torn"
      BY <1>1, <2>3
    <3> QED BY <2>1, <2>2, <3>1, <3>2, <3>3 DEF GraphFiles
  <2>5. GraphOf(p)'
    BY <1>a, <2>1, <2>2 DEF GraphOf, RowsOf, Before, Beyond, After
  <2> QED BY <2>4, <2>5
<1>8. CASE WriteGraph(p)
  <2>1. PICK place \in {"snap", "blob"} : work'[p] = [w EXCEPT !.at = place]
    BY <1>1, <1>8 DEF WriteGraph, Go
  <2>2. /\ work'[p].at = place /\ work'[p].agent = a /\ work'[p].mem = w.mem
        /\ work'[p].turn = w.turn /\ work'[p].for = w.for
    BY <1>1, <2>1 DEF Work
  <2>3. /\ graph' = [graph EXCEPT ![a] = Whole(w.mem)] /\ Whole(w.mem).is = "whole"
        /\ Whole(w.mem).holds = w.mem /\ rows' = rows /\ w.at = "graph half"
    BY <1>8 DEF WriteGraph, Whole, At
  <2>4. GraphFiles'
    <3>1. \A b \in Agents : graph'[b].is # "torn"
      BY <1>1, <1>2, <2>3
    <3>2. \A r \in rows : r.agent = a => r.by \in w.mem
      BY <2>3 DEF GraphOf, Before, RowsOf
    <3>3. \A r \in rows : r.agent = a \/ graph'[r.agent] = graph[r.agent]
      BY <1>1, <1>3, <2>3
    <3>4. graph'[a] = Whole(w.mem)
      BY <1>1, <2>3
    <3>5. ASSUME NEW r \in rows
          PROVE  /\ graph'[r.agent].is # "absent"
                 /\ graph'[r.agent].is = "whole" => r.by \in graph'[r.agent].holds
      <4>1. CASE r.agent = a
        BY <2>3, <3>2, <3>4, <4>1
      <4>2. CASE r.agent # a
        BY <3>3, <4>2 DEF GraphFiles
      <4> QED BY <4>1, <4>2
    <3> QED BY <2>3, <3>1, <3>5 DEF GraphFiles
  <2>5. GraphOf(p)'
    BY <1>1, <1>a, <2>2, <2>3 DEF GraphOf, Before, Beyond, After
  <2> QED BY <2>4, <2>5
<1>9. CASE InsertRow(p)
  <2>1. work'[p].at = "reload" /\ rows' = rows \cup {RowOf(w)} /\ graph' = graph /\ w.at = "row"
    BY <1>1, <1>9 DEF InsertRow, Go, At, Work
  <2>2. w.for = "step" /\ graph[a] = Whole(w.mem) /\ w.turn \in w.mem
    BY <1>1, <2>1 DEF Sound, Stepping, GraphOf, Beyond, After
  <2>3. RowOf(w).agent = a /\ RowOf(w).by = w.turn
    BY DEF RowOf
  <2>4. GraphFiles'
    <3>1. \A b \in Agents : graph[b].is # "torn"
      BY <1>2, <2>1
    <3>2. ASSUME NEW r \in rows'
          PROVE  /\ graph[r.agent].is # "absent"
                 /\ graph[r.agent].is = "whole" => r.by \in graph[r.agent].holds
      <4>1. CASE r \in rows
        BY <4>1 DEF GraphFiles
      <4>2. CASE r = RowOf(w)
        BY <2>2, <2>3, <4>2 DEF Whole
      <4> QED BY <2>1, <4>1, <4>2
    <3> QED BY <2>1, <3>1, <3>2 DEF GraphFiles
  <2>5. GraphOf(p)'
    BY <1>a, <2>1 DEF GraphOf, Before, Beyond, After
  <2> QED BY <2>4, <2>5
<1>10. CASE Raises(p) /\ ~Tears(p)
  BY <1>6, <1>10 DEF Raises, Tears, Places, Before, Beyond, disk
<1>11. CASE TruncateSnap(p) \/ TruncateBlob(p) \/ WriteBlob(p)
  BY <1>6, <1>11 DEF TruncateSnap, TruncateBlob, WriteBlob, At, Places, Before, Beyond, disk
<1>12. CASE WriteSnap(p)
  BY <1>6, <1>12 DEF WriteSnap, At, Places, Before, Beyond, disk
<1>13. CASE SelectAgent(p) \/ InsertAgent(p)
  BY <1>6, <1>13 DEF SelectAgent, InsertAgent, At, Places, Before, Beyond, disk
<1>14. CASE Reload(p) \/ WriteSpans(p)
  BY <1>6, <1>14 DEF Reload, WriteSpans, At, Places, Before, Beyond, disk
<1> QED BY <1>4, <1>5, <1>7, <1>8, <1>9, <1>10, <1>11, <1>12, <1>13, <1>14 DEF Access
\* The steps of a hook that are no access.
LEMMA GraphHook ==
  ASSUME TypeInv, Rest, NEW p \in Procs,
         Proceed(p) \/ Kill(p) \/ \E event \in Arrives : Start(p, event), ~Works(p),
         GraphFiles, GraphOf(p),
         \A q \in Procs \ {p} : work[q].at = "idle" /\ work'[q] = work[q],
         ~scarred'
  PROVE  GraphFiles' /\ GraphOf(p)'
<1>0. /\ work \in [Procs -> Work] /\ hook \in [Procs -> Hook] /\ graph \in [Agents -> File]
      /\ rows \subseteq Row
  BY DEF TypeInv, HookTypes, TypeOK
<1>1. /\ UNCHANGED disk /\ work'[p].at \in {"idle", "prev", "latest"}
      /\ rows' = rows /\ graph' = graph
  BY HookLeavesDisk DEF disk
<1>2. work[p].at # "graph half"
  <2>1. CASE Kill(p)
    BY <2>1 DEF Kill, Tears
  <2>2. CASE ~Kill(p)
    BY <2>2 DEF Rest, Proceed, Start, Ignored, LoadLatest, ReadGraph, LoadAgain, Ingested, IngestRaised,
       Sampled, Composed, Snapshot, At
  <2> QED BY <2>1, <2>2
<1>3. GraphFiles'
  BY <1>1, <1>2 DEF GraphFiles
<1> SUFFICES GraphOf(p)'
  BY <1>3
<1>4. ASSUME hook'[p].at # "load again", work'[p].at = "idle" PROVE GraphOf(p)'
  BY <1>4 DEF GraphOf, Before, Beyond, After
<1>5. ASSUME NEW place \in HookPlaces \ {"load again"}, To(p, place), work'[p].at = "idle"
      PROVE  GraphOf(p)'
  <2>1. hook'[p].at = place
    BY <1>0, <1>5 DEF To, Hook
  <2> QED BY <1>4, <1>5, <2>1
<1>6. ASSUME NEW answer \in {"context", "empty", "notice"}, Answers(p, answer)
      PROVE  GraphOf(p)'
  <2>1. hook'[p].at = "ended"
    BY <1>0, <1>6 DEF Answers, Hook
  <2>2. work'[p].at = "idle"
    BY <2>1, HookLeavesDisk
  <2> QED BY <1>4, <2>1, <2>2
<1>7. CASE LoadLatest(p) \/ Ignored(p)
  <2>1. To(p, "read graph") => work'[p].at = "idle"
    BY <1>0, HookLeavesDisk DEF To, Hook
  <2> QED BY <1>5, <1>6, <1>7, <2>1 DEF LoadLatest, Ignored, FailsOpen, Ends, HookPlaces
<1>8. CASE ReadGraph(p)
  <2> DEFINE g == graph[work[p].agent]
  <2>1. work[p].at = "idle" /\ work[p].agent \in Agents
    BY <1>0, <1>8 DEF ReadGraph, Rest, Work
  <2>2. /\ work'[p].agent = work[p].agent /\ work'[p].at = "idle"
        /\ work'[p].mem = IF g.is = "whole" THEN g.holds ELSE work[p].mem
    BY <1>0, <1>8, <2>1 DEF ReadGraph, Work
  <2>3. g.is \in {"absent", "torn", "whole"} /\ g.is # "torn"
    BY <1>0, <1>2, <2>1 DEF GraphFiles, File
  <2>4. \A r \in RowsOf(work[p].agent) : g.is = "whole" /\ r.by \in g.holds
    <3>1. ASSUME NEW r \in RowsOf(work[p].agent) PROVE r \in rows /\ graph[r.agent] = g
      BY DEF RowsOf
    <3>2. ASSUME NEW r \in RowsOf(work[p].agent) PROVE g.is # "absent" /\ (g.is = "whole" => r.by \in g.holds)
      <4>1. /\ graph[r.agent].is # "absent"
            /\ graph[r.agent].is = "whole" => r.by \in graph[r.agent].holds
        BY <3>1 DEF GraphFiles
      <4>2. graph[r.agent] = g
        BY <3>1
      <4> HIDE DEF g
      <4> QED BY <4>1, <4>2
    <3> QED BY <2>3, <3>2
  <2>5. \A r \in rows : r.agent = work'[p].agent => r.by \in work'[p].mem
    BY <2>2, <2>4 DEF RowsOf
  <2> QED BY <1>1, <2>2, <2>5 DEF GraphOf, RowsOf, Before, Beyond, After
<1>9. CASE LoadAgain(p)
  <2>1. CASE FailsOpen(p)
    BY <1>6, <2>1 DEF FailsOpen, Ends
  <2>2. CASE ~FailsOpen(p)
    <3>1. /\ work'[p].at \in {"prev", "latest"} /\ work'[p].agent = work[p].agent
          /\ work'[p].mem = work[p].mem
      BY <1>0, <1>9, <2>2 DEF LoadAgain, BeginStep, BeginFlush, Idle
    <3>2. \A r \in rows : r.agent = work[p].agent => r.by \in work[p].mem
      BY <1>9 DEF LoadAgain, GraphOf, RowsOf
    <3> QED BY <1>1, <3>1, <3>2 DEF GraphOf, RowsOf, Beyond, After
  <2> QED BY <2>1, <2>2
<1>10. CASE Ingested(p)
  <2>1. CASE FailsOpen(p)
    BY <1>6, <2>1 DEF FailsOpen, Ends
  <2>2. CASE Forget(p) /\ (To(p, "snapshot") \/ To(p, "sample"))
    <3>1. work'[p].at = "idle"
      BY <1>0, <2>2 DEF Forget, Idle
    <3> QED BY <1>5, <2>2, <3>1 DEF HookPlaces
  <2> QED BY <1>10, <2>1, <2>2 DEF Ingested
<1>11. CASE Sampled(p) \/ Kill(p)
  <2>1. CASE FailsOpen(p)
    BY <1>6, <2>1 DEF FailsOpen, Ends
  <2>2. CASE Forget(p) /\ (To(p, "compose") \/ To(p, "killed"))
    <3>1. work'[p].at = "idle"
      BY <1>0, <2>2 DEF Forget, Idle
    <3> QED BY <1>5, <2>2, <3>1 DEF HookPlaces
  <2> QED BY <1>11, <2>1, <2>2 DEF Sampled, Kill
<1>12. CASE IngestRaised(p) \/ Composed(p) \/ Snapshot(p)
  BY <1>6, <1>12 DEF IngestRaised, Composed, Snapshot, FailsOpen, Ends
<1>13. CASE \E event \in Arrives : Start(p, event)
  <2>1. hook'[p].at = "load" /\ work' = work /\ hook[p].at = "off"
    BY <1>0, <1>13 DEF Start, dirVars, Hook
  <2> QED BY <1>4, <2>1 DEF Rest
<1> QED BY <1>7, <1>8, <1>9, <1>10, <1>11, <1>12, <1>13 DEF Proceed

LEMMA GraphNext ==
  ASSUME TypeInv, Rest, AloneInv, GraphInv, NEW p \in Procs, AnyStep(p)
  PROVE  GraphInv'
<1> SUFFICES ASSUME Serial, ~scarred' PROVE GraphFiles' /\ \A q \in Procs : GraphOf(q)'
  BY DEF GraphInv
<1>1. /\ \A q \in Procs \ {p} : work'[q] = work[q] /\ hook'[q] = hook[q]
      /\ \A q \in Procs \ {p} : ~Runs(q) /\ work[q].at = "idle"
  BY Alone, TypeNext DEF StepOf, AnyStep
<1>2. ~scarred
  BY DEF AnyStep, Proceed, AccessRaises, Kill, Start, Calm, Ignored, LoadLatest, ReadGraph, LoadAgain,
     Works, Ingested, IngestRaised, Sampled, Composed, Snapshot
<1>3. GraphFiles /\ GraphOf(p) /\ TypeOK /\ WorkOK
  BY <1>2 DEF GraphInv, TypeInv, HookTypes
<1>4. GraphFiles' /\ GraphOf(p)'
  <2>1. CASE Works(p) \/ AccessRaises(p)
    <3>1. /\ Access(p) \/ (Raises(p) /\ ~Tears(p))
          /\ hook[p].at = "ingest" /\ UNCHANGED hook
      BY <2>1 DEF Works, AccessRaises
    <3> QED BY <1>1, <1>3, <3>1, GraphAccess
  <2>2. CASE ~(Works(p) \/ AccessRaises(p))
    BY <1>1, <1>3, <2>2, GraphHook DEF AnyStep
  <2> QED BY <2>1, <2>2
<1>5. ASSUME NEW q \in Procs \ {p} PROVE GraphOf(q)'
  BY <1>1 DEF GraphOf, Runs, Before, Beyond, After
<1> QED BY <1>4, <1>5

LEMMA GraphInit == Init => GraphInv
<1> SUFFICES ASSUME Init PROVE GraphFiles /\ \A p \in Procs : GraphOf(p)
  BY DEF GraphInv
<1>1. \A p \in Procs : work[p].at = "idle" /\ hook[p].at = "off"
  BY DEF Init, DirInit, Idle
<1>2. GraphFiles
  BY DEF Init, DirInit, GraphFiles, NoFile
<1> QED BY <1>1, <1>2 DEF GraphOf, Before, Beyond, After

LEMMA SerialStays ==
  ASSUME Rest, AloneInv, GraphInv, UNCHANGED vars
  PROVE  Rest' /\ AloneInv' /\ GraphInv'
BY DEF vars, dirVars, Rest, AloneInv, Runs, GraphInv, GraphFiles, GraphOf, RowsOf

\* For hooks that wait for each other: unless a death left graph.json torn, the next process
\* finds in it every turn that has a state.
THEOREM GraphKept == Spec => []GraphHoldsStates
<1> DEFINE Inv == TypeInv /\ Rest /\ AloneInv /\ GraphInv
<1>1. Init => Inv
  BY TypeInit, LineageInit, AloneInit, GraphInit
<1>2. Inv /\ [Next]_vars => Inv'
  BY TypeNext, RestNext, AloneNext, GraphNext, TypeStays, SerialStays DEF Next, StepOf, AnyStep
<1>3. Inv => GraphHoldsStates
  BY DEF GraphInv, GraphFiles, GraphHoldsStates
<1> QED BY <1>1, <1>2, <1>3, PTL DEF Spec
-----------------------------------------------------------------------------
(* The store is a log, for hooks that wait for each other.                      *)

DenseInv == Dense /\ \A p \in Procs : Adding(work[p])

LEMMA DenseNext ==
  ASSUME Serial, TypeInv, Rest, AloneInv, DenseInv, NEW p \in Procs, AnyStep(p)
  PROVE  DenseInv' /\ (SameLogs \/ \E a \in Agents, turn \in Turns : Log!Save(a, turn))
<1>1. /\ \A q \in Procs \ {p} : work'[q] = work[q] /\ work[q].at = "idle"
      /\ TypeOK /\ TypeOK' /\ WorkOK
  BY Alone, TypeNext DEF StepOf, AnyStep, TypeInv, HookTypes
<1>2. /\ Dense' /\ Adding(work[p])'
      /\ SameLogs \/ \E a \in Agents, turn \in Turns : Log!Save(a, turn)
  <2>1. CASE Works(p) \/ AccessRaises(p)
    <3>1. Access(p) \/ Raises(p)
      BY <2>1 DEF Works, AccessRaises
    <3>2. work[p].agent \in Agents
      BY <1>1 DEF TypeOK, Work
    <3>3. /\ Dense' /\ Adding(work[p])'
          /\ SameLogs \/ (work[p].turn \in Turns /\ Log!Save(work[p].agent, work[p].turn))
      BY <1>1, <3>1, DenseAccess DEF DenseInv
    <3> QED BY <3>2, <3>3
  <2>2. CASE ~(Works(p) \/ AccessRaises(p))
    <3>1. UNCHANGED disk /\ work'[p].at \in {"idle", "prev", "latest"}
      BY <2>2, HookLeavesDisk DEF AnyStep
    <3> QED BY <3>1, DenseStays DEF disk, Adding, After, DenseInv, SameLogs
  <2> QED BY <2>1, <2>2
<1>3. ASSUME NEW q \in Procs \ {p} PROVE Adding(work[q])'
  BY <1>1 DEF Adding, After
<1> QED BY <1>2, <1>3 DEF DenseInv

LEMMA DenseInit == Init => DenseInv /\ Log!Init
<1> SUFFICES ASSUME Init PROVE DenseInv /\ Log!Init
  OBVIOUS
<1>1. \A p \in Procs : work[p].at = "idle"
  BY DEF Init, DirInit, Idle
<1>2. \A p \in Procs : Adding(work[p])
  BY <1>1 DEF Adding, After
<1> QED BY <1>2, DirDense DEF Init, DenseInv

\* For hooks that wait for each other, whatever is killed or raises at any access, the store
\* is a log: each state is the newest one and one turn, and none is touched again.
THEOREM StoreIsALog ==
  ASSUME Serial
  PROVE  Spec => SavesAppend
<1> DEFINE Inv == TypeInv /\ Rest /\ AloneInv /\ DenseInv
           logs == [a \in Agents |-> LogOf(a)]
<1>1. Init => Inv /\ Log!Init
  BY TypeInit, LineageInit, AloneInit, DenseInit
<1>2. Inv /\ [Next]_vars => Inv' /\ [Log!Next]_logs
  <2>1. ASSUME Inv, Next PROVE Inv' /\ [Log!Next]_logs
    <3>1. PICK p \in Procs : AnyStep(p)
      BY <2>1 DEF Next, AnyStep
    <3>2. TypeInv' /\ Rest' /\ AloneInv'
      BY <2>1, <3>1, TypeNext, RestNext, AloneNext DEF AnyStep, StepOf
    <3>3. DenseInv' /\ (SameLogs \/ \E a \in Agents, turn \in Turns : Log!Save(a, turn))
      BY <2>1, <3>1, DenseNext
    <3>4. SameLogs => logs' = logs
      BY DEF SameLogs
    <3> QED BY <3>2, <3>3, <3>4 DEF Log!Next
  <2>2. ASSUME Inv, UNCHANGED vars PROVE Inv' /\ [Log!Next]_logs
    <3>1. /\ rows' = rows /\ blobs' = blobs /\ work' = work /\ hook' = hook
      BY <2>2 DEF vars, dirVars
    <3>2. TypeInv' /\ Rest' /\ AloneInv'
      BY <2>2, <3>1, TypeStays DEF Rest, AloneInv, Runs
    <3>3. DenseInv'
      BY <2>2, <3>1, DenseStays DEF DenseInv, Adding
    <3>4. logs' = logs
      BY <2>2, <3>1, DenseStays DEF DenseInv
    <3> QED BY <3>2, <3>3, <3>4
  <2> QED BY <2>1, <2>2
<1> QED BY <1>1, <1>2, PTL DEF Spec, SavesAppend, Log!Spec
=============================================================================
