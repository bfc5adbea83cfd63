------------------------------ MODULE StateDir ------------------------------
(***************************************************************************)
(* The state directory of the Python engine, and what a handle does to it   *)
(* (handle.py PersistentAgentHandle, store.py StateStore).  Front ends      *)
(* (HookCli, ClawCli) start work in a process and take its outcome.         *)
(*                                                                         *)
(* An action is one access to a file or a table.  A process has no lock, so *)
(* the others run between any two of them.  A file is truncated and then    *)
(* written: in between, and for good if its writer dies there, it is torn.  *)
(*                                                                         *)
(* Data.  A turn is a number.  A matrix and a graph are the turns that went *)
(* into them.  What sampling reads and records (inject history, spans) is   *)
(* left to the module Forward.                                              *)
(***************************************************************************)
EXTENDS Integers, FiniteSets, Sequences

CONSTANTS
  Procs,         \* processes that may have work
  Agents,        \* agent ids
  Turns,         \* turns that may be stepped
  Every,         \* GRAPH_FLUSH_EVERY
  MaxT           \* bounds t

ASSUME DirAssumption ==
  /\ Turns \subseteq Nat \ {0} /\ Every \in Nat \ {0} /\ MaxT \in Nat \ {0}
Times == 1..MaxT

VARIABLES
  known,         \* table agents
  rows,          \* table states
  blobs,         \* <agent>/t%04d.safetensors, by t
  graph,         \* <agent>/graph.json
  snaps,         \* <agent>/graph_t<t>.json, by t
  work           \* what each process is doing

disk == <<known, rows, blobs, graph, snaps>>
dirVars == <<known, rows, blobs, graph, snaps, work>>

File == [is : {"absent", "torn", "whole"}, holds : SUBSET Turns]
NoFile == [is |-> "absent", holds |-> {}]
TornFile == [is |-> "torn", holds |-> {}]
Whole(turns) == [is |-> "whole", holds |-> turns]

\* by names the row (state_id): each is written for one turn.
Row == [agent : Agents, by : Turns, t : Times, parent : Turns \cup {0},
        graph : {"working", "snapshot"}]
Places == {"idle", "prev", "graph", "graph half", "snap", "snap half", "blob",
           "blob half", "agent", "new agent", "row", "reload", "spans", "latest", "done", "raised"}
\* snap: the parameter flush_graph of step, and always of a flush.
Work == [at : Places, for : {"step", "flush"}, snap : {"auto", "always", "never"},
         agent : Agents, turn : Turns \cup {0}, index : 0..MaxT, mem : SUBSET Turns,
         t : Times, prev : Turns \cup {0}, C : SUBSET Turns]

TypeOK ==
  /\ known \subseteq Agents /\ rows \subseteq Row
  /\ blobs \in [Agents \X Times -> File] /\ snaps \in [Agents \X Times -> File]
  /\ graph \in [Agents -> File]
  /\ work \in [Procs -> Work]

RowsOf(a) == {r \in rows : r.agent = a}
\* load_latest: ORDER BY t DESC LIMIT 1.  Which of two rows of one t comes first is not said.
Latest(a) == {r \in RowsOf(a) : \A s \in RowsOf(a) : s.t <= r.t}
BlobOf(r) == blobs[<<r.agent, r.t>>]

Idle(a) == [at |-> "idle", for |-> "step", snap |-> "auto", agent |-> a, turn |-> 0,
            index |-> 0, mem |-> {}, t |-> 1, prev |-> 0, C |-> {}]
DirInit ==
  /\ known = {} /\ rows = {}
  /\ blobs = [f \in Agents \X Times |-> NoFile] /\ snaps = [f \in Agents \X Times |-> NoFile]
  /\ graph = [a \in Agents |-> NoFile]
  /\ \E a \in Agents : work = [p \in Procs |-> Idle(a)]

-----------------------------------------------------------------------------
At(p, place) == work[p].at = place
Go(p, place) == work' = [work EXCEPT ![p].at = place]
Forget(p) == work' = [work EXCEPT ![p] = Idle(work[p].agent)]
BeginStep(p, a, turn, index, mem, snap) ==
  work' = [work EXCEPT ![p] = [Idle(a) EXCEPT !.at = "prev", !.turn = turn, !.index = index,
                                              !.mem = mem, !.snap = snap]]
BeginFlush(p, a, index, mem) ==
  work' = [work EXCEPT ![p] = [Idle(a) EXCEPT !.at = "latest", !.for = "flush",
                                              !.index = index, !.mem = mem, !.snap = "always"]]

\* step: load_latest opens the blob of the row it finds, and raises if it is torn.  Then
\* the matrix and the graph take the turn, in memory.
ReadPrev(p) ==
  /\ At(p, "prev")
  /\ LET w == work[p] IN
     \/ /\ RowsOf(w.agent) = {}
        /\ work' = [work EXCEPT ![p].at = "graph", ![p].prev = 0, ![p].t = 1,
                                ![p].C = {w.turn}, ![p].mem = @ \cup {w.turn}]
     \/ \E r \in Latest(w.agent) :
          IF BlobOf(r).is # "whole" THEN Go(p, "raised")
          ELSE /\ r.t + 1 \in Times
               /\ work' = [work EXCEPT ![p].at = "graph", ![p].prev = r.by, ![p].t = r.t + 1,
                                       ![p].C = BlobOf(r).holds \cup {w.turn},
                                       ![p].mem = @ \cup {w.turn}]
  /\ UNCHANGED disk

\* Mutant: no floor under the count of turns.
FlushAtZero(p) ==
  /\ At(p, "latest")
  /\ LET w == work[p] IN
     work' = [work EXCEPT ![p].at = "graph",
                          ![p].t = IF RowsOf(w.agent) = {} THEN w.index ELSE Cardinality(rows)]
  /\ UNCHANGED disk
\* flush_graph: the t of the latest state, or the count of turns.
ReadLatest(p) ==
  /\ At(p, "latest")
  /\ LET w == work[p] IN
     \/ /\ RowsOf(w.agent) = {}
        /\ work' = [work EXCEPT ![p].at = "graph", ![p].t = IF w.index = 0 THEN 1 ELSE w.index]
     \/ \E r \in Latest(w.agent) :
          IF BlobOf(r).is # "whole" THEN Go(p, "raised")
          ELSE work' = [work EXCEPT ![p].at = "graph", ![p].t = r.t]
  /\ UNCHANGED disk

\* graph.save(graph.json), by every step and flush.
TruncateGraph(p) ==
  /\ At(p, "graph") /\ Go(p, "graph half")
  /\ graph' = [graph EXCEPT ![work[p].agent] = TornFile]
  /\ UNCHANGED <<known, rows, blobs, snaps>>
Versioned(w) == w.snap = "always" \/ (w.snap = "auto" /\ w.t % Every = 0)
WriteGraph(p) ==
  /\ At(p, "graph half") /\ Go(p, IF Versioned(work[p]) THEN "snap" ELSE "blob")
  /\ graph' = [graph EXCEPT ![work[p].agent] = Whole(work[p].mem)]
  /\ UNCHANGED <<known, rows, blobs, snaps>>

\* graph.save(graph_t<t>.json), by a flush and by every so many steps.
TruncateSnap(p) ==
  /\ At(p, "snap") /\ Go(p, "snap half")
  /\ snaps' = [snaps EXCEPT ![<<work[p].agent, work[p].t>>] = TornFile]
  /\ UNCHANGED <<known, rows, blobs, graph>>
WriteSnap(p) ==
  /\ At(p, "snap half") /\ Go(p, IF work[p].for = "flush" THEN "done" ELSE "blob")
  /\ snaps' = [snaps EXCEPT ![<<work[p].agent, work[p].t>>] = Whole(work[p].mem)]
  /\ UNCHANGED <<known, rows, blobs, graph>>

\* StateStore.save: the row of a state.
\* Mutant: the parent is what is the latest state by now.
ParentNow(w) ==
  [agent |-> w.agent, by |-> w.turn, t |-> w.t, graph |-> "working",
   parent |-> IF Latest(w.agent) = {} THEN 0 ELSE (CHOOSE r \in Latest(w.agent) : TRUE).by]
RowOf(w) == [agent |-> w.agent, by |-> w.turn, t |-> w.t, parent |-> w.prev,
             graph |-> IF Versioned(w) THEN "snapshot" ELSE "working"]
\* Mutant: the row first, then its blob.
RowBeforeBlob(p) ==
  /\ At(p, "blob") /\ Go(p, "blob half")
  /\ rows' = rows \cup {RowOf(work[p])}
  /\ blobs' = [blobs EXCEPT ![<<work[p].agent, work[p].t>>] = TornFile]
  /\ UNCHANGED <<known, graph, snaps>>

\* The blob, ...
TruncateBlob(p) ==
  /\ At(p, "blob") /\ Go(p, "blob half")
  /\ blobs' = [blobs EXCEPT ![<<work[p].agent, work[p].t>>] = TornFile]
  /\ UNCHANGED <<known, rows, graph, snaps>>
WriteBlob(p) ==
  /\ At(p, "blob half") /\ Go(p, "agent")
  /\ blobs' = [blobs EXCEPT ![<<work[p].agent, work[p].t>>] = Whole(work[p].C)]
  /\ UNCHANGED <<known, rows, graph, snaps>>

\* ... ensure_agent: a select, then an insert that raises if the row is there by now, ...
SelectAgent(p) ==
  /\ At(p, "agent") /\ Go(p, IF work[p].agent \in known THEN "row" ELSE "new agent")
  /\ UNCHANGED disk
InsertAgent(p) ==
  /\ At(p, "new agent")
  /\ Go(p, IF work[p].agent \in known THEN "raised" ELSE "row")
  /\ known' = known \cup {work[p].agent}
  /\ UNCHANGED <<rows, blobs, graph, snaps>>

\* ... the row of the state, ...
InsertRow(p) ==
  /\ At(p, "row") /\ Go(p, "reload")
  /\ rows' = rows \cup {RowOf(work[p])}
  /\ UNCHANGED <<known, blobs, graph, snaps>>

\* ... and load, which opens the blob again.  Then step writes the spans of the turn, for
\* sampling (Forward).
Reload(p) ==
  /\ At(p, "reload")
  /\ Go(p, IF blobs[<<work[p].agent, work[p].t>>].is = "whole" THEN "spans" ELSE "raised")
  /\ UNCHANGED disk
WriteSpans(p) == At(p, "spans") /\ Go(p, "done") /\ UNCHANGED disk

\* The disk is full, a table locked for too long: an access raises and leaves its file as it is.
Raises(p) ==
  /\ work[p].at \notin {"idle", "done", "raised"} /\ Go(p, "raised")
  /\ UNCHANGED disk

Access(p) ==
  \/ ReadPrev(p) \/ ReadLatest(p) \/ TruncateGraph(p) \/ WriteGraph(p)
  \/ TruncateSnap(p) \/ WriteSnap(p) \/ TruncateBlob(p) \/ WriteBlob(p)
  \/ SelectAgent(p) \/ InsertAgent(p) \/ InsertRow(p) \/ Reload(p) \/ WriteSpans(p)

-----------------------------------------------------------------------------
(* What the directory promises when one process works at a time.             *)

\* The store is a log: the next state is that of the newest one and one turn more, and no
\* state that has a row is touched again, wherever a process is killed or an access raises.
LogOf(a) == [t \in 1..Cardinality(RowsOf(a)) |-> blobs[<<a, t>>].holds]
Log == INSTANCE StateLog WITH logs <- [a \in Agents |-> LogOf(a)]
SavesAppend == Log!Spec
=============================================================================
