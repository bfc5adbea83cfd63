------------------------------- MODULE HookCli -------------------------------
(***************************************************************************)
(* The Cursor hooks (hook_cli.py): each event of a conversation starts a     *)
(* process that reads graph.json, does its work on the state directory,     *)
(* answers and ends.  Cursor kills one that takes too long.  Nothing keeps   *)
(* two processes of one conversation apart but the habit of Cursor to wait   *)
(* (Serial).                                                               *)
(*                                                                         *)
(* Whatever is raised, the hook answers so that the chat goes on.  Process   *)
(* p steps the turn p.                                                      *)
(***************************************************************************)
EXTENDS StateDir

CONSTANTS
  Arrives,       \* the events that come
  Serial,        \* TRUE: an event's hook ends before the next one starts
  MaxKills       \* bounds the processes killed and the accesses that raise

Events == {"prompt", "response", "compact", "start"}
ASSUME HookAssumption ==
  /\ Procs \subseteq Turns /\ Arrives \subseteq Events
  /\ Serial \in BOOLEAN /\ MaxKills \in Nat

VARIABLES
  hook,          \* what each process is: its event, where it is, its answer
  kills,         \* processes killed, accesses that raised
  scarred        \* history: a graph.json or a blob was left torn

vars == <<dirVars, hook, kills, scarred>>

Hook == [event : Events,
         at : {"off", "load", "read graph", "load again", "ingest", "sample", "compose",
               "snapshot", "ended", "killed"},
         answer : {"none", "context", "empty", "notice"}]

HookTypes ==
  /\ TypeOK
  /\ hook \in [Procs -> Hook] /\ kills \in Nat /\ scarred \in BOOLEAN

Init ==
  /\ DirInit
  /\ hook = [p \in Procs |-> [event |-> "prompt", at |-> "off", answer |-> "none"]]
  /\ kills = 0 /\ scarred = FALSE

Runs(p) == hook[p].at \notin {"off", "ended", "killed"}
To(p, place) == hook' = [hook EXCEPT ![p].at = place]
Answers(p, answer) == hook' = [hook EXCEPT ![p].at = "ended", ![p].answer = answer]
Calm == UNCHANGED <<kills, scarred>>

-----------------------------------------------------------------------------
(* process_payload, build_handle. *)
\* Turn p is the p-th there is.
Start(p, event) ==
  /\ hook[p].at = "off" /\ \A q \in Procs : q < p => hook[q].at # "off"
  /\ Serial => \A q \in Procs : ~Runs(q)
  /\ hook' = [hook EXCEPT ![p] = [@ EXCEPT !.event = event, !.at = "load"]]
  /\ UNCHANGED dirVars /\ Calm

\* A process that ends takes what it held in memory with it.
Ends(p, answer) == Answers(p, answer) /\ Forget(p)
\* fail_open_default: an empty answer.
FailsOpen(p) == Ends(p, "empty")

\* A payload without a text, or of an event no handler knows.
Ignored(p) ==
  /\ hook[p].at = "load" /\ hook[p].event \in {"prompt", "response"}
  /\ FailsOpen(p) /\ UNCHANGED disk /\ Calm

\* _load_graph_for_agent: the latest state gives the count of turns ...
LoadLatest(p) ==
  /\ hook[p].at = "load"
  /\ \E a \in Agents :
       \/ /\ RowsOf(a) = {} /\ To(p, "read graph")
          /\ work' = [work EXCEPT ![p] = [Idle(a) EXCEPT !.turn = p]]
       \/ \E r \in Latest(a) :
            IF BlobOf(r).is # "whole" THEN FailsOpen(p)
            ELSE /\ To(p, "read graph")
                 /\ work' = [work EXCEPT ![p] = [Idle(a) EXCEPT !.turn = p, !.index = r.t,
                       \* the graph_path of the row, if it is not graph.json itself
                       !.mem = IF r.graph = "snapshot" THEN snaps[<<a, r.t>>].holds ELSE {}]]
  /\ UNCHANGED disk /\ Calm

\* Mutant: the handle starts from the file the latest state names, or an empty graph.
StartsWithout(p) ==
  /\ hook[p].at = "read graph" /\ To(p, "load again")
  /\ UNCHANGED <<disk, work>> /\ Calm
\* ... and the graph is that of graph.json, or if it is torn that of the latest state's
\* own file, or empty.
ReadGraph(p) ==
  /\ hook[p].at = "read graph" /\ To(p, "load again")
  /\ LET g == graph[work[p].agent] IN
     work' = [work EXCEPT ![p].mem = IF g.is = "whole" THEN g.holds ELSE @]
  /\ UNCHANGED disk /\ Calm

Readable(p) == \/ RowsOf(work[p].agent) = {}
               \/ \E r \in Latest(work[p].agent) : BlobOf(r).is = "whole"
Unreadable(p) == \E r \in Latest(work[p].agent) : BlobOf(r).is # "whole"

\* build_handle loads the latest state once more; then the handler steps or flushes.
LoadAgain(p) ==
  /\ hook[p].at = "load again"
  /\ \/ /\ Readable(p) /\ To(p, "ingest")
        /\ LET w == work[p] IN
           IF hook[p].event \in {"prompt", "response"}
           THEN BeginStep(p, w.agent, p, w.index, w.mem, "auto")
           ELSE BeginFlush(p, w.agent, w.index, w.mem)
     \/ Unreadable(p) /\ FailsOpen(p)
  /\ UNCHANGED disk /\ Calm

(* The handlers, once step or flush_graph has returned or raised. *)
Ingested(p) ==
  /\ hook[p].at = "ingest" /\ At(p, "done")
  /\ CASE hook[p].event = "response" -> FailsOpen(p)
       [] hook[p].event = "compact" -> To(p, "snapshot") /\ Forget(p)
       [] OTHER -> To(p, "sample") /\ Forget(p)
  /\ UNCHANGED disk /\ Calm
\* Mutants: a handler goes on after a raise; no except catches it, and the process ends without a word.
GoesOn(p) ==
  /\ hook[p].at = "ingest" /\ At(p, "raised")
  /\ To(p, "sample") /\ Forget(p) /\ UNCHANGED disk /\ Calm
Uncaught(p) ==
  /\ hook[p].at = "ingest" /\ At(p, "raised")
  /\ To(p, "ended") /\ Forget(p) /\ UNCHANGED disk /\ Calm
IngestRaised(p) ==
  /\ hook[p].at = "ingest" /\ At(p, "raised")
  /\ FailsOpen(p) /\ UNCHANGED disk /\ Calm

\* sample_for begins with the latest state.  A sample that raises ends a prompt's hook; at
\* the start of a session the context is composed without it.
Sampled(p) ==
  /\ hook[p].at = "sample"
  /\ \/ Readable(p) /\ To(p, "compose") /\ Forget(p)
     \/ Unreadable(p) /\ IF hook[p].event = "prompt" THEN FailsOpen(p) ELSE To(p, "compose") /\ Forget(p)
  /\ UNCHANGED disk /\ Calm
\* _compose_additional_context reads it once more; raised there, the handler's own or
\* process_payload's except answers.
Composed(p) ==
  /\ hook[p].at = "compose"
  /\ \/ Readable(p) /\ Ends(p, "context")
     \/ Unreadable(p) /\ FailsOpen(p)
  /\ UNCHANGED disk /\ Calm
\* handle_pre_compact: a frozen graph and its meta, in files of their own that nobody reads.
Snapshot(p) ==
  /\ hook[p].at = "snapshot"
  /\ \/ Readable(p) /\ Ends(p, "notice")
     \/ Unreadable(p) /\ FailsOpen(p)
  /\ UNCHANGED disk /\ Calm

-----------------------------------------------------------------------------
Tears(p) == work[p].at \in {"graph half", "snap half", "blob half"}
Works(p) == hook[p].at = "ingest" /\ Access(p) /\ UNCHANGED <<hook, kills, scarred>>
AccessRaises(p) ==
  /\ hook[p].at = "ingest" /\ kills < MaxKills /\ Raises(p)
  /\ kills' = kills + 1 /\ scarred' = (scarred \/ Tears(p))
  /\ UNCHANGED hook
Kill(p) ==
  /\ Runs(p) /\ kills < MaxKills
  /\ To(p, "killed") /\ Forget(p)
  /\ kills' = kills + 1 /\ scarred' = (scarred \/ Tears(p))
  /\ UNCHANGED disk

Proceed(p) ==
  \/ Ignored(p) \/ LoadLatest(p) \/ ReadGraph(p) \/ LoadAgain(p) \/ Works(p) \/ Ingested(p) \/ IngestRaised(p)
  \/ Sampled(p) \/ Composed(p) \/ Snapshot(p)
Next == \E p \in Procs :
  Proceed(p) \/ AccessRaises(p) \/ Kill(p) \/ \E event \in Arrives : Start(p, event)

Spec == Init /\ [][Next]_vars
\* A process that is not killed runs: it waits for nothing but the disk.
FairSpec == Spec /\ \A p \in Procs : WF_vars(Proceed(p))

-----------------------------------------------------------------------------
(* What the hooks promise.                                                  *)

\* The states of a conversation have no gaps, and the parent of each is a state one step
\* before it, also when hooks overlap and two of them save the same t.
LineageWhole ==
  \A r \in rows : IF r.t = 1 THEN r.parent = 0
                  ELSE \E s \in RowsOf(r.agent) : s.by = r.parent /\ s.t = r.t - 1

\* A prompt is answered with a context only if its turn has a state.
AnsweredIsSaved ==
  \A p \in Procs : (hook[p].event = "prompt" /\ hook[p].answer = "context") =>
    \E r \in rows : r.by = p

\* With hooks that wait for each other, no turn that has a state is missing in graph.json,
\* whatever was killed or raised, unless graph.json was left torn.
GraphHoldsStates ==
  (Serial /\ ~scarred) =>
    \A r \in rows : graph[r.agent].is = "whole" => r.by \in graph[r.agent].holds

\* The chat goes on: every hook ends with an answer, if only an empty one, or is killed.
EveryHookAnswers == \A p \in Procs : Runs(p) ~> hook[p].at = "killed" \/ hook[p].answer # "none"
=============================================================================
