------------------------------- MODULE ClawCli -------------------------------
(***************************************************************************)
(* The sidecar (claw_cli.py): one process that reads a request per line and  *)
(* answers each with a line, whatever is raised.  It keeps a handle, with    *)
(* the graph in memory, for each agent it was asked for lately.  It may be   *)
(* killed and started again.  The n-th request that is a step steps turn n.  *)
(***************************************************************************)
EXTENDS StateDir
Seqs == INSTANCE SequencesExt

CONSTANTS
  Me,            \* the process
  Cap,           \* _HANDLE_CAP
  Snaps,         \* values of flush_graph that are asked for
  Base, Budgets, \* CHAT_COMPRESSOR_FORWARD_BUDGET it was started with, those asked for
  MaxRequests, MaxFaults

ASSUME ClawAssumption ==
  /\ Snaps \subseteq {"auto", "always", "never"}
  /\ Procs = {Me} /\ 1..MaxRequests \subseteq Turns
  /\ Cap \in Nat \ {0} /\ Base \in Nat \ {0} /\ Budgets \subseteq Nat \ {0}
  /\ MaxRequests \in 0..MaxT /\ MaxFaults \in Nat

VARIABLES
  handles,       \* _handles: agents, the one used last at the end
  memory,        \* the graph and count of turns of each agent's handle, or of its last one
  req,           \* the request
  at,            \* where the process is
  env,           \* CHAT_COMPRESSOR_FORWARD_BUDGET
  asked,         \* requests so far
  faults,        \* accesses that raised, kills
  answer,        \* to the last request
  usedAt,        \* history: the request each handle was last used for
  left           \* history: how each agent's last handle went

clawVars == <<handles, memory, req, at, env, asked, faults, answer, usedAt, left>>
vars == <<dirVars, clawVars>>

Request == [cmd : {"health", "step", "sample", "flush", "expand_spans", "rejected"},
            agent : Agents, snap : {"auto", "always", "never"}, budget : Budgets \cup {0}]
\* Those that come: a field no command reads has one value.
Comes(r) ==
  /\ IF r.cmd = "step" THEN r.snap \in Snaps ELSE r.snap = "auto"
  /\ r.cmd # "sample" => r.budget = 0
  /\ r.cmd \in {"rejected", "health"} => r.agent = req.agent
NoAnswer == [is |-> "none", budget |-> 0]
ClawTypes ==
  /\ TypeOK
  /\ handles \in Seq(Agents) /\ Len(handles) <= Cap
  /\ memory \in [Agents -> [mem : SUBSET Turns, index : 0..MaxRequests]]
  /\ req \in Request /\ at \in {"read", "handle", "evict", "use", "work", "last"}
  /\ env \in Budgets \cup {Base} /\ asked \in 0..MaxRequests /\ faults \in 0..MaxFaults
  /\ answer \in [is : {"none", "ok", "error"}, budget : Budgets \cup {0, Base}]
  /\ usedAt \in [Agents -> 0..MaxRequests] /\ left \in [Agents -> {"never", "flushed", "lost"}]

Fresh == [mem |-> {}, index |-> 0]
Init ==
  /\ DirInit
  /\ handles = <<>> /\ memory = [a \in Agents |-> Fresh]
  /\ \E a \in Agents :
       req = [cmd |-> "health", agent |-> a, snap |-> "auto", budget |-> 0]
  /\ at = "read" /\ env = Base /\ asked = 0 /\ faults = 0 /\ answer = NoAnswer
  /\ usedAt = [a \in Agents |-> 0] /\ left = [a \in Agents |-> "never"]

-----------------------------------------------------------------------------
(* Answers.  cmd_sample puts the budget back in a finally.                   *)
\* Mutant: the budget is put back only when the sample returns.
KeepsBudget(is) ==
  /\ at' = "read" /\ env' = IF is = "ok" THEN Base ELSE env
  /\ answer' = [is |-> is, budget |-> IF req.cmd = "sample" THEN env ELSE 0]
Replies(is) ==
  /\ at' = "read" /\ env' = Base
  /\ answer' = [is |-> is, budget |-> IF req.cmd = "sample" THEN env ELSE 0]
Answers(is) == Replies(is) /\ UNCHANGED <<req, asked>>

\* process_line, handle_request: what is no request, has no command or one that is unknown,
\* no agent id or a bad one, a text that is none or too large, a number that is none, is
\* answered before a handle is touched.  So is health.
Rejected(r) ==
  /\ r.cmd \in {"rejected", "health"}
  /\ answer' = [is |-> IF r.cmd = "health" THEN "ok" ELSE "error", budget |-> 0]
  /\ UNCHANGED <<at, env>>
Accepted(r) ==
  /\ r.cmd \notin {"rejected", "health"}
  /\ at' = "handle" /\ answer' = NoAnswer
  /\ env' = IF r.cmd = "sample" /\ r.budget # 0 THEN r.budget ELSE env
Read(r) ==
  /\ at = "read" /\ asked < MaxRequests
  /\ asked' = asked + 1 /\ req' = r /\ Comes(r)
  /\ Rejected(r) \/ Accepted(r)
  /\ UNCHANGED <<dirVars, handles, memory, faults, usedAt, left>>

-----------------------------------------------------------------------------
(* _get_handle *)
Has(a) == \E i \in DOMAIN handles : handles[i] = a
Others(a) == Seqs!RemoveAt(handles, CHOOSE i \in DOMAIN handles : handles[i] = a)
Uses(order) ==
  /\ handles' = order /\ at' = "use"
  /\ usedAt' = [usedAt EXCEPT ![req.agent] = asked]
  /\ UNCHANGED <<dirVars, req, env, asked, faults, answer>>

\* Mutant: no move_to_end.
StaysInPlace ==
  at = "handle" /\ Has(req.agent) /\ Uses(handles) /\ UNCHANGED <<memory, left>>
FindHandle ==
  /\ at = "handle" /\ Has(req.agent)
  /\ Uses(Append(Others(req.agent), req.agent))
  /\ UNCHANGED <<memory, left>>
\* A new handle starts with an empty graph.
NewHandle ==
  /\ at = "handle" /\ ~Has(req.agent) /\ Len(handles) < Cap
  /\ Uses(Append(handles, req.agent))
  /\ memory' = [memory EXCEPT ![req.agent] = Fresh]
  /\ left' = [left EXCEPT ![req.agent] = "never"]

\* Mutant: the handle is dropped as it is.
DropsHandle ==
  /\ at = "handle" /\ ~Has(req.agent) /\ Len(handles) >= Cap
  /\ handles' = Tail(handles) /\ left' = [left EXCEPT ![Head(handles)] = "flushed"]
  /\ UNCHANGED <<dirVars, memory, req, at, env, asked, faults, answer, usedAt>>
Evict ==
  /\ at = "handle" /\ ~Has(req.agent) /\ Len(handles) >= Cap
  /\ at' = "evict" /\ handles' = Tail(handles)
  /\ LET old == Head(handles) IN BeginFlush(Me, old, memory[old].index, memory[old].mem)
  /\ UNCHANGED <<disk, memory, req, env, asked, faults, answer, usedAt, left>>
\* A flush that raises is logged; the loop goes on.
Evicted ==
  /\ at = "evict" /\ work[Me].at \in {"done", "raised"}
  /\ at' = "handle"
  /\ left' = [left EXCEPT ![work[Me].agent] =
                IF work[Me].at = "done" THEN "flushed" ELSE "lost"]
  /\ Forget(Me)
  /\ UNCHANGED <<disk, handles, memory, req, env, asked, faults, answer, usedAt>>

-----------------------------------------------------------------------------
(* The commands *)
Step ==
  /\ at = "use" /\ req.cmd = "step" /\ at' = "work"
  /\ LET m == memory[req.agent] IN
     BeginStep(Me, req.agent, asked, m.index, m.mem, req.snap)
  /\ UNCHANGED <<disk, handles, memory, req, env, asked, faults, answer, usedAt, left>>
Flush ==
  /\ at = "use" /\ req.cmd = "flush" /\ at' = "work"
  /\ LET m == memory[req.agent] IN BeginFlush(Me, req.agent, m.index, m.mem)
  /\ UNCHANGED <<disk, handles, memory, req, env, asked, faults, answer, usedAt, left>>
\* Mutant: a step that raised is answered like one that did not.
Swallows ==
  /\ at = "work" /\ work[Me].at \in {"done", "raised"} /\ Forget(Me)
  /\ memory' = [memory EXCEPT ![req.agent].mem = work[Me].mem]
  /\ Answers("ok") /\ UNCHANGED <<disk, handles, faults, usedAt, left>>
\* The turn is in the handle's graph also when the step raised behind it.
Worked ==
  /\ at = "work" /\ work[Me].at \in {"done", "raised"} /\ Forget(Me)
  /\ memory' = [memory EXCEPT ![req.agent] =
       [mem |-> work[Me].mem,
        index |-> IF req.cmd = "step" /\ asked \in work[Me].mem THEN @.index + 1 ELSE @.index]]
  /\ IF work[Me].at = "raised" THEN Answers("error")
     ELSE IF req.cmd = "flush" THEN Answers("ok")
     ELSE at' = "last" /\ UNCHANGED <<req, env, asked, answer>>
  /\ UNCHANGED <<disk, handles, faults, usedAt, left>>
Unreadable(a) == \E r \in Latest(a) : BlobOf(r).is # "whole"
Readable(a) == RowsOf(a) = {} \/ \E r \in Latest(a) : BlobOf(r).is = "whole"
\* cmd_step and cmd_sample load the latest state; sample_for did before.  expand_spans
\* reads only files that it may find torn.
Last ==
  /\ at = "last" \/ (at = "use" /\ req.cmd \in {"sample", "expand_spans"})
  /\ \/ (Readable(req.agent) \/ req.cmd = "expand_spans") /\ Answers("ok")
     \/ Unreadable(req.agent) /\ req.cmd # "expand_spans" /\ Answers("error")
  /\ UNCHANGED <<dirVars, handles, memory, faults, usedAt, left>>

-----------------------------------------------------------------------------
(* Faults *)
Fault == faults < MaxFaults /\ faults' = faults + 1
AccessRaises ==
  /\ at \in {"evict", "work"} /\ Raises(Me) /\ Fault
  /\ UNCHANGED <<handles, memory, req, at, env, asked, answer, usedAt, left>>
\* StateStore(), or what a command reads.
RequestRaises ==
  /\ at = "use" \/ at = "last" \/ (at = "handle" /\ ~Has(req.agent) /\ Len(handles) < Cap)
  /\ Answers("error") /\ Fault
  /\ UNCHANGED <<dirVars, handles, memory, usedAt, left>>
\* Killed, and started again by its host: the request has no answer.
Dies ==
  /\ Fault /\ at' = "read" /\ env' = Base /\ answer' = NoAnswer
  /\ handles' = <<>> /\ Forget(Me)
  /\ left' = [a \in Agents |-> IF Has(a) \/ (at = "evict" /\ work[Me].agent = a)
                               THEN "lost" ELSE left[a]]
  /\ UNCHANGED <<disk, memory, req, asked, usedAt>>

Works == at \in {"evict", "work"} /\ Access(Me) /\ UNCHANGED clawVars
Proceed ==
  \/ FindHandle \/ NewHandle \/ Evict \/ Evicted \/ Step \/ Flush \/ Worked \/ Last \/ Works
Next ==
  \/ Proceed \/ AccessRaises \/ RequestRaises \/ Dies \/ \E r \in Request : Read(r)
Spec == Init /\ [][Next]_vars

-----------------------------------------------------------------------------
(* What the sidecar promises its host.                                       *)

\* A step answered with ok has its state on disk.
StepIsSaved ==
  (req.cmd = "step" /\ answer.is = "ok") => \E r \in RowsOf(req.agent) : r.by = asked

\* A sample is made under the budget of its request, or without one under that the process
\* was started with, whatever was raised or evicted in requests before it.
BudgetOfItsOwn ==
  (req.cmd = "sample" /\ answer.is = "ok") =>
    answer.budget = IF req.budget = 0 THEN Base ELSE req.budget

\* A handle that was evicted, and whose flush did not raise, left all it held in graph.json,
\* also turns of steps that had raised before they saved them.
EvictedIsOnDisk ==
  \A a \in Agents : left[a] = "flushed" => graph[a] = Whole(memory[a].mem)

\* The handle to be evicted next is the one used least recently.
LeastRecentFirst ==
  \A i, j \in DOMAIN handles : i < j => usedAt[handles[i]] < usedAt[handles[j]]
=============================================================================
