---------------------------- MODULE SidecarClient ----------------------------
(***************************************************************************)
(* The sidecar client (sidecar/client.ts) of one engine host: it starts the *)
(* Python packer on the host's first call, sends it one request at a time,  *)
(* fails a request without an answer by a timer, and kills the sidecar then. *)
(* Callbacks and continuations run one at a time on the host's thread.  The *)
(* continuations a callback makes ready run before the next callback does.  *)
(*                                                                         *)
(* Data.  A request is the call it is for and whether it is start's health  *)
(* check or the call's own command.  A line of a sidecar's output is the    *)
(* request it answers, and how, or junk: a part of an answer, split by the  *)
(* reader at a line separator within its text.                              *)
(***************************************************************************)
EXTENDS Naturals, Sequences, FiniteSets

CONSTANTS
  Calls,         \* the host's calls, each one request to the packer
  MaxSpawns,     \* bounds the sidecars started
  Serial,        \* TRUE: the host awaits each call before the next
  NoTurn,
  Faults         \* what may go wrong

AllFaults == {"provision", "refuse", "split", "die", "dispose"}
ASSUME ClientAssumption ==
  /\ MaxSpawns \in Nat /\ Serial \in BOOLEAN /\ Faults \subseteq AllFaults

Procs == 1..MaxSpawns
Request == [call : Calls, cmd : {"health", "work"}]
NoRequest == [call |-> NoTurn, cmd |-> "none"]
ASSUME NoTurnAssumption == NoTurn \notin [to : Procs, req : Request]

VARIABLES
  proc,          \* a process: none yet, up, told to end, or exited
  stdin,         \* requests it has not read
  out,           \* lines it wrote and the host has not seen
  open,          \* processes whose reader is open
  child,         \* client.child and client.rl: a process, or 0
  dead, bootstrapped,
  started,       \* the host's flag: packer.start is not called again
  queue,         \* requests behind client.mutex
  turn,          \* the request that has it, and the process it was written to
  pc,            \* where each call is
  answer,        \* how its request was settled
  got            \* the request the line that resolved it was an answer to

vars == <<proc, stdin, out, open, child, dead, bootstrapped, started, queue, turn,
          pc, answer, got>>
processes == <<proc, stdin, out>>
flags == <<child, dead, bootstrapped, open>>
host == <<started, pc>>

Line == [to : Request, ok : BOOLEAN] \cup {NoTurn}     \* NoTurn: junk
TypeOK ==
  /\ proc \in [Procs -> {"none", "up", "term", "exited"}]
  /\ stdin \in [Procs -> Seq(Request)] /\ out \in [Procs -> Seq(Line)]
  /\ open \subseteq Procs /\ child \in 0..MaxSpawns
  /\ dead \in BOOLEAN /\ bootstrapped \in BOOLEAN /\ started \in BOOLEAN
  /\ queue \in Seq(Request)
  /\ turn \in [to : Procs, req : Request] \cup {NoTurn}
  /\ pc \in [Calls -> {"idle", "boot", "work", "closing", "failed", "done"}]
  /\ answer \in [Calls -> {"none", "ok", "error", "dead", "timeout"}]
  /\ got \in [Calls -> Request \cup {NoRequest}]

Init ==
  /\ proc = [p \in Procs |-> "none"]
  /\ stdin = [p \in Procs |-> <<>>] /\ out = [p \in Procs |-> <<>>]
  /\ open = {} /\ child = 0
  /\ dead = FALSE /\ bootstrapped = FALSE /\ started = FALSE
  /\ queue = <<>> /\ turn = NoTurn
  /\ pc = [c \in Calls |-> "idle"] /\ answer = [c \in Calls |-> "none"]
  /\ got = [c \in Calls |-> NoRequest]

-----------------------------------------------------------------------------
(* Continuations. *)
CanGrant == turn = NoTurn /\ queue # <<>>
Quiet == ~CanGrant /\ \A c \in Calls : answer[c] = "none"
InFlight(c) == pc[c] \in {"boot", "work", "closing"}

\* request, once it has the mutex: dead, or written to the child, its timer set.
Grant ==
  /\ CanGrant
  /\ queue' = Tail(queue)
  /\ IF child = 0 \/ dead
     THEN /\ answer' = [answer EXCEPT ![Head(queue).call] = "dead"]
          /\ UNCHANGED <<turn, stdin>>
     ELSE /\ turn' = [to |-> child, req |-> Head(queue)]
          /\ stdin' = [stdin EXCEPT ![child] = Append(@, Head(queue))]
          /\ UNCHANGED answer
  /\ UNCHANGED <<proc, out, flags, host, got>>

\* killChild, up to its first await.
KillChild ==
  /\ child' = 0 /\ bootstrapped' = FALSE /\ dead' = TRUE
  /\ open' = open \ {child}
  /\ proc' = [p \in Procs |-> IF p = child /\ proc[p] = "up" THEN "term" ELSE proc[p]]

\* The promise of c's request is settled and c goes on; the next request has been
\* granted by then.
Resumes(c) == /\ answer[c] # "none" /\ ~CanGrant
              /\ answer' = [answer EXCEPT ![c] = "none"]

\* start's health check succeeded: the host is started, and the call's own request
\* goes behind the mutex.
Booted(c) ==
  /\ Resumes(c) /\ pc[c] = "boot" /\ answer[c] = "ok"
  /\ bootstrapped' = TRUE /\ started' = TRUE
  /\ pc' = [pc EXCEPT ![c] = "work"]
  /\ queue' = Append(queue, [call |-> c, cmd |-> "work"])
  /\ UNCHANGED <<processes, child, dead, open, turn, got>>

\* Mutant: start throws without disposing of the client.
ThrowsOnly(c) ==
  /\ Resumes(c) /\ pc[c] = "boot" /\ answer[c] # "ok"
  /\ pc' = [pc EXCEPT ![c] = "closing"]
  /\ UNCHANGED <<processes, flags, started, queue, turn, got>>

\* It failed: start disposes of the client and throws.
BootFails(c) ==
  /\ Resumes(c) /\ pc[c] = "boot" /\ answer[c] # "ok"
  /\ KillChild
  /\ pc' = [pc EXCEPT ![c] = "closing"]
  /\ UNCHANGED <<stdin, out, started, queue, turn, got>>

CallEnds(c) ==
  /\ Resumes(c) /\ pc[c] = "work"
  /\ pc' = [pc EXCEPT ![c] = IF answer[c] = "ok" THEN "done" ELSE "failed"]
  /\ UNCHANGED <<processes, flags, started, queue, turn, got>>

-----------------------------------------------------------------------------
(* Callbacks. *)

\* A call to a started host: its request goes behind the mutex.
Call(c) ==
  /\ Quiet /\ pc[c] = "idle" /\ started
  /\ Serial => \A d \in Calls : ~InFlight(d)
  /\ pc' = [pc EXCEPT ![c] = "work"]
  /\ queue' = Append(queue, [call |-> c, cmd |-> "work"])
  /\ UNCHANGED <<processes, flags, started, turn, answer, got>>

\* A call to a host not started yet: ensureStarted, client.start.
Start(c) ==
  /\ Quiet /\ pc[c] = "idle" /\ ~started
  /\ Serial => \A d \in Calls : ~InFlight(d)
  /\ \E p \in Procs :
       /\ proc[p] = "none" /\ \A q \in Procs : q < p => proc[q] # "none"
       /\ proc' = [proc EXCEPT ![p] = "up"]
       /\ child' = p /\ open' = open \cup {p}
  /\ dead' = FALSE
  /\ pc' = [pc EXCEPT ![c] = "boot"]
  /\ queue' = Append(queue, [call |-> c, cmd |-> "health"])
  /\ UNCHANGED <<stdin, out, bootstrapped, started, turn, answer, got>>

\* ensureVenv throws.
ProvisionFails(c) ==
  /\ Quiet /\ pc[c] = "idle" /\ ~started /\ "provision" \in Faults
  /\ Serial => \A d \in Calls : ~InFlight(d)
  /\ pc' = [pc EXCEPT ![c] = "failed"]
  /\ UNCHANGED <<processes, flags, started, queue, turn, answer, got>>

\* The sidecar reads a request and answers it (claw_cli.py main); an error is an
\* answer too.
Respond(p) ==
  /\ proc[p] = "up" /\ stdin[p] # <<>>
  /\ stdin' = [stdin EXCEPT ![p] = Tail(@)]
  /\ \E ok \in BOOLEAN :
       /\ ~ok => "refuse" \in Faults
       /\ out' = [out EXCEPT ![p] = Append(@, [to |-> Head(stdin[p]), ok |-> ok])]
  /\ UNCHANGED <<proc, flags, host, queue, turn, answer, got>>

\* The text of an answer has a line separator: the reader makes it two lines, the
\* second of which comes at once, where no listener is, or in a later chunk.
RespondSplit(p) ==
  /\ "split" \in Faults /\ proc[p] = "up" /\ stdin[p] # <<>>
  /\ Head(stdin[p]).cmd = "work"
  /\ stdin' = [stdin EXCEPT ![p] = Tail(@)]
  /\ \E lines \in {<<NoTurn>>, <<NoTurn, NoTurn>>} :
       out' = [out EXCEPT ![p] = @ \o lines]
  /\ UNCHANGED <<proc, flags, host, queue, turn, answer, got>>

\* onLine: the request that listens to p is settled, whatever the line is; it resolves
\* if the line is an answer to it.
\* Mutant: the id of the answer is not compared.
AnyAnswer(line) == line # NoTurn
Matches(line) == line # NoTurn /\ line.to = turn.req
Listening(p) == p \in open /\ turn # NoTurn /\ turn.to = p
Settle(line) ==
  LET c == turn.req.call IN
  /\ answer' = [answer EXCEPT ![c] =
                  IF Matches(line) /\ line.ok THEN "ok" ELSE "error"]
  /\ got' = [got EXCEPT ![c] = IF Matches(line) THEN line.to ELSE @]
  /\ turn' = NoTurn

\* A line without a listener is lost.
ReadLine(p) ==
  /\ Quiet /\ out[p] # <<>>
  /\ out' = [out EXCEPT ![p] = Tail(@)]
  /\ IF Listening(p) THEN Settle(Head(out[p])) ELSE UNCHANGED <<answer, got, turn>>
  /\ UNCHANGED <<proc, stdin, flags, host, queue>>

\* Mutant: the timer gives up when there is no child to kill.
TimerNeedsChild ==
  /\ Quiet /\ turn # NoTurn /\ child # 0
  /\ answer' = [answer EXCEPT ![turn.req.call] = "timeout"]
  /\ turn' = NoTurn
  /\ KillChild
  /\ UNCHANGED <<stdin, out, host, queue, got>>

\* The timer of the request that has the mutex: it kills the child there is now.
Timeout ==
  /\ Quiet /\ turn # NoTurn
  /\ answer' = [answer EXCEPT ![turn.req.call] = "timeout"]
  /\ turn' = NoTurn
  /\ KillChild
  /\ UNCHANGED <<stdin, out, host, queue, got>>

\* A sidecar told to end does so, by SIGTERM or at last by SIGKILL; or one dies by
\* itself.  The exit handler of any of them marks the client.
Exit(p) ==
  /\ Quiet
  /\ proc[p] = "term" \/ (proc[p] = "up" /\ "die" \in Faults)
  /\ proc' = [proc EXCEPT ![p] = "exited"]
  /\ dead' = TRUE /\ bootstrapped' = FALSE
  /\ UNCHANGED <<stdin, out, child, open, host, queue, turn, answer, got>>

\* killChild of a failed start has seen the exit, or waited disposeMs.
Closed(c) ==
  /\ Quiet /\ pc[c] = "closing"
  /\ pc' = [pc EXCEPT ![c] = "failed"]
  /\ UNCHANGED <<processes, flags, started, queue, turn, answer, got>>

\* host.dispose: it does not wait for the mutex.
Dispose ==
  /\ Quiet /\ "dispose" \in Faults
  /\ KillChild
  /\ started' = FALSE
  /\ UNCHANGED <<stdin, out, queue, turn, pc, answer, got>>

Continuation == Grant \/ \E c \in Calls : Booted(c) \/ BootFails(c) \/ CallEnds(c)
Answers == \E p \in Procs : Respond(p) \/ RespondSplit(p) \/ ReadLine(p)
Next ==
  \/ Continuation \/ Answers \/ Timeout
  \/ \E c \in Calls : Call(c) \/ Start(c) \/ ProvisionFails(c) \/ Closed(c)
  \/ \E p \in Procs : Exit(p)
  \/ Dispose

Spec == Init /\ [][Next]_vars
\* Continuations run and timers fire.  Nothing is asked of the sidecar: it may never
\* answer.
FairSpec == /\ Spec /\ WF_vars(Continuation) /\ WF_vars(Timeout)
            /\ \A c \in Calls : WF_vars(Closed(c))

-----------------------------------------------------------------------------
Up == {p \in Procs : proc[p] = "up"}

\* Every sidecar that runs and was not told to end is the client's child, so that a
\* dispose or a timeout ends it: none is left behind by a start that failed, a
\* timeout, a dispose or a restart (client.ts killChild).
SidecarOwned == Up \subseteq {child}

\* "One sidecar per plugin factory, not per turn" (SPECS.md).
OneSidecar == Cardinality(Up) <= 1

\* A call that succeeds got the answer to its own request, though an answer that was
\* split, or one whose request was given up, leaves lines for later ones (onLine).
OwnAnswer == \A c \in Calls : pc[c] = "done" => got[c] = [call |-> c, cmd |-> "work"]

\* Every call ends, also those in flight at a dispose, behind one that timed out, or
\* sent to a sidecar that is gone.
EveryCallEnds == \A c \in Calls : InFlight(c) ~> pc[c] \in {"done", "failed"}
=============================================================================
