------------------------- MODULE SidecarClient_proofs -------------------------
(* Proofs about the sidecar client: its types, and that a host which awaits its *)
(* calls leaves no sidecar behind.                                             *)
EXTENDS SidecarClient, TLAPS

PCs == {"idle", "boot", "work", "closing", "failed", "done"}
Answer == {"none", "ok", "error", "dead", "timeout"}
Status == {"none", "up", "term", "exited"}

LEMMA TypeInit == Init => TypeOK
<1> SUFFICES ASSUME Init PROVE TypeOK
  OBVIOUS
<1>1. /\ proc \in [Procs -> Status] /\ open \subseteq Procs
      /\ dead \in BOOLEAN /\ bootstrapped \in BOOLEAN /\ started \in BOOLEAN
  BY DEF Init, Status
<1>5. child \in 0..MaxSpawns
  BY ClientAssumption DEF Init
<1>2. stdin \in [Procs -> Seq(Request)] /\ out \in [Procs -> Seq(Line)]
  BY DEF Init
<1>3. queue \in Seq(Request) /\ turn = NoTurn
  BY DEF Init
<1>4. /\ pc \in [Calls -> PCs] /\ answer \in [Calls -> Answer]
      /\ got \in [Calls -> Request \cup {NoRequest}]
  BY DEF Init, PCs, Answer
<1> QED BY <1>1, <1>2, <1>3, <1>4, <1>5 DEF TypeOK, PCs, Answer, Status

(* Parts of a step that several actions share. *)
LEMMA TypeKill ==
  ASSUME TypeOK, KillChild
  PROVE  /\ child' \in 0..MaxSpawns /\ dead' \in BOOLEAN /\ bootstrapped' \in BOOLEAN
         /\ open' \subseteq Procs /\ proc' \in [Procs -> Status]
<1>1. proc \in [Procs -> Status] /\ open \subseteq Procs
  BY DEF TypeOK, Status
<1>2. proc' \in [Procs -> Status]
  BY <1>1 DEF KillChild, Status
<1>3. child' \in 0..MaxSpawns
  BY ClientAssumption DEF KillChild
<1> QED BY <1>1, <1>2, <1>3 DEF KillChild

LEMMA TypeQueue ==
  ASSUME TypeOK, NEW c \in Calls, NEW cmd \in {"health", "work"},
         queue' = Append(queue, [call |-> c, cmd |-> cmd])
  PROVE  queue' \in Seq(Request)
<1>1. [call |-> c, cmd |-> cmd] \in Request
  BY DEF Request
<1> QED BY <1>1 DEF TypeOK

LEMMA TypeContinuation == TypeOK /\ Continuation => TypeOK'
<1> SUFFICES ASSUME TypeOK, Continuation PROVE TypeOK'
  OBVIOUS
<1>1. CASE Grant
  <2>1. Head(queue) \in Request /\ Tail(queue) \in Seq(Request)
    BY <1>1 DEF Grant, CanGrant, TypeOK
  <2>2. Head(queue).call \in Calls
    BY <2>1 DEF Request
  <2>3. CASE child = 0 \/ dead
    BY <1>1, <2>1, <2>2, <2>3 DEF Grant, TypeOK, flags, host, Line
  <2>4. CASE ~(child = 0 \/ dead)
    <3>1. child \in Procs
      BY <2>4, ClientAssumption DEF TypeOK, Procs
    <3>2. [to |-> child, req |-> Head(queue)] \in [to : Procs, req : Request]
      BY <2>1, <3>1
    <3>3. Append(stdin[child], Head(queue)) \in Seq(Request)
      BY <2>1, <3>1 DEF TypeOK
    <3>4. turn' \in [to : Procs, req : Request]
      BY <1>1, <2>4, <3>2 DEF Grant
    <3>5. stdin' \in [Procs -> Seq(Request)]
      BY <1>1, <2>4, <3>1, <3>3 DEF Grant, TypeOK
    <3> QED BY <1>1, <2>1, <2>4, <3>4, <3>5 DEF Grant, TypeOK, flags, host, Line
  <2> QED BY <2>3, <2>4
<1>2. ASSUME NEW c \in Calls, Booted(c) PROVE TypeOK'
  <2>1. queue' \in Seq(Request)
    BY <1>2, TypeQueue DEF Booted
  <2> QED BY <1>2, <2>1 DEF Booted, Resumes, TypeOK, processes, Line
<1>3. ASSUME NEW c \in Calls, BootFails(c) PROVE TypeOK'
  BY <1>3, TypeKill DEF BootFails, Resumes, TypeOK, Status, Line
<1>4. ASSUME NEW c \in Calls, CallEnds(c) PROVE TypeOK'
  BY <1>4 DEF CallEnds, Resumes, TypeOK, processes, flags, Line
<1> QED BY <1>1, <1>2, <1>3, <1>4 DEF Continuation

LEMMA TypeAnswers == TypeOK /\ Answers => TypeOK'
<1> SUFFICES ASSUME TypeOK, NEW p \in Procs,
                    Respond(p) \/ RespondSplit(p) \/ ReadLine(p)
             PROVE  TypeOK'
  BY DEF Answers
<1>1. CASE Respond(p)
  <2>1. PICK ok \in BOOLEAN :
          out' = [out EXCEPT ![p] = Append(@, [to |-> Head(stdin[p]), ok |-> ok])]
    BY <1>1 DEF Respond
  <2>2. Head(stdin[p]) \in Request /\ Tail(stdin[p]) \in Seq(Request)
    BY <1>1 DEF Respond, TypeOK
  <2>3. [to |-> Head(stdin[p]), ok |-> ok] \in Line
    BY <2>2 DEF Line
  <2>4. Append(out[p], [to |-> Head(stdin[p]), ok |-> ok]) \in Seq(Line)
    BY <2>3 DEF TypeOK
  <2>5. out' \in [Procs -> Seq(Line)]
    BY <2>1, <2>4 DEF TypeOK
  <2>6. stdin' \in [Procs -> Seq(Request)]
    BY <1>1, <2>2 DEF Respond, TypeOK
  <2> QED BY <1>1, <2>5, <2>6 DEF Respond, TypeOK, flags, host
<1>2. CASE RespondSplit(p)
  <2>1. NoTurn \in Line
    BY DEF Line
  <2>2. PICK lines \in {<<NoTurn>>, <<NoTurn, NoTurn>>} :
          out' = [out EXCEPT ![p] = @ \o lines]
    BY <1>2 DEF RespondSplit
  <2>3. out[p] \o lines \in Seq(Line)
    <3>1. lines \in Seq(Line)
      <4>1. <<NoTurn>> \in Seq(Line) /\ <<NoTurn, NoTurn>> \in Seq(Line)
        BY <2>1
      <4> QED BY <2>2, <4>1
    <3>2. out[p] \in Seq(Line)
      BY DEF TypeOK
    <3> QED BY <3>1, <3>2
  <2>4. out' \in [Procs -> Seq(Line)]
    BY <2>2, <2>3 DEF TypeOK
  <2>5. stdin' \in [Procs -> Seq(Request)]
    BY <1>2 DEF RespondSplit, TypeOK
  <2> QED BY <1>2, <2>4, <2>5 DEF RespondSplit, TypeOK, flags, host
<1>3. CASE ReadLine(p)
  <2>1. Head(out[p]) \in Line /\ out' \in [Procs -> Seq(Line)]
    BY <1>3 DEF ReadLine, TypeOK
  <2>2. CASE Listening(p)
    <3>1. turn.req \in Request /\ turn.req.call \in Calls
      BY <2>2 DEF Listening, TypeOK, Request
    <3>2. Matches(Head(out[p])) => Head(out[p]).to \in Request
      BY <3>1 DEF Matches
    <3>3. Settle(Head(out[p]))
      BY <1>3, <2>2 DEF ReadLine
    <3>4. /\ answer' \in [Calls -> Answer] /\ turn' = NoTurn
          /\ got' \in [Calls -> Request \cup {NoRequest}]
      BY <3>1, <3>2, <3>3 DEF Settle, TypeOK, Answer
    <3> QED BY <1>3, <2>1, <3>4 DEF ReadLine, TypeOK, flags, host, Answer
  <2>3. CASE ~Listening(p)
    BY <1>3, <2>1, <2>3 DEF ReadLine, TypeOK, flags, host
  <2> QED BY <2>2, <2>3
<1> QED BY <1>1, <1>2, <1>3

LEMMA TypeCallbacks ==
  ASSUME TypeOK,
         \/ Timeout \/ Dispose \/ \E p \in Procs : Exit(p)
         \/ \E c \in Calls : Call(c) \/ Start(c) \/ ProvisionFails(c) \/ Closed(c)
  PROVE  TypeOK'
<1>1. CASE Timeout
  <2>1. turn.req.call \in Calls
    BY <1>1 DEF Timeout, TypeOK, Request
  <2> QED BY <1>1, <2>1, TypeKill DEF Timeout, TypeOK, host, Status, Line
<1>2. CASE Dispose
  BY <1>2, TypeKill DEF Dispose, TypeOK, Status, Line
<1>3. ASSUME NEW p \in Procs, Exit(p) PROVE TypeOK'
  BY <1>3 DEF Exit, TypeOK, host, Line
<1>4. ASSUME NEW c \in Calls, Call(c) PROVE TypeOK'
  <2>1. queue' \in Seq(Request)
    BY <1>4, TypeQueue DEF Call
  <2> QED BY <1>4, <2>1 DEF Call, TypeOK, processes, flags, Line
<1>5. ASSUME NEW c \in Calls, Start(c) PROVE TypeOK'
  <2>1. queue' \in Seq(Request)
    BY <1>5, TypeQueue DEF Start
  <2>2. /\ proc' \in [Procs -> Status] /\ child' \in 0..MaxSpawns /\ open' \subseteq Procs
        /\ dead' = FALSE /\ pc' \in [Calls -> PCs]
    BY <1>5, ClientAssumption DEF Start, TypeOK, Procs, Status, PCs
  <2> QED BY <1>5, <2>1, <2>2 DEF Start, TypeOK, Status, PCs, Line
<1>6. ASSUME NEW c \in Calls, ProvisionFails(c) \/ Closed(c) PROVE TypeOK'
  BY <1>6 DEF ProvisionFails, Closed, TypeOK, processes, flags, Line
<1> QED BY <1>1, <1>2, <1>3, <1>4, <1>5, <1>6

LEMMA TypeStep == TypeOK /\ [Next]_vars => TypeOK'
<1>1. TypeOK /\ UNCHANGED vars => TypeOK'
  BY DEF TypeOK, vars, Line
<1> QED BY <1>1, TypeContinuation, TypeAnswers, TypeCallbacks DEF Next

(* Every reachable state of the client is well typed (client.ts). *)
THEOREM ClientTypes == Spec => []TypeOK
BY TypeInit, TypeStep, PTL DEF Spec

-----------------------------------------------------------------------------
(* SidecarOwned by itself does not rule out that a start puts a new child in the  *)
(* place of one that runs.  While one does, the host is started, or a start is    *)
(* waiting for its health check; a host that awaits its calls starts neither then.*)
OwnedInv == /\ SidecarOwned
            /\ Up # {} => started \/ \E c \in Calls : pc[c] = "boot"

LEMMA KillEndsAll ==
  ASSUME TypeOK, SidecarOwned, KillChild
  PROVE  Up' = {} /\ OwnedInv'
<1>1. Up' = {}
  BY DEF KillChild, SidecarOwned, Up, TypeOK
<1> QED BY <1>1 DEF OwnedInv, SidecarOwned

LEMMA OwnedContinuation ==
  ASSUME TypeOK, OwnedInv, Continuation
  PROVE  OwnedInv'
<1>1. CASE Grant
  BY <1>1 DEF Grant, OwnedInv, SidecarOwned, Up, flags, host
<1>2. ASSUME NEW c \in Calls, Booted(c) PROVE OwnedInv'
  BY <1>2 DEF Booted, OwnedInv, SidecarOwned, Up, processes
<1>3. ASSUME NEW c \in Calls, BootFails(c) PROVE OwnedInv'
  BY <1>3, KillEndsAll DEF BootFails, OwnedInv
<1>4. ASSUME NEW c \in Calls, CallEnds(c) PROVE OwnedInv'
  BY <1>4 DEF CallEnds, OwnedInv, SidecarOwned, Up, processes, flags, TypeOK
<1> QED BY <1>1, <1>2, <1>3, <1>4 DEF Continuation

LEMMA OwnedStart ==
  ASSUME Serial, TypeOK, OwnedInv, NEW c \in Calls, Start(c)
  PROVE  OwnedInv'
<1>1. PICK p \in Procs : proc' = [proc EXCEPT ![p] = "up"] /\ child' = p
  BY DEF Start
<1>2. Up = {}
  BY DEF Start, InFlight, OwnedInv
<1>3. Up' = {p}
  BY <1>1, <1>2 DEF Up, TypeOK
<1>4. pc'[c] = "boot"
  BY DEF Start, TypeOK
<1> QED BY <1>1, <1>3, <1>4 DEF OwnedInv, SidecarOwned

LEMMA OwnedStep ==
  ASSUME Serial, TypeOK, OwnedInv, [Next]_vars
  PROVE  OwnedInv'
<1>1. CASE UNCHANGED vars
  BY <1>1 DEF vars, OwnedInv, SidecarOwned, Up
<1>2. CASE Continuation
  BY <1>2, OwnedContinuation
<1>3. CASE Answers
  BY <1>3 DEF Answers, Respond, RespondSplit, ReadLine, flags, host, OwnedInv,
     SidecarOwned, Up
<1>4. CASE Timeout \/ Dispose
  BY <1>4, KillEndsAll DEF Timeout, Dispose, OwnedInv
<1>5. ASSUME NEW p \in Procs, Exit(p) PROVE OwnedInv'
  <2>1. Up' \subseteq Up
    BY <1>5 DEF Exit, Up, TypeOK
  <2> QED BY <1>5, <2>1 DEF Exit, OwnedInv, SidecarOwned, host
<1>6. ASSUME NEW c \in Calls, Start(c) PROVE OwnedInv'
  BY <1>6, OwnedStart
<1>7. ASSUME NEW c \in Calls, Call(c) \/ ProvisionFails(c) \/ Closed(c) PROVE OwnedInv'
  BY <1>7 DEF Call, ProvisionFails, Closed, OwnedInv, SidecarOwned, Up, processes,
     flags, TypeOK
<1> QED BY <1>1, <1>2, <1>3, <1>4, <1>5, <1>6, <1>7 DEF Next

(* A host that awaits each call before the next leaves no sidecar behind: whatever *)
(* fails, times out, dies or is disposed of, a sidecar that runs and was not told  *)
(* to end is the one the client holds (client.ts start, killChild).                *)
THEOREM NoneLeftBehind ==
  ASSUME Serial
  PROVE  Spec => []SidecarOwned
<1>1. Init => OwnedInv
  BY DEF Init, OwnedInv, SidecarOwned, Up
<1>2. TypeOK /\ OwnedInv /\ [Next]_vars => OwnedInv'
  BY OwnedStep
<1>3. OwnedInv => SidecarOwned
  BY DEF OwnedInv
<1> QED BY <1>1, <1>2, <1>3, ClientTypes, PTL DEF Spec
-----------------------------------------------------------------------------
(* Whose answer a call has.  A call has at most one request behind the mutex or *)
(* with it, and that is the one it waits for: none when it was settled.         *)

Waits(c) == \/ \E i \in DOMAIN queue : queue[i].call = c
            \/ turn # NoTurn /\ turn.req.call = c
AsksFor(r) == pc[r.call] = IF r.cmd = "health" THEN "boot" ELSE "work"
OneRequest ==
  /\ \A i, j \in DOMAIN queue : queue[i].call = queue[j].call => i = j
  /\ turn # NoTurn => \A i \in DOMAIN queue : queue[i].call # turn.req.call
  /\ \A i \in DOMAIN queue : AsksFor(queue[i])
  /\ turn # NoTurn => AsksFor(turn.req)
Own(c) == got[c] = [call |-> c, cmd |-> "work"]
AnswerInv ==
  /\ OneRequest
  /\ \A c \in Calls : answer[c] # "none" => ~Waits(c)
  /\ \A c \in Calls : (pc[c] = "work" /\ answer[c] = "ok") => Own(c)
  /\ OwnAnswer

LEMMA QueueType ==
  ASSUME TypeOK
  PROVE  /\ queue \in Seq(Request) /\ Len(queue) \in Nat /\ DOMAIN queue = 1..Len(queue)
         /\ \A i \in DOMAIN queue : queue[i] \in Request /\ queue[i].call \in Calls
         /\ turn # NoTurn => turn.req \in Request /\ turn.req.call \in Calls
<1>1. queue \in Seq(Request) /\ turn \in [to : Procs, req : Request] \cup {NoTurn}
  BY DEF TypeOK
<1>2. Len(queue) \in Nat /\ DOMAIN queue = 1..Len(queue) /\ \A i \in DOMAIN queue : queue[i] \in Request
  BY <1>1
<1>3. \A r \in Request : r.call \in Calls
  BY DEF Request
<1> QED BY <1>1, <1>2, <1>3

\* A call that waits for nothing may make a request.
LEMMA OneMore ==
  ASSUME TypeOK, OneRequest, NEW c \in Calls, NEW cmd \in {"health", "work"}, ~Waits(c),
         queue' = Append(queue, [call |-> c, cmd |-> cmd]), turn' = turn,
         pc' = [pc EXCEPT ![c] = IF cmd = "health" THEN "boot" ELSE "work"]
  PROVE  /\ OneRequest'
         /\ \A d \in Calls : d # c => (Waits(d)' => Waits(d))
<1>1. PICK q : q = queue'
  OBVIOUS
<1>2. /\ Len(queue) \in Nat /\ DOMAIN queue = 1..Len(queue) /\ queue \in Seq(Request)
      /\ \A i \in DOMAIN queue : queue[i].call \in Calls /\ queue[i].call # c
  BY QueueType DEF Waits
<1>3. [call |-> c, cmd |-> cmd] \in Request
  BY DEF Request
<1>4. /\ DOMAIN q = 1..(Len(queue) + 1)
      /\ \A i \in DOMAIN queue : q[i] = queue[i]
      /\ q[Len(queue) + 1] = [call |-> c, cmd |-> cmd]
  BY <1>1, <1>2, <1>3
<1>5. ASSUME NEW i \in DOMAIN q
      PROVE  \/ i \in DOMAIN queue /\ q[i] = queue[i] /\ q[i].call # c
             \/ i = Len(queue) + 1 /\ q[i].call = c
  BY <1>2, <1>4
<1>6. turn # NoTurn => turn.req.call # c /\ turn.req.call \in Calls
  BY QueueType DEF Waits
<1>7. \A r : r.call # c /\ r.call \in Calls /\ AsksFor(r) => AsksFor(r)'
  BY DEF AsksFor, TypeOK
<1>8. \A i \in DOMAIN q : AsksFor(q[i])'
  <2>1. pc'[c] = IF cmd = "health" THEN "boot" ELSE "work"
    BY DEF TypeOK
  <2>2. PICK r : r = [call |-> c, cmd |-> cmd]
    OBVIOUS
  <2>3. AsksFor(r)'
    BY <2>1, <2>2 DEF AsksFor
  <2>4. \A i \in DOMAIN queue : AsksFor(queue[i])
    BY DEF OneRequest
  <2>5. ASSUME NEW i \in DOMAIN q PROVE AsksFor(q[i])'
    <3>1. CASE i \in DOMAIN queue /\ q[i] = queue[i] /\ q[i].call # c
      <4>1. AsksFor(q[i]) /\ q[i].call \in Calls
        BY <1>2, <2>4, <3>1
      <4> QED BY <1>7, <3>1, <4>1
    <3>2. CASE i = Len(queue) + 1
      BY <1>4, <2>2, <2>3, <3>2
    <3> QED BY <1>5, <3>1, <3>2
  <2> QED BY <2>5
<1>9. \A i, j \in DOMAIN q : q[i].call = q[j].call => i = j
  BY <1>5 DEF OneRequest
<1>10. turn # NoTurn => \A i \in DOMAIN q : q[i].call # turn.req.call
  BY <1>5, <1>6 DEF OneRequest
<1>11. turn # NoTurn => AsksFor(turn.req)'
  BY <1>6, <1>7 DEF OneRequest
<1>12. OneRequest'
  BY <1>1, <1>8, <1>9, <1>10, <1>11 DEF OneRequest, AsksFor
<1>13. ASSUME NEW d \in Calls, d # c, Waits(d)' PROVE Waits(d)
  BY <1>1, <1>5, <1>13 DEF Waits
<1> QED BY <1>12, <1>13

\* The request that has the turn is settled.
LEMMA OneLess ==
  ASSUME TypeOK, AnswerInv, turn # NoTurn, turn' = NoTurn, UNCHANGED <<queue, pc>>,
         NEW how \in Answer, answer' = [answer EXCEPT ![turn.req.call] = how],
         \A d \in Calls : d # turn.req.call => got'[d] = got[d],
         how = "ok" => got'[turn.req.call] = turn.req
  PROVE  AnswerInv'
<1>1. PICK r : r = turn.req
  OBVIOUS
<1>2. r \in Request /\ r.call \in Calls /\ AsksFor(r)
  BY <1>1, QueueType DEF AnswerInv, OneRequest
<1>3. OneRequest'
  BY DEF AnswerInv, OneRequest, AsksFor
<1>4. ASSUME NEW c \in Calls, answer'[c] # "none" PROVE ~Waits(c)'
  <2>1. CASE c = r.call
    BY <1>1, <2>1 DEF AnswerInv, OneRequest, Waits
  <2>2. CASE c # r.call
    BY <1>1, <1>4, <2>2 DEF AnswerInv, Waits, TypeOK
  <2> QED BY <2>1, <2>2
<1>5. ASSUME NEW c \in Calls, pc'[c] = "work", answer'[c] = "ok" PROVE Own(c)'
  <2>1. CASE c = r.call
    <3>1. r.cmd # "health"
      BY <1>2, <1>5, <2>1 DEF AsksFor
    <3>2. r = [call |-> c, cmd |-> "work"]
      BY <1>2, <2>1, <3>1 DEF Request
    <3>3. how = "ok"
      BY <1>1, <1>5, <2>1 DEF TypeOK
    <3> QED BY <1>1, <2>1, <3>2, <3>3 DEF Own
  <2>2. CASE c # r.call
    BY <1>1, <1>5, <2>2 DEF AnswerInv, Own, TypeOK
  <2> QED BY <2>1, <2>2
<1>6. ASSUME NEW c \in Calls, pc'[c] = "done" PROVE got'[c] = [call |-> c, cmd |-> "work"]
  <2>1. c # r.call
    BY <1>2, <1>6 DEF AsksFor
  <2> QED BY <1>1, <1>6, <2>1 DEF AnswerInv, OwnAnswer
<1> QED BY <1>3, <1>4, <1>5, <1>6 DEF AnswerInv, OwnAnswer

\* A call that waits for nothing moves on.
LEMMA OneStays ==
  ASSUME TypeOK, AnswerInv, NEW c \in Calls, ~Waits(c), NEW place \in PCs,
         UNCHANGED <<queue, turn, got>>, pc' = [pc EXCEPT ![c] = place],
         place \notin {"boot", "work"}, place = "done" => Own(c),
         \A d \in Calls : answer'[d] = answer[d] \/ answer'[d] = "none"
  PROVE  AnswerInv'
<1>1. OneRequest'
  <2>1. \A r \in Request : r.call # c /\ AsksFor(r) => AsksFor(r)'
    BY DEF AsksFor, TypeOK, Request
  <2>2. \A i \in DOMAIN queue : queue[i] \in Request /\ queue[i].call # c
    BY QueueType DEF Waits
  <2>3. turn # NoTurn => turn.req \in Request /\ turn.req.call # c
    BY QueueType DEF Waits
  <2> HIDE DEF AsksFor
  <2>4. /\ \A i \in DOMAIN queue : AsksFor(queue[i])'
        /\ turn # NoTurn => AsksFor(turn.req)'
    BY <2>1, <2>2, <2>3 DEF AnswerInv, OneRequest, AsksFor
  <2> QED BY <2>4 DEF AnswerInv, OneRequest, AsksFor
<1>2. \A d \in Calls : answer'[d] # "none" => ~Waits(d)'
  BY DEF AnswerInv, Waits
<1>3. \A d \in Calls : pc'[d] = IF d = c THEN place ELSE pc[d]
  BY DEF TypeOK
<1> QED BY <1>1, <1>2, <1>3 DEF AnswerInv, Own, OwnAnswer

LEMMA AnswerGrant ==
  ASSUME TypeOK, AnswerInv, Grant
  PROVE  AnswerInv'
<1>1. PICK r, q : r = Head(queue) /\ q = queue'
  OBVIOUS
<1>2. /\ turn = NoTurn /\ queue # <<>> /\ queue' = Tail(queue) /\ UNCHANGED <<pc, got>>
      /\ \/ answer' = [answer EXCEPT ![r.call] = "dead"] /\ turn' = NoTurn
         \/ turn' = [to |-> child, req |-> r] /\ UNCHANGED answer
  BY <1>1 DEF Grant, CanGrant, host
<1>3. queue \in Seq(Request) /\ Len(queue) \in Nat \ {0} /\ DOMAIN queue = 1..Len(queue)
  BY <1>2, QueueType
<1>4. /\ DOMAIN q = 1..(Len(queue) - 1) /\ \A i \in DOMAIN q : q[i] = queue[i + 1]
      /\ r = queue[1] /\ r \in Request /\ r.call \in Calls
  BY <1>1, <1>2, <1>3, QueueType
<1>5. \A i \in DOMAIN q : i + 1 \in DOMAIN queue /\ i + 1 # 1 /\ 1 \in DOMAIN queue
  BY <1>3, <1>4
<1>6. \A i \in DOMAIN q : q[i].call # r.call /\ AsksFor(q[i])
  BY <1>4, <1>5 DEF AnswerInv, OneRequest
<1>7. \A i, j \in DOMAIN q : q[i].call = q[j].call => i = j
  <2>1. \A i, j \in DOMAIN q : q[i].call = q[j].call => i + 1 = j + 1
    BY <1>4, <1>5 DEF AnswerInv, OneRequest
  <2> QED BY <1>3, <1>4, <2>1
<1>8. AsksFor(r)
  BY <1>3, <1>4 DEF AnswerInv, OneRequest
<1>9. turn' = NoTurn \/ turn'.req = r
  BY <1>2
<1>10. OneRequest'
  BY <1>1, <1>2, <1>6, <1>7, <1>8, <1>9 DEF OneRequest, AsksFor
<1>11. Waits(r.call)
  BY <1>3, <1>4 DEF Waits
<1>12. ASSUME NEW c \in Calls, Waits(c)' PROVE Waits(c)
  BY <1>1, <1>4, <1>5, <1>9, <1>11, <1>12 DEF Waits
<1>13. ASSUME NEW c \in Calls, answer'[c] # "none" PROVE ~Waits(c)'
  <2>1. CASE UNCHANGED answer
    BY <1>12, <1>13, <2>1 DEF AnswerInv
  <2>2. CASE answer' = [answer EXCEPT ![r.call] = "dead"] /\ turn' = NoTurn
    <3>1. CASE c = r.call
      BY <1>1, <1>6, <2>2, <3>1 DEF Waits
    <3>2. CASE c # r.call
      BY <1>12, <1>13, <2>2, <3>2 DEF AnswerInv, TypeOK
    <3> QED BY <3>1, <3>2
  <2> QED BY <1>2, <2>1, <2>2
<1>14. \A c \in Calls : answer'[c] = "ok" => answer[c] = "ok"
  BY <1>2 DEF TypeOK
<1> QED BY <1>2, <1>10, <1>13, <1>14 DEF AnswerInv, Own, OwnAnswer

LEMMA AnswerStep == TypeOK /\ AnswerInv /\ [Next]_vars => AnswerInv'
<1> SUFFICES ASSUME TypeOK, AnswerInv, [Next]_vars PROVE AnswerInv'
  OBVIOUS
<1>1. ASSUME UNCHANGED <<queue, turn, pc, got, answer>> PROVE AnswerInv'
  BY <1>1 DEF AnswerInv, OneRequest, AsksFor, Waits, Own, OwnAnswer
<1>2. ASSUME NEW c \in Calls, NEW cmd \in {"health", "work"}, ~Waits(c),
             queue' = Append(queue, [call |-> c, cmd |-> cmd]), UNCHANGED <<turn, got>>,
             pc' = [pc EXCEPT ![c] = IF cmd = "health" THEN "boot" ELSE "work"],
             answer'[c] = "none", \A d \in Calls : d # c => answer'[d] = answer[d]
      PROVE  AnswerInv'
  <2>1. OneRequest' /\ \A d \in Calls : d # c => (Waits(d)' => Waits(d))
    BY <1>2, OneMore DEF AnswerInv
  <2>2. \A d \in Calls : pc'[d] = IF d = c THEN (IF cmd = "health" THEN "boot" ELSE "work") ELSE pc[d]
    BY <1>2 DEF TypeOK
  <2> QED BY <1>2, <2>1, <2>2 DEF AnswerInv, Own, OwnAnswer
<1>3. ASSUME NEW c \in Calls, Resumes(c)
      PROVE  /\ answer'[c] = "none" /\ \A d \in Calls : d # c => answer'[d] = answer[d]
             /\ ~Waits(c)
  BY <1>3 DEF Resumes, TypeOK, AnswerInv
<1>4. ASSUME NEW c \in Calls, pc[c] \notin {"boot", "work"} PROVE ~Waits(c)
  BY <1>4 DEF AnswerInv, OneRequest, AsksFor, Waits
<1>5. ASSUME NEW c \in Calls, Booted(c) PROVE AnswerInv'
  <2> DEFINE cmd == "work"
  <2>1. /\ Resumes(c) /\ queue' = Append(queue, [call |-> c, cmd |-> cmd]) /\ UNCHANGED <<turn, got>>
        /\ pc' = [pc EXCEPT ![c] = IF cmd = "health" THEN "boot" ELSE "work"]
    BY <1>5 DEF Booted
  <2> QED BY <1>2, <1>3, <2>1
<1>6. ASSUME NEW c \in Calls, Call(c) \/ Start(c) PROVE AnswerInv'
  <2>1. ~Waits(c) /\ UNCHANGED <<turn, got, answer>> /\ answer[c] = "none"
    BY <1>4, <1>6 DEF Call, Start, Quiet
  <2>2. \E cmd \in {"health", "work"} :
          /\ queue' = Append(queue, [call |-> c, cmd |-> cmd])
          /\ pc' = [pc EXCEPT ![c] = IF cmd = "health" THEN "boot" ELSE "work"]
    BY <1>6 DEF Call, Start
  <2> QED BY <1>2, <2>1, <2>2
<1>7. ASSUME NEW c \in Calls, BootFails(c) PROVE AnswerInv'
  <2>1. Resumes(c) /\ UNCHANGED <<queue, turn, got>> /\ pc' = [pc EXCEPT ![c] = "closing"]
    BY <1>7 DEF BootFails
  <2> QED BY <1>3, <2>1, OneStays DEF PCs
<1>8. ASSUME NEW c \in Calls, CallEnds(c) PROVE AnswerInv'
  <2> DEFINE place == IF answer[c] = "ok" THEN "done" ELSE "failed"
  <2>1. /\ place \in {"done", "failed"} /\ (place = "done" => answer[c] = "ok")
        /\ pc' = [pc EXCEPT ![c] = place]
    BY <1>8 DEF CallEnds
  <2> HIDE DEF place
  <2>2. Resumes(c) /\ UNCHANGED <<queue, turn, got>> /\ pc[c] = "work"
    BY <1>8 DEF CallEnds
  <2>3. place = "done" => Own(c)
    BY <2>1, <2>2 DEF AnswerInv
  <2>4. /\ place \in PCs /\ place \notin {"boot", "work"} /\ ~Waits(c)
        /\ \A d \in Calls : answer'[d] = answer[d] \/ answer'[d] = "none"
    BY <1>3, <2>1, <2>2 DEF PCs
  <2> QED BY <2>1, <2>2, <2>3, <2>4, OneStays
<1>9. ASSUME NEW c \in Calls, ProvisionFails(c) \/ Closed(c) PROVE AnswerInv'
  <2>1. ~Waits(c) /\ UNCHANGED <<queue, turn, got, answer>> /\ pc' = [pc EXCEPT ![c] = "failed"]
    BY <1>4, <1>9 DEF ProvisionFails, Closed
  <2> QED BY <2>1, OneStays DEF PCs
<1>10. CASE Timeout
  BY <1>10, OneLess DEF Timeout, host, Answer
<1>11. ASSUME NEW p \in Procs, ReadLine(p) PROVE AnswerInv'
  <2>1. CASE Listening(p)
    <3>1. PICK line : line = Head(out[p])
      OBVIOUS
    <3>2. Settle(line) /\ turn # NoTurn /\ UNCHANGED <<queue, pc>>
      BY <1>11, <2>1, <3>1 DEF ReadLine, Listening, host
    <3>3. turn.req.call \in Calls /\ got \in [Calls -> Request \cup {NoRequest}]
      BY <3>2, QueueType DEF TypeOK
    <3> DEFINE how == IF Matches(line) /\ line.ok THEN "ok" ELSE "error"
    <3>4. /\ how \in {"ok", "error"} /\ (how = "ok" => Matches(line))
          /\ answer' = [answer EXCEPT ![turn.req.call] = how]
      BY <3>2 DEF Settle
    <3> HIDE DEF how
    <3>5. /\ \A d \in Calls : d # turn.req.call => got'[d] = got[d]
          /\ how = "ok" => got'[turn.req.call] = turn.req
      BY <3>2, <3>3, <3>4 DEF Settle, Matches
    <3>6. turn' = NoTurn /\ how \in Answer
      <4>1. turn' = NoTurn
        BY <3>2 DEF Settle
      <4> QED BY <3>4, <4>1 DEF Answer
    <3> QED BY <3>2, <3>4, <3>5, <3>6, OneLess
  <2>2. CASE ~Listening(p)
    BY <1>1, <1>11, <2>2 DEF ReadLine, host
  <2> QED BY <2>1, <2>2
<1>12. CASE Dispose \/ (\E p \in Procs : Exit(p) \/ Respond(p) \/ RespondSplit(p)) \/ UNCHANGED vars
  BY <1>1, <1>12 DEF Dispose, Exit, Respond, RespondSplit, vars, host
<1>13. CASE Grant
  BY <1>13, AnswerGrant
<1> QED BY <1>5, <1>6, <1>7, <1>8, <1>9, <1>10, <1>11, <1>12, <1>13
        DEF Next, Continuation, Answers

(* A call that succeeds has the answer to its own request, whatever lines of requests  *)
(* that were given up, or halves of answers, are still to be read (client.ts onLine).  *)
THEOREM AnswersAreOwn == Spec => []OwnAnswer
<1>1. Init => AnswerInv
  <2> SUFFICES ASSUME Init PROVE AnswerInv
    OBVIOUS
  <2>1. DOMAIN queue = {}
    BY DEF Init
  <2> QED BY <2>1 DEF Init, AnswerInv, OneRequest, Waits, OwnAnswer
<1>2. TypeOK /\ AnswerInv /\ [Next]_vars => AnswerInv'
  BY AnswerStep
<1>3. AnswerInv => OwnAnswer
  BY DEF AnswerInv
<1> QED BY <1>1, <1>2, <1>3, ClientTypes, PTL DEF Spec
=============================================================================
