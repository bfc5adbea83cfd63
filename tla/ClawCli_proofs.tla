---------------------------- MODULE ClawCli_proofs ----------------------------
(* Proofs about the sidecar's loop, for any number of agents and any requests:  *)
(* the order of its handles, the budget of a sample, and what is on disk when a *)
(* step is answered and when a handle is evicted.                              *)
EXTENDS ClawCli, StateDir_proofs

-----------------------------------------------------------------------------
(* The handles.                                                                *)

LEMMA MoveToEnd ==
  ASSUME handles \in Seq(Agents), NEW a \in Agents, Has(a)
  PROVE  /\ Others(a) \in Seq(Agents) /\ Len(Others(a)) = Len(handles) - 1
         /\ \E i \in 1..Len(handles) : /\ handles[i] = a
              /\ \A k \in 1..(Len(handles) - 1) :
                   Others(a)[k] = IF k < i THEN handles[k] ELSE handles[k + 1]
<1> DEFINE i == CHOOSE j \in DOMAIN handles : handles[j] = a
           n == Len(handles)
           s == SubSeq(handles, 1, i - 1)
           t == SubSeq(handles, i + 1, n)
<1>1. n \in Nat /\ DOMAIN handles = 1..n
  BY LenProperties
<1>2. i \in 1..n /\ handles[i] = a
  BY <1>1 DEF Has
<1>3. Others(a) = s \o t
  BY DEF Others, Seqs!RemoveAt
<1> HIDE DEF i
<1>4. /\ s \in Seq(Agents) /\ Len(s) = i - 1
      /\ \A k \in 1..(i - 1) : s[k] = handles[k]
  <2>1. \A k \in 1..(i - 1) : handles[k] \in Agents
    BY <1>1, <1>2, ElementOfSeq
  <2>2. 1 \in Int /\ i - 1 \in Int /\ (i - 1) - 1 + 1 = i - 1
    BY <1>2
  <2>3. /\ s \in Seq(Agents)
        /\ Len(s) = IF 1 <= i - 1 THEN (i - 1) - 1 + 1 ELSE 0
        /\ \A k \in 1..((i - 1) - 1 + 1) : s[k] = handles[1 + k - 1]
    BY <2>1, <2>2, SubSeqProperties
  <2> HIDE DEF s
  <2> QED BY <1>1, <1>2, <2>3
<1>5. /\ t \in Seq(Agents) /\ Len(t) = n - i
      /\ \A k \in 1..(n - i) : t[k] = handles[i + k]
  <2>1. \A k \in (i + 1)..n : handles[k] \in Agents
    BY <1>1, <1>2, ElementOfSeq
  <2>2. n \in Int /\ i + 1 \in Int
    BY <1>1, <1>2
  <2>3. /\ t \in Seq(Agents)
        /\ Len(t) = IF i + 1 <= n THEN n - (i + 1) + 1 ELSE 0
        /\ \A k \in 1..(n - (i + 1) + 1) : t[k] = handles[(i + 1) + k - 1]
    BY <2>1, <2>2, SubSeqProperties
  <2> HIDE DEF t
  <2>4. n - (i + 1) + 1 = n - i /\ (i + 1 <= n \/ n - i = 0)
    <3>1. n \in Int /\ i \in Int /\ i <= n
      BY <1>1, <1>2
    <3> HIDE DEF n
    <3> QED BY <3>1
  <2>5. ASSUME NEW k \in 1..(n - i) PROVE t[k] = handles[i + k]
    <3>1. (i + 1) + k - 1 = i + k
      BY <1>2
    <3> QED BY <2>3, <2>4, <3>1
  <2> QED BY <2>3, <2>4, <2>5
<1> HIDE DEF s, t
<1>6. /\ s \o t \in Seq(Agents) /\ Len(s \o t) = n - 1
      /\ \A k \in 1..(n - 1) : (s \o t)[k] = IF k < i THEN handles[k] ELSE handles[k + 1]
  <2>1. /\ s \o t \in Seq(Agents) /\ Len(s \o t) = Len(s) + Len(t)
        /\ \A k \in 1..(Len(s) + Len(t)) : (s \o t)[k] = IF k <= Len(s) THEN s[k] ELSE t[k - Len(s)]
    BY <1>4, <1>5, ConcatProperties
  <2>2. Len(s) + Len(t) = n - 1
    BY <1>1, <1>2, <1>4, <1>5
  <2>3. ASSUME NEW k \in 1..(n - 1)
        PROVE  (s \o t)[k] = IF k < i THEN handles[k] ELSE handles[k + 1]
    <3>1. CASE k < i
      BY <1>1, <1>2, <1>4, <2>1, <2>2, <3>1
    <3>2. CASE ~(k < i)
      <4>1. k - (i - 1) \in 1..(n - i) /\ i + (k - (i - 1)) = k + 1
        BY <1>1, <1>2, <3>2
      <4>2. (s \o t)[k] = t[k - (i - 1)]
        BY <1>1, <1>2, <1>4, <2>1, <2>2, <3>2
      <4> QED BY <1>5, <3>2, <4>1, <4>2
    <3> QED BY <3>1, <3>2
  <2> QED BY <2>1, <2>2, <2>3
<1> QED BY <1>1, <1>2, <1>3, <1>6

\* The handle of a becomes the last one; the others keep their order.
InOrder(order, a) ==
  /\ order \in Seq(Agents) /\ Len(order) \in Nat \ {0}
  /\ Len(order) = IF Has(a) THEN Len(handles) ELSE Len(handles) + 1
  /\ order[Len(order)] = a
  /\ \A j \in 1..(Len(order) - 1) : \E m \in 1..Len(handles) : order[j] = handles[m]
  /\ \A j, k \in 1..(Len(order) - 1) : j < k =>
       \E m, l \in 1..Len(handles) : m < l /\ order[j] = handles[m] /\ order[k] = handles[l]
LEMMA UsedLast ==
  ASSUME handles \in Seq(Agents), NEW a \in Agents, NEW order,
         \/ Has(a) /\ order = Append(Others(a), a)
         \/ ~Has(a) /\ order = Append(handles, a)
  PROVE  InOrder(order, a)
<1>1. Len(handles) \in Nat /\ DOMAIN handles = 1..Len(handles)
  BY LenProperties
<1>2. CASE ~Has(a)
  <2>1. /\ order \in Seq(Agents) /\ Len(order) = Len(handles) + 1
        /\ \A j \in 1..Len(handles) : order[j] = handles[j]
        /\ order[Len(handles) + 1] = a
    BY <1>2, AppendProperties
  <2> QED BY <1>1, <1>2, <2>1 DEF InOrder
<1>3. CASE Has(a)
  <2>1. PICK i \in 1..Len(handles) : \A k \in 1..(Len(handles) - 1) :
          Others(a)[k] = IF k < i THEN handles[k] ELSE handles[k + 1]
    BY <1>3, MoveToEnd
  <2>2. Others(a) \in Seq(Agents) /\ Len(Others(a)) = Len(handles) - 1
    BY <1>3, MoveToEnd
  <2>3. /\ order \in Seq(Agents) /\ Len(order) = Len(handles)
        /\ \A j \in 1..(Len(handles) - 1) : order[j] = Others(a)[j]
        /\ order[Len(handles)] = a
    <3>1. order = Append(Others(a), a)
      BY <1>3
    <3>2. /\ order \in Seq(Agents) /\ Len(order) = Len(Others(a)) + 1
          /\ \A j \in 1..Len(Others(a)) : order[j] = Others(a)[j]
          /\ order[Len(Others(a)) + 1] = a
      BY <2>2, <3>1, AppendProperties
    <3>3. Len(Others(a)) + 1 = Len(handles)
      BY <1>1, <2>2
    <3> QED BY <2>2, <3>2, <3>3
  <2>4. \A j \in 1..(Len(handles) - 1) : order[j] = IF j < i THEN handles[j] ELSE handles[j + 1]
    BY <2>1, <2>3
  <2>5. ASSUME NEW j \in 1..(Len(handles) - 1), NEW k \in 1..(Len(handles) - 1), j < k
        PROVE  \E m, l \in 1..Len(handles) : m < l /\ order[j] = handles[m] /\ order[k] = handles[l]
    <3> DEFINE m == IF j < i THEN j ELSE j + 1
               l == IF k < i THEN k ELSE k + 1
    <3>1. m \in 1..Len(handles) /\ l \in 1..Len(handles) /\ m < l
      BY <1>1, <2>5
    <3>2. order[j] = handles[m] /\ order[k] = handles[l]
      BY <2>4
    <3> QED BY <3>1, <3>2
  <2>6. ASSUME NEW j \in 1..(Len(handles) - 1)
        PROVE  \E m \in 1..Len(handles) : order[j] = handles[m]
    <3> DEFINE m == IF j < i THEN j ELSE j + 1
    <3>1. m \in 1..Len(handles)
      BY <1>1
    <3> QED BY <2>4, <3>1
  <2>7. Len(handles) # 0
    BY <1>1, <1>3 DEF Has
  <2> QED BY <1>1, <1>3, <2>3, <2>5, <2>6, <2>7 DEF InOrder
<1> QED BY <1>2, <1>3
-----------------------------------------------------------------------------
(* Types, and where the process is in its loop.                                *)

Control ==
  /\ at \in {"evict", "work"} <=> work[Me].at # "idle"
  /\ at # "read" => asked # 0 /\ answer = NoAnswer
                    /\ req.cmd \in {"step", "sample", "flush", "expand_spans"}
  /\ at = "work" => req.cmd \in {"step", "flush"}
  /\ at = "last" => req.cmd = "step"
  /\ \A a \in Agents : /\ memory[a].index <= asked
                       /\ at \in {"handle", "evict", "use", "work"} => memory[a].index < asked
  /\ env = IF at # "read" /\ req.cmd = "sample" /\ req.budget # 0 THEN req.budget ELSE Base
LoopInv == ClawTypes /\ WorkOK /\ Control

LEMMA MeRuns == Me \in Procs /\ Procs = {Me} /\ Cap \in Nat \ {0} /\ MaxRequests \in Nat
                /\ Base \in Nat \ {0} /\ Budgets \subseteq Nat \ {0}
BY ClawAssumption, DirAssumption

LEMMA LoopInit == Init => LoopInv
<1> SUFFICES ASSUME Init PROVE LoopInv
  OBVIOUS
<1>1. TypeOK /\ WorkOK
  BY DirTypes DEF Init
<1>2. work[Me].at = "idle"
  BY MeRuns DEF Init, DirInit, Idle
<1>3. req \in Request /\ \A a \in Agents : memory[a].index = 0
  BY DEF Init, Request, Fresh
<1>4. memory \in [Agents -> [mem : SUBSET Turns, index : 0..MaxRequests]]
  BY MeRuns DEF Init, Fresh
<1>5. handles \in Seq(Agents) /\ Len(handles) <= Cap
  <2>1. handles = <<>>
    BY DEF Init
  <2>2. handles \in Seq(Agents) /\ Len(handles) = 0
    BY <2>1, EmptySeq
  <2> QED BY <2>2, MeRuns
<1>6. /\ usedAt \in [Agents -> 0..MaxRequests] /\ left \in [Agents -> {"never", "flushed", "lost"}]
      /\ answer \in [is : {"none", "ok", "error"}, budget : Budgets \cup {0, Base}]
      /\ asked \in 0..MaxRequests /\ faults \in 0..MaxFaults
  BY MeRuns, ClawAssumption DEF Init, NoAnswer
<1>7. ClawTypes
  BY <1>1, <1>3, <1>4, <1>5, <1>6 DEF Init, ClawTypes
<1>8. Control
  BY <1>2, <1>3 DEF Init, Control
<1> QED BY <1>1, <1>7, <1>8 DEF LoopInv

LEMMA LoopRead ==
  ASSUME LoopInv, NEW r \in Request, Read(r)
  PROVE  LoopInv'
<1>1. /\ ClawTypes /\ WorkOK /\ Control /\ UNCHANGED <<dirVars, handles, memory, faults, usedAt, left>>
      /\ asked' = asked + 1 /\ req' = r /\ asked < MaxRequests /\ at = "read"
  BY DEF LoopInv, Read
<1>2. TypeOK' /\ WorkOK'
  BY <1>1 DEF ClawTypes, TypeOK, WorkOK, Sound, dirVars
<1>3. asked' \in 0..MaxRequests /\ asked' # 0 /\ \A a \in Agents : memory[a].index < asked'
  BY <1>1, MeRuns DEF ClawTypes, Control
<1>4. CASE Rejected(r)
  <2>1. at' = "read" /\ env' = env
    BY <1>1, <1>4 DEF Rejected
  <2>2. answer' \in [is : {"none", "ok", "error"}, budget : Budgets \cup {0, Base}]
    BY <1>4 DEF Rejected
  <2>3. ClawTypes'
    BY <1>1, <1>2, <1>3, <2>1, <2>2 DEF ClawTypes
  <2>4. Control'
    BY <1>1, <1>3, <2>1, MeRuns DEF Control, dirVars, ClawTypes
  <2> QED BY <1>2, <2>3, <2>4 DEF LoopInv
<1>5. CASE Accepted(r)
  <2>1. /\ at' = "handle" /\ answer' = NoAnswer
        /\ r.cmd \in {"step", "sample", "flush", "expand_spans"}
    BY <1>5 DEF Accepted, Request
  <2>2. env' = IF r.cmd = "sample" /\ r.budget # 0 THEN r.budget ELSE Base
    BY <1>1, <1>5 DEF Accepted, Control
  <2>3. answer' \in [is : {"none", "ok", "error"}, budget : Budgets \cup {0, Base}]
    BY <2>1 DEF NoAnswer
  <2>4. env' \in Budgets \cup {Base}
    BY <2>2 DEF Request
  <2>5. ClawTypes'
    BY <1>1, <1>2, <1>3, <2>1, <2>3, <2>4 DEF ClawTypes
  <2>6. Control'
    BY <1>1, <1>3, <2>1, <2>2, MeRuns DEF Control, dirVars, ClawTypes
  <2> QED BY <1>2, <2>5, <2>6 DEF LoopInv
<1> QED BY <1>4, <1>5 DEF Read

\* The reply to a request under way.
LEMMA LoopReplies ==
  ASSUME LoopInv, NEW is \in {"ok", "error"}, Answers(is)
  PROVE  /\ at' = "read" /\ env' = Base /\ req' = req /\ asked' = asked
         /\ answer' = [is |-> is, budget |-> IF req.cmd = "sample" THEN env ELSE 0]
         /\ answer' \in [is : {"none", "ok", "error"}, budget : Budgets \cup {0, Base}]
BY DEF LoopInv, ClawTypes, Answers, Replies

LEMMA LoopUses ==
  ASSUME LoopInv, FindHandle \/ NewHandle
  PROVE  LoopInv'
<1> DEFINE a == req.agent
           order == IF Has(a) THEN Append(Others(a), a) ELSE Append(handles, a)
<1>1. /\ ClawTypes /\ WorkOK /\ Control /\ UNCHANGED <<dirVars, req, env, asked, faults, answer>>
      /\ at = "handle" /\ at' = "use" /\ handles' = order
      /\ usedAt' = [usedAt EXCEPT ![a] = asked]
      /\ ~Has(a) => Len(handles) < Cap
  BY DEF LoopInv, FindHandle, NewHandle, Uses
<1>2. TypeOK' /\ WorkOK'
  BY <1>1 DEF ClawTypes, TypeOK, WorkOK, Sound, dirVars
<1>3. a \in Agents /\ handles \in Seq(Agents) /\ Len(handles) \in Nat /\ Len(handles) <= Cap
  BY <1>1, LenProperties DEF ClawTypes, Request
<1>4. order \in Seq(Agents) /\ Len(order) = IF Has(a) THEN Len(handles) ELSE Len(handles) + 1
  <2> HIDE DEF a
  <2>1. CASE Has(a)
    <3>1. order = Append(Others(a), a)
      BY <2>1
    <3> HIDE DEF order
    <3> QED BY <1>3, <2>1, <3>1, UsedLast DEF InOrder
  <2>2. CASE ~Has(a)
    <3>1. order = Append(handles, a)
      BY <2>2
    <3> HIDE DEF order
    <3> QED BY <1>3, <2>2, <3>1, UsedLast DEF InOrder
  <2> QED BY <2>1, <2>2
<1>5. handles' \in Seq(Agents) /\ Len(handles') <= Cap
  <2>1. Len(order) <= Cap
    BY <1>1, <1>3, <1>4, MeRuns
  <2> HIDE DEF order
  <2> QED BY <1>1, <1>4, <2>1
<1> HIDE DEF order
<1>6. /\ memory' \in [Agents -> [mem : SUBSET Turns, index : 0..MaxRequests]]
      /\ \A b \in Agents : memory'[b].index < asked
      /\ left' \in [Agents -> {"never", "flushed", "lost"}]
  <2>1. asked # 0 /\ asked \in 0..MaxRequests /\ \A b \in Agents : memory[b].index < asked
    BY <1>1 DEF Control, ClawTypes
  <2>2. CASE FindHandle
    BY <1>1, <2>1, <2>2 DEF FindHandle, ClawTypes
  <2>3. CASE NewHandle
    BY <1>1, <1>3, <2>1, <2>3, MeRuns DEF NewHandle, ClawTypes, Fresh
  <2> QED BY <2>2, <2>3
<1>7. usedAt' \in [Agents -> 0..MaxRequests]
  BY <1>1, <1>3 DEF ClawTypes
<1>8. ClawTypes'
  BY <1>1, <1>2, <1>5, <1>6, <1>7 DEF ClawTypes
<1>9. Control'
  <2>1. \A b \in Agents : memory'[b].index <= asked'
    <3>1. asked \in Nat /\ asked' = asked
      BY <1>1, MeRuns DEF ClawTypes
    <3>2. ASSUME NEW b \in Agents PROVE memory'[b].index \in Nat /\ memory'[b].index < asked
      BY <1>6, MeRuns
    <3> QED BY <3>1, <3>2
  <2>2. /\ at' = "use" /\ work' = work /\ req' = req /\ env' = env /\ asked' = asked
        /\ answer' = answer
    BY <1>1 DEF dirVars
  <2> QED BY <1>1, <1>6, <2>1, <2>2 DEF Control
<1> QED BY <1>2, <1>8, <1>9 DEF LoopInv
LEMMA LoopEvict ==
  ASSUME LoopInv, Evict
  PROVE  LoopInv' /\ Head(handles) \in Agents /\ handles # <<>>
<1> DEFINE old == Head(handles)
           v == [Idle(old) EXCEPT !.at = "latest", !.for = "flush", !.index = memory[old].index,
                                  !.mem = memory[old].mem, !.snap = "always"]
<1>1. /\ ClawTypes /\ WorkOK /\ Control
      /\ UNCHANGED <<memory, req, env, asked, faults, answer, usedAt, left>>
      /\ UNCHANGED disk /\ at = "handle" /\ at' = "evict" /\ handles' = Tail(handles)
      /\ work' = [work EXCEPT ![Me] = v]
  BY DEF LoopInv, Evict, BeginFlush
<1>2. handles \in Seq(Agents) /\ handles # <<>> /\ Len(handles) \in Nat /\ Len(handles) <= Cap
  <2>1. Len(handles) >= Cap
    BY DEF Evict
  <2>2. handles \in Seq(Agents) /\ Len(handles) \in Nat
    BY <1>1, LenProperties DEF ClawTypes
  <2> QED BY <1>1, <2>1, <2>2, MeRuns, EmptySeq DEF ClawTypes
<1>3. old \in Agents /\ Tail(handles) \in Seq(Agents) /\ Len(Tail(handles)) = Len(handles) - 1
  BY <1>2, HeadTailProperties
<1>4. Len(handles') <= Cap
  BY <1>1, <1>2, <1>3, MeRuns
<1> HIDE DEF old
<1>5. v \in Work /\ Sound(v)
  <2>1. Idle(old) \in Work
    BY <1>3, IdleType
  <2>2. memory[old].mem \in SUBSET Turns /\ memory[old].index \in 0..MaxT
    BY <1>1, <1>3, ClawAssumption, DirAssumption DEF ClawTypes
  <2> QED BY <2>1, <2>2 DEF Work, Places, Sound, Stepping, Idle
<1>6. TypeOK' /\ WorkOK' /\ work'[Me] = v
  <2> HIDE DEF v
  <2> QED BY <1>1, <1>5, TypeTakes, MeRuns DEF ClawTypes
<1>7. ClawTypes'
  BY <1>1, <1>3, <1>4, <1>6 DEF ClawTypes
<1>8. Control'
  <2>1. work'[Me].at # "idle"
    BY <1>3, <1>6, IdleType DEF Work
  <2> QED BY <1>1, <2>1 DEF Control
<1> QED BY <1>2, <1>3, <1>6, <1>7, <1>8 DEF LoopInv, old

LEMMA LoopBegins ==
  ASSUME LoopInv, Step \/ Flush
  PROVE  LoopInv'
<1> DEFINE a == req.agent
           m == memory[a]
           v == IF Step
                THEN [Idle(a) EXCEPT !.at = "prev", !.turn = asked, !.index = m.index,
                                     !.mem = m.mem, !.snap = req.snap]
                ELSE [Idle(a) EXCEPT !.at = "latest", !.for = "flush", !.index = m.index,
                                     !.mem = m.mem, !.snap = "always"]
<1>1. /\ ClawTypes /\ WorkOK /\ Control
      /\ UNCHANGED <<memory, req, env, asked, faults, answer, usedAt, left, handles>>
      /\ UNCHANGED disk /\ at = "use" /\ at' = "work" /\ req.cmd \in {"step", "flush"}
  BY DEF LoopInv, Step, Flush
<1>2. work' = [work EXCEPT ![Me] = v]
  BY DEF Step, Flush, BeginStep, BeginFlush
<1>3. a \in Agents /\ req.snap \in {"auto", "always", "never"} /\ asked \in Turns
  BY <1>1, ClawAssumption DEF ClawTypes, Request, Control
<1>4. m.mem \in SUBSET Turns /\ m.index \in 0..MaxT
  BY <1>1, <1>3, ClawAssumption, DirAssumption DEF ClawTypes
<1>5. v \in Work /\ Sound(v) /\ v.at # "idle"
  <2>1. Idle(a) \in Work
    BY <1>3, IdleType
  <2>2. CASE Step
    <3> DEFINE u == [Idle(a) EXCEPT !.at = "prev", !.turn = asked, !.index = m.index,
                                    !.mem = m.mem, !.snap = req.snap]
    <3>1. u \in Work /\ Sound(u) /\ u.at # "idle"
      <4> HIDE DEF a, m
      <4> QED BY <1>3, <1>4, <2>1 DEF Work, Places, Sound, Stepping, Idle
    <3> QED BY <2>2, <3>1
  <2>3. CASE ~Step
    <3> DEFINE u == [Idle(a) EXCEPT !.at = "latest", !.for = "flush", !.index = m.index,
                                    !.mem = m.mem, !.snap = "always"]
    <3>1. u \in Work /\ Sound(u) /\ u.at # "idle"
      <4> HIDE DEF a, m
      <4> QED BY <1>3, <1>4, <2>1 DEF Work, Places, Sound, Stepping, Idle
    <3> QED BY <2>3, <3>1
  <2> QED BY <2>2, <2>3
<1>6. TypeOK' /\ WorkOK' /\ work'[Me] = v
  <2> HIDE DEF v
  <2> QED BY <1>1, <1>2, <1>5, TypeTakes, MeRuns DEF ClawTypes
<1> HIDE DEF v
<1>7. ClawTypes'
  BY <1>1, <1>6 DEF ClawTypes
<1>8. Control'
  BY <1>1, <1>5, <1>6, MeRuns DEF Control, ClawTypes
<1> QED BY <1>6, <1>7, <1>8 DEF LoopInv

\* The process forgets its work and goes on, or answers.
LEMMA LoopForgets ==
  ASSUME LoopInv, Forget(Me), UNCHANGED disk
  PROVE  TypeOK' /\ WorkOK' /\ work'[Me].at = "idle"
<1>1. /\ work' \in [Procs -> Work] /\ WorkOK' /\ work'[Me] = Idle(work[Me].agent)
  BY TypeForget, MeRuns DEF LoopInv, ClawTypes
<1> QED BY <1>1 DEF LoopInv, ClawTypes, TypeOK, disk, Idle

LEMMA LoopEvicted ==
  ASSUME LoopInv, Evicted
  PROVE  LoopInv'
<1>1. /\ ClawTypes /\ Control /\ at = "evict" /\ at' = "handle"
      /\ UNCHANGED <<disk, handles, memory, req, env, asked, faults, answer, usedAt>>
  BY DEF LoopInv, Evicted
<1>2. TypeOK' /\ WorkOK' /\ work'[Me].at = "idle"
  BY LoopForgets DEF Evicted, disk
<1>3. left' \in [Agents -> {"never", "flushed", "lost"}]
  BY <1>1 DEF Evicted, ClawTypes
<1>4. ClawTypes'
  BY <1>1, <1>2, <1>3 DEF ClawTypes
<1>5. Control'
  BY <1>1, <1>2 DEF Control
<1> QED BY <1>2, <1>4, <1>5 DEF LoopInv

LEMMA LoopWorked ==
  ASSUME LoopInv, Worked
  PROVE  LoopInv'
<1> DEFINE i == memory[req.agent].index
           j == IF req.cmd = "step" /\ asked \in work[Me].mem THEN i + 1 ELSE i
<1>1. /\ ClawTypes /\ Control /\ at = "work"
      /\ UNCHANGED <<disk, handles, faults, usedAt, left>>
      /\ memory' = [memory EXCEPT ![req.agent] = [mem |-> work[Me].mem, index |-> j]]
      /\ req.agent \in Agents
  BY DEF LoopInv, Worked, ClawTypes, Request
<1>2. TypeOK' /\ WorkOK' /\ work'[Me].at = "idle"
  BY LoopForgets DEF Worked, disk
<1>3. asked \in 0..MaxRequests /\ i \in Nat /\ i < asked
  BY <1>1, MeRuns DEF ClawTypes, Control
<1>4. j \in 0..MaxRequests /\ j <= asked
  BY <1>3, MeRuns
<1>5. work[Me].mem \in SUBSET Turns
  BY <1>1, MeRuns DEF ClawTypes, TypeOK, Work
<1> HIDE DEF j
<1>6. /\ memory' \in [Agents -> [mem : SUBSET Turns, index : 0..MaxRequests]]
      /\ \A a \in Agents : memory'[a].index <= asked
  BY <1>1, <1>4, <1>5 DEF ClawTypes, Control
<1>7. CASE work[Me].at = "raised" \/ req.cmd = "flush"
  <2>1. PICK is \in {"ok", "error"} : Answers(is)
    BY <1>7 DEF Worked
  <2>2. /\ at' = "read" /\ env' = Base /\ req' = req /\ asked' = asked
        /\ answer' \in [is : {"none", "ok", "error"}, budget : Budgets \cup {0, Base}]
    BY <2>1, LoopReplies
  <2>3. ClawTypes'
    BY <1>1, <1>2, <1>6, <2>2 DEF ClawTypes
  <2>4. Control'
    BY <1>2, <1>6, <2>2 DEF Control
  <2> QED BY <1>2, <2>3, <2>4 DEF LoopInv
<1>8. CASE ~(work[Me].at = "raised" \/ req.cmd = "flush")
  <2>1. at' = "last" /\ UNCHANGED <<req, env, asked, answer>>
    BY <1>8 DEF Worked
  <2>2. ClawTypes'
    BY <1>1, <1>2, <1>6, <2>1 DEF ClawTypes
  <2>3. Control'
    BY <1>1, <1>2, <1>6, <1>8, <2>1 DEF Control
  <2> QED BY <1>2, <2>2, <2>3 DEF LoopInv
<1> QED BY <1>7, <1>8

LEMMA LoopAnswers ==
  ASSUME LoopInv, Last \/ RequestRaises
  PROVE  LoopInv'
<1>1. /\ ClawTypes /\ WorkOK /\ Control
      /\ UNCHANGED <<dirVars, handles, memory, usedAt, left>>
      /\ at \in {"last", "use", "handle"} /\ faults' \in 0..MaxFaults
  BY ClawAssumption DEF LoopInv, Last, RequestRaises, Fault, ClawTypes
<1>2. PICK is \in {"ok", "error"} : Answers(is)
  BY DEF Last, RequestRaises
<1>3. /\ at' = "read" /\ env' = Base /\ req' = req /\ asked' = asked
      /\ answer' \in [is : {"none", "ok", "error"}, budget : Budgets \cup {0, Base}]
  BY <1>2, LoopReplies
<1>4. TypeOK' /\ WorkOK'
  BY <1>1 DEF ClawTypes, TypeOK, WorkOK, Sound, dirVars
<1>5. ClawTypes'
  BY <1>1, <1>3, <1>4 DEF ClawTypes
<1>6. Control'
  BY <1>1, <1>3 DEF Control, dirVars
<1> QED BY <1>4, <1>5, <1>6 DEF LoopInv

LEMMA LoopWorks ==
  ASSUME LoopInv, Works \/ AccessRaises
  PROVE  LoopInv'
<1>1. /\ ClawTypes /\ WorkOK /\ Control
      /\ UNCHANGED <<handles, memory, req, at, env, asked, answer, usedAt, left>>
      /\ at \in {"evict", "work"} /\ faults' \in 0..MaxFaults
  BY ClawAssumption DEF LoopInv, Works, AccessRaises, Fault, ClawTypes, clawVars
<1>2. Access(Me) \/ Raises(Me)
  BY DEF Works, AccessRaises
<1>3. TypeOK' /\ WorkOK'
  BY <1>1, <1>2, TypeAccess, MeRuns DEF ClawTypes
<1>4. work'[Me].at # "idle"
  <2>1. work \in [Procs -> Work]
    BY <1>1 DEF ClawTypes, TypeOK
  <2> QED BY <1>2, <2>1, MeRuns, AccessMoves
<1>5. ClawTypes'
  BY <1>1, <1>3 DEF ClawTypes
<1>6. Control'
  BY <1>1, <1>4 DEF Control
<1> QED BY <1>3, <1>5, <1>6 DEF LoopInv

LEMMA LoopDies ==
  ASSUME LoopInv, Dies
  PROVE  LoopInv'
<1>1. /\ ClawTypes /\ Control /\ UNCHANGED <<disk, memory, req, asked, usedAt>>
      /\ at' = "read" /\ env' = Base /\ answer' = NoAnswer /\ handles' = <<>>
      /\ faults' \in 0..MaxFaults
  BY ClawAssumption DEF LoopInv, Dies, Fault, ClawTypes
<1>2. TypeOK' /\ WorkOK' /\ work'[Me].at = "idle"
  BY LoopForgets DEF Dies, disk
<1>3. left' \in [Agents -> {"never", "flushed", "lost"}]
  BY <1>1 DEF Dies, ClawTypes
<1>4. handles' \in Seq(Agents) /\ Len(handles') <= Cap
  <2>1. handles' \in Seq(Agents) /\ Len(handles') = 0
    BY <1>1, EmptySeq
  <2> QED BY <2>1, MeRuns
<1>5. answer' \in [is : {"none", "ok", "error"}, budget : Budgets \cup {0, Base}]
  BY <1>1 DEF NoAnswer
<1>6. ClawTypes'
  BY <1>1, <1>2, <1>3, <1>4, <1>5 DEF ClawTypes
<1>7. Control'
  BY <1>1, <1>2 DEF Control
<1> QED BY <1>2, <1>6, <1>7 DEF LoopInv

LEMMA LoopNext == LoopInv /\ [Next]_vars => LoopInv'
<1>1. ASSUME LoopInv, Next PROVE LoopInv'
  BY <1>1, LoopRead, LoopUses, LoopEvict, LoopEvicted, LoopBegins, LoopWorked, LoopAnswers,
     LoopWorks, LoopDies DEF Next, Proceed
<1>2. ASSUME LoopInv, UNCHANGED vars PROVE LoopInv'
  BY <1>2 DEF vars, dirVars, clawVars, LoopInv, ClawTypes, TypeOK, WorkOK, Sound, Control, Request
<1> QED BY <1>1, <1>2

\* Every variable of the loop keeps its type, and it never holds more than Cap handles.
THEOREM LoopTyped == Spec => []ClawTypes
<1>1. LoopInv => ClawTypes
  BY DEF LoopInv
<1> QED BY <1>1, LoopInit, LoopNext, PTL DEF Spec
-----------------------------------------------------------------------------
(* The budget of a sample: env is changed for the request that is under way, and *)
(* every way to its answer puts it back.                                        *)

\* A sample under its own budget, for any requests before it, whatever was raised in them.
THEOREM BudgetsApart == Spec => []BudgetOfItsOwn
<1> DEFINE Inv == LoopInv /\ BudgetOfItsOwn
<1>1. Init => Inv
  BY LoopInit DEF Init, BudgetOfItsOwn, NoAnswer
<1>2. Inv /\ [Next]_vars => Inv'
  <2> SUFFICES ASSUME LoopInv, BudgetOfItsOwn, [Next]_vars PROVE BudgetOfItsOwn'
    BY LoopNext
  <2>1. ASSUME NEW r \in Request, Read(r) PROVE BudgetOfItsOwn'
    BY <2>1 DEF Read, Rejected, Accepted, NoAnswer, BudgetOfItsOwn
  <2>2. ASSUME NEW is \in {"ok", "error"}, Answers(is), at # "read" PROVE BudgetOfItsOwn'
    <3>1. env = IF req.cmd = "sample" /\ req.budget # 0 THEN req.budget ELSE Base
      BY <2>2 DEF LoopInv, Control
    <3>2. req' = req /\ answer' = [is |-> is, budget |-> IF req.cmd = "sample" THEN env ELSE 0]
      BY <2>2, LoopReplies
    <3> QED BY <3>1, <3>2 DEF BudgetOfItsOwn
  <2>3. CASE Last \/ RequestRaises
    BY <2>2, <2>3 DEF Last, RequestRaises
  <2>4. CASE Worked
    <3>1. CASE UNCHANGED <<req, env, asked, answer>>
      BY <3>1 DEF BudgetOfItsOwn
    <3> QED BY <2>2, <2>4, <3>1 DEF Worked
  <2>5. CASE Dies
    BY <2>5 DEF Dies, NoAnswer, BudgetOfItsOwn
  <2>6. CASE UNCHANGED <<req, answer>>
    BY <2>6 DEF BudgetOfItsOwn
  <2>7. FindHandle \/ NewHandle \/ Evict \/ Evicted \/ Step \/ Flush \/ Works \/ AccessRaises
        \/ UNCHANGED vars => UNCHANGED <<req, answer>>
    BY DEF FindHandle, NewHandle, Uses, Evict, Evicted, Step, Flush, Works, AccessRaises, vars, clawVars
  <2> QED BY <2>1, <2>3, <2>4, <2>5, <2>6, <2>7 DEF Next, Proceed
<1> QED BY <1>1, <1>2, PTL DEF Spec

-----------------------------------------------------------------------------
(* The answer to a step.                                                       *)

SavedHere == \E r \in RowsOf(req.agent) : r.by = asked
SavedInv ==
  /\ (at = "work" /\ req.cmd = "step") =>
       /\ work[Me].for = "step" /\ work[Me].turn = asked /\ work[Me].agent = req.agent
       /\ work[Me].at \in {"reload", "spans", "done"} => SavedHere
  /\ at = "last" => SavedHere
  /\ StepIsSaved

LEMMA SavedWorks ==
  ASSUME LoopInv, SavedInv, Works \/ AccessRaises
  PROVE  SavedInv'
<1>1. /\ TypeOK /\ UNCHANGED <<req, at, asked, answer>> /\ at \in {"evict", "work"}
      /\ Access(Me) \/ Raises(Me)
  BY DEF LoopInv, ClawTypes, Works, AccessRaises, clawVars
<1>2. /\ work'[Me].for = work[Me].for /\ work'[Me].turn = work[Me].turn
      /\ work'[Me].agent = work[Me].agent
      /\ rows \subseteq rows'
      /\ work'[Me].at \in {"reload", "spans", "done"} =>
           \/ work[Me].at \in {"reload", "spans"}
           \/ work[Me].for = "flush"
           \/ RowOf(work[Me]) \in rows'
  BY <1>1, AccessKeeps, MeRuns
<1>3. SavedHere => SavedHere'
  BY <1>1, <1>2 DEF SavedHere, RowsOf
<1>4. StepIsSaved'
  BY <1>1, <1>3 DEF SavedInv, StepIsSaved, SavedHere
<1>5. ASSUME at = "work", req.cmd = "step", work'[Me].at \in {"reload", "spans", "done"}
      PROVE  SavedHere'
  <2>1. CASE work[Me].at \in {"reload", "spans"}
    BY <1>3, <1>5, <2>1 DEF SavedInv
  <2>2. CASE RowOf(work[Me]) \in rows'
    BY <1>1, <1>5, <2>2 DEF SavedInv, SavedHere, RowsOf, RowOf
  <2>3. work[Me].for # "flush"
    BY <1>5 DEF SavedInv
  <2> QED BY <1>2, <1>5, <2>1, <2>2, <2>3
<1> QED BY <1>1, <1>2, <1>4, <1>5 DEF SavedInv

\* A step answered with ok has its state, for any requests and wherever an access raised.
THEOREM StepsAreSaved == Spec => []StepIsSaved
<1> DEFINE Inv == LoopInv /\ SavedInv
<1>1. Init => Inv
  BY LoopInit DEF Init, SavedInv, StepIsSaved, NoAnswer
<1>2. Inv /\ [Next]_vars => Inv'
  <2> SUFFICES ASSUME LoopInv, SavedInv, [Next]_vars PROVE SavedInv'
    BY LoopNext
  <2>1. ASSUME NEW r \in Request, Read(r) PROVE SavedInv'
    <3>1. at' \in {"read", "handle"}
      BY <2>1 DEF Read, Rejected, Accepted
    <3>2. ~(req'.cmd = "step" /\ answer'.is = "ok")
      BY <2>1 DEF Read, Rejected, Accepted, NoAnswer
    <3> QED BY <3>1, <3>2 DEF SavedInv, StepIsSaved
  <2>2. ASSUME NEW is \in {"ok", "error"}, Answers(is),
               (is = "ok" /\ req.cmd = "step") => (SavedHere /\ rows' = rows)
        PROVE  SavedInv'
    <3>1. at' = "read" /\ req' = req /\ asked' = asked /\ answer'.is = is
      BY <2>2, LoopReplies
    <3> QED BY <2>2, <3>1 DEF SavedInv, StepIsSaved, SavedHere, RowsOf
  <2>3. CASE Last
    <3>1. rows' = rows /\ (req.cmd = "step" => at = "last")
      BY <2>3 DEF Last, dirVars
    <3> QED BY <2>2, <2>3, <3>1 DEF Last, SavedInv
  <2>4. CASE RequestRaises
    BY <2>2, <2>4 DEF RequestRaises
  <2>5. CASE Worked
    <3>1. rows' = rows /\ at = "work"
      BY <2>5 DEF Worked, disk
    <3>2. CASE work[Me].at = "raised" \/ req.cmd = "flush"
      BY <2>2, <2>5, <3>2 DEF Worked
    <3>3. CASE ~(work[Me].at = "raised" \/ req.cmd = "flush")
      <4>1. at' = "last" /\ UNCHANGED <<req, env, asked, answer>> /\ work[Me].at = "done"
        BY <2>5, <3>3 DEF Worked
      <4>2. req.cmd = "step"
        BY <3>1, <3>3 DEF LoopInv, Control
      <4>3. SavedHere'
        BY <3>1, <4>1, <4>2 DEF SavedInv, SavedHere, RowsOf
      <4>4. StepIsSaved'
        BY <3>1, <4>1 DEF SavedInv, StepIsSaved, RowsOf
      <4> QED BY <4>1, <4>3, <4>4 DEF SavedInv
    <3> QED BY <3>2, <3>3
  <2>6. CASE Dies
    BY <2>6 DEF Dies, NoAnswer, SavedInv, StepIsSaved
  <2>7. CASE Step \/ Flush
    <3>1. /\ at' = "work" /\ UNCHANGED <<req, asked, answer>> /\ rows' = rows
          /\ work \in [Procs -> Work]
      BY <2>7 DEF Step, Flush, disk, LoopInv, ClawTypes, TypeOK
    <3>2. StepIsSaved'
      BY <3>1 DEF SavedInv, StepIsSaved, RowsOf
    <3>3. req.cmd = "step" => /\ work'[Me].for = "step" /\ work'[Me].turn = asked
                              /\ work'[Me].agent = req.agent /\ work'[Me].at = "prev"
      BY <2>7, <3>1, MeRuns DEF Step, Flush, BeginStep, Idle
    <3> QED BY <3>1, <3>2, <3>3 DEF SavedInv
  <2>8. CASE FindHandle \/ NewHandle \/ Evict \/ Evicted
    <3>1. /\ at' \in {"use", "evict", "handle"} /\ UNCHANGED <<req, asked, answer>> /\ rows' = rows
      BY <2>8 DEF FindHandle, NewHandle, Uses, Evict, Evicted, dirVars, disk
    <3>2. StepIsSaved'
      BY <3>1 DEF SavedInv, StepIsSaved, RowsOf
    <3> QED BY <3>1, <3>2 DEF SavedInv
  <2>9. CASE UNCHANGED vars
    BY <2>9 DEF vars, dirVars, clawVars, SavedInv, StepIsSaved, SavedHere, RowsOf
  <2> QED BY <2>1, <2>3, <2>4, <2>5, <2>6, <2>7, <2>8, <2>9, SavedWorks DEF Next, Proceed
<1>3. Inv => StepIsSaved
  BY DEF SavedInv
<1> QED BY <1>1, <1>2, <1>3, PTL DEF Spec
-----------------------------------------------------------------------------
(* The order of the handles: every one was used before the request under way,   *)
(* and those behind it in the order later.                                     *)

OrderInv ==
  /\ LeastRecentFirst
  /\ \A i \in DOMAIN handles : /\ usedAt[handles[i]] <= asked
                               /\ at \in {"handle", "evict"} => usedAt[handles[i]] < asked

LEMMA HandlesDiffer ==
  ASSUME LoopInv, OrderInv
  PROVE  /\ Len(handles) \in Nat /\ DOMAIN handles = 1..Len(handles)
         /\ \A i \in 1..Len(handles) : handles[i] \in Agents /\ usedAt[handles[i]] \in Nat
         /\ \A i, j \in 1..Len(handles) : handles[i] = handles[j] => i = j
<1>1. handles \in Seq(Agents) /\ usedAt \in [Agents -> 0..MaxRequests]
  BY DEF LoopInv, ClawTypes
<1>2. Len(handles) \in Nat /\ DOMAIN handles = 1..Len(handles)
  BY <1>1, LenProperties
<1>3. \A i \in 1..Len(handles) : handles[i] \in Agents /\ usedAt[handles[i]] \in Nat
  BY <1>1, ElementOfSeq, MeRuns
<1>4. ASSUME NEW i \in 1..Len(handles), NEW j \in 1..Len(handles), handles[i] = handles[j]
      PROVE  i = j
  BY <1>2, <1>3, <1>4 DEF OrderInv, LeastRecentFirst
<1> QED BY <1>2, <1>3, <1>4

\* What the order looks like with the handle of a used last: the others, in their order.
LEMMA UsedOnce ==
  ASSUME LoopInv, OrderInv, NEW a \in Agents, NEW order,
         \/ Has(a) /\ order = Append(Others(a), a)
         \/ ~Has(a) /\ order = Append(handles, a)
  PROVE  \A j \in 1..(Len(order) - 1) : order[j] # a
<1>1. handles \in Seq(Agents)
  BY DEF LoopInv, ClawTypes
<1>2. Len(handles) \in Nat /\ DOMAIN handles = 1..Len(handles)
  BY HandlesDiffer
<1>3. CASE ~Has(a)
  <2>1. order = Append(handles, a)
    BY <1>3
  <2>2. Len(order) = Len(handles) + 1 /\ \A j \in 1..Len(handles) : order[j] = handles[j]
    BY <1>1, <2>1, AppendProperties
  <2>3. \A j \in 1..Len(handles) : handles[j] # a
    BY <1>2, <1>3 DEF Has
  <2> QED BY <1>2, <2>2, <2>3
<1>4. CASE Has(a)
  <2>1. PICK i \in 1..Len(handles) : handles[i] = a /\ \A k \in 1..(Len(handles) - 1) :
          Others(a)[k] = IF k < i THEN handles[k] ELSE handles[k + 1]
    BY <1>1, <1>4, MoveToEnd
  <2>2. Others(a) \in Seq(Agents) /\ Len(Others(a)) = Len(handles) - 1
    BY <1>1, <1>4, MoveToEnd
  <2>3. Len(order) = Len(handles) /\ \A j \in 1..Len(Others(a)) : order[j] = Others(a)[j]
    <3>1. order = Append(Others(a), a)
      BY <1>4
    <3>2. /\ Len(order) = Len(Others(a)) + 1
          /\ \A j \in 1..Len(Others(a)) : order[j] = Others(a)[j]
      BY <2>2, <3>1, AppendProperties
    <3> QED BY <1>2, <2>2, <3>2
  <2>4. ASSUME NEW j \in 1..(Len(handles) - 1) PROVE order[j] # a
    <3> DEFINE m == IF j < i THEN j ELSE j + 1
    <3>1. m \in 1..Len(handles) /\ m # i
      BY <1>2
    <3>2. order[j] = handles[m]
      BY <2>1, <2>2, <2>3
    <3> QED BY <2>1, <3>1, <3>2, HandlesDiffer
  <2> QED BY <2>3, <2>4
<1> QED BY <1>3, <1>4

LEMMA OrderUses ==
  ASSUME LoopInv, OrderInv, FindHandle \/ NewHandle
  PROVE  OrderInv'
<1> DEFINE a == req.agent
           n == Len(handles')
<1>1. /\ at = "handle" /\ at' = "use" /\ UNCHANGED <<req, asked>>
      /\ usedAt' = [usedAt EXCEPT ![a] = asked]
      /\ \/ Has(a) /\ handles' = Append(Others(a), a)
         \/ ~Has(a) /\ handles' = Append(handles, a)
  BY DEF FindHandle, NewHandle, Uses
<1>2. PICK b : b = a
  OBVIOUS
<1>3. b \in Agents /\ handles \in Seq(Agents) /\ usedAt \in [Agents -> 0..MaxRequests]
      /\ asked \in Nat
  BY <1>2, MeRuns DEF LoopInv, ClawTypes, Request
<1>4. PICK order : order = handles'
  OBVIOUS
<1>5. \/ Has(b) /\ order = Append(Others(b), b)
      \/ ~Has(b) /\ order = Append(handles, b)
  BY <1>1, <1>2, <1>4
<1>6. /\ order \in Seq(Agents) /\ Len(order) \in Nat \ {0}
      /\ order[Len(order)] = b
      /\ \A j \in 1..(Len(order) - 1) : \E m \in 1..Len(handles) : order[j] = handles[m]
      /\ \A j, k \in 1..(Len(order) - 1) : j < k =>
           \E m, l \in 1..Len(handles) : m < l /\ order[j] = handles[m] /\ order[k] = handles[l]
  <2>1. InOrder(order, b)
    BY <1>3, <1>5, UsedLast
  <2> QED BY <2>1 DEF InOrder
<1>7. DOMAIN order = 1..Len(order)
  BY <1>6, LenProperties
<1>8. \A j \in 1..(Len(order) - 1) : order[j] # b
  BY <1>3, <1>5, UsedOnce
<1>9. ASSUME NEW j \in 1..(Len(order) - 1)
      PROVE  usedAt'[order[j]] = usedAt[order[j]] /\ usedAt[order[j]] \in Nat /\ usedAt[order[j]] < asked
  <2>1. PICK m \in 1..Len(handles) : order[j] = handles[m]
    BY <1>6
  <2>2. usedAt[handles[m]] < asked /\ usedAt[handles[m]] \in Nat
    BY <1>1, HandlesDiffer DEF OrderInv
  <2>3. usedAt'[order[j]] = usedAt[order[j]]
    BY <1>1, <1>2, <1>3, <1>8, <2>1, HandlesDiffer
  <2> QED BY <2>1, <2>2, <2>3
<1>10. usedAt'[b] = asked
  BY <1>1, <1>2, <1>3
<1>11. ASSUME NEW i \in 1..Len(order), NEW j \in 1..Len(order), i < j
       PROVE  usedAt'[order[i]] < usedAt'[order[j]]
  <2>1. i \in 1..(Len(order) - 1)
    BY <1>6, <1>11
  <2>2. CASE j = Len(order)
    BY <1>6, <1>9, <1>10, <2>1, <2>2
  <2>3. CASE j # Len(order)
    <3>1. j \in 1..(Len(order) - 1)
      BY <1>6, <2>3
    <3>2. PICK m, l \in 1..Len(handles) : m < l /\ order[i] = handles[m] /\ order[j] = handles[l]
      BY <1>6, <1>11, <2>1, <3>1
    <3>3. usedAt[handles[m]] < usedAt[handles[l]]
      BY <3>2, HandlesDiffer DEF OrderInv, LeastRecentFirst
    <3> QED BY <1>9, <2>1, <3>1, <3>2, <3>3
  <2> QED BY <2>2, <2>3
<1>12. ASSUME NEW i \in 1..Len(order) PROVE usedAt'[order[i]] <= asked
  <2>1. CASE i = Len(order)
    BY <1>3, <1>6, <1>10, <2>1
  <2>2. CASE i # Len(order)
    <3>1. i \in 1..(Len(order) - 1)
      BY <1>6, <2>2
    <3> QED BY <1>3, <1>9, <3>1
  <2> QED BY <2>1, <2>2
<1> QED BY <1>1, <1>4, <1>7, <1>11, <1>12 DEF OrderInv, LeastRecentFirst

LEMMA OrderEvict ==
  ASSUME LoopInv, OrderInv, Evict
  PROVE  /\ OrderInv'
         /\ \A i \in DOMAIN handles' : \E m \in 2..Len(handles) : handles'[i] = handles[m]
<1>1. /\ at = "handle" /\ at' = "evict" /\ UNCHANGED <<usedAt, asked>>
      /\ handles' = Tail(handles) /\ handles # <<>>
  BY LoopEvict DEF Evict
<1>2. handles \in Seq(Agents) /\ Len(handles) \in Nat
  BY HandlesDiffer DEF LoopInv, ClawTypes
<1>3. PICK rest : rest = handles'
  OBVIOUS
<1>4. /\ rest \in Seq(Agents) /\ Len(rest) = Len(handles) - 1
      /\ \A i \in 1..Len(rest) : rest[i] = handles[i + 1]
  BY <1>1, <1>2, <1>3, HeadTailProperties
<1>5. DOMAIN rest = 1..Len(rest) /\ Len(rest) \in Nat
  BY <1>4, LenProperties
<1>6. \A i \in 1..Len(rest) : i + 1 \in 2..Len(handles) /\ i + 1 \in DOMAIN handles
  BY <1>2, <1>4, <1>5, HandlesDiffer
<1>7. ASSUME NEW i \in 1..Len(rest), NEW j \in 1..Len(rest), i < j
      PROVE  usedAt[rest[i]] < usedAt[rest[j]]
  <2>1. \A m, l \in DOMAIN handles : m < l => usedAt[handles[m]] < usedAt[handles[l]]
    BY DEF OrderInv, LeastRecentFirst
  <2>2. i + 1 \in DOMAIN handles /\ j + 1 \in DOMAIN handles /\ i + 1 < j + 1
    BY <1>5, <1>6, <1>7
  <2> QED BY <1>4, <2>1, <2>2
<1>8. ASSUME NEW i \in 1..Len(rest) PROVE usedAt[rest[i]] <= asked /\ usedAt[rest[i]] < asked
  BY <1>1, <1>4, <1>6 DEF OrderInv
<1>9. OrderInv'
  BY <1>1, <1>3, <1>5, <1>7, <1>8 DEF OrderInv, LeastRecentFirst
<1> QED BY <1>3, <1>4, <1>5, <1>6, <1>9

LEMMA OrderNext == LoopInv /\ OrderInv /\ [Next]_vars => OrderInv'
<1> SUFFICES ASSUME LoopInv, OrderInv, [Next]_vars PROVE OrderInv'
  OBVIOUS
<1>1. ASSUME UNCHANGED <<handles, usedAt, asked>>, at' \notin {"handle", "evict"} \/ at \in {"handle", "evict"}
      PROVE  OrderInv'
  BY <1>1 DEF OrderInv, LeastRecentFirst
<1>2. ASSUME NEW r \in Request, Read(r) PROVE OrderInv'
  <2>1. UNCHANGED <<handles, usedAt>> /\ asked' = asked + 1
    BY <1>2 DEF Read
  <2>2. asked \in Nat
    BY MeRuns DEF LoopInv, ClawTypes
  <2>3. \A i \in DOMAIN handles : usedAt[handles[i]] \in Nat /\ usedAt[handles[i]] <= asked
    BY HandlesDiffer DEF OrderInv
  <2> QED BY <2>1, <2>2, <2>3 DEF OrderInv, LeastRecentFirst
<1>3. CASE Dies
  <2>1. handles' = <<>>
    BY <1>3 DEF Dies
  <2>2. DOMAIN handles' = {}
    BY <2>1
  <2> QED BY <2>2 DEF OrderInv, LeastRecentFirst
<1>4. ASSUME NEW is \in {"ok", "error"}, Answers(is), UNCHANGED <<handles, usedAt>> PROVE OrderInv'
  BY <1>1, <1>4, LoopReplies
<1>5. CASE Last \/ RequestRaises
  BY <1>4, <1>5 DEF Last, RequestRaises
<1>6. CASE Worked
  <2>1. UNCHANGED <<handles, usedAt>>
    BY <1>6 DEF Worked
  <2>2. CASE at' = "last" /\ UNCHANGED <<req, env, asked, answer>>
    BY <1>1, <2>1, <2>2
  <2> QED BY <1>4, <1>6, <2>1, <2>2 DEF Worked
<1>7. CASE Evicted \/ Step \/ Flush \/ Works \/ AccessRaises \/ UNCHANGED vars
  BY <1>1, <1>7 DEF Evicted, Step, Flush, Works, AccessRaises, vars, clawVars
<1> QED BY <1>2, <1>3, <1>5, <1>6, <1>7, OrderUses, OrderEvict DEF Next, Proceed

LEMMA OrderInit == Init => OrderInv
<1> SUFFICES ASSUME Init PROVE OrderInv
  OBVIOUS
<1>1. handles = <<>>
  BY DEF Init
<1>2. DOMAIN handles = {}
  BY <1>1
<1> QED BY <1>2 DEF OrderInv, LeastRecentFirst

\* The handle that is evicted is the one used least recently, whatever was raised in between.
THEOREM OldestGoesFirst == Spec => []LeastRecentFirst
<1>1. OrderInv => LeastRecentFirst
  BY DEF OrderInv
<1>2. Init => LoopInv /\ OrderInv
  BY LoopInit, OrderInit
<1>3. LoopInv /\ OrderInv /\ [Next]_vars => (LoopInv /\ OrderInv)'
  BY LoopNext, OrderNext
<1> QED BY <1>1, <1>2, <1>3, PTL DEF Spec
-----------------------------------------------------------------------------
(* What an eviction leaves.  No access of the process touches graph.json of an  *)
(* agent whose handle went: only the agent asked for and the one that is being *)
(* evicted are worked for, and neither has a handle that went.                 *)

EvictInv ==
  /\ \A i \in DOMAIN handles : left[handles[i]] = "never"
  /\ at \in {"use", "work", "last"} => left[req.agent] = "never"
  /\ at = "work" => work[Me].agent = req.agent
  /\ at = "evict" =>
       /\ work[Me].for = "flush" /\ FlushKept(work[Me])
       /\ left[work[Me].agent] = "never" /\ ~Has(work[Me].agent)
       /\ work[Me].mem = memory[work[Me].agent].mem
  /\ EvictedIsOnDisk

LEMMA EvictTypes ==
  ASSUME LoopInv
  PROVE  /\ left \in [Agents -> {"never", "flushed", "lost"}] /\ req.agent \in Agents
         /\ memory \in [Agents -> [mem : SUBSET Turns, index : 0..MaxRequests]]
         /\ work[Me] \in Work /\ work[Me].agent \in Agents /\ graph \in [Agents -> File]
BY MeRuns DEF LoopInv, ClawTypes, TypeOK, Request, Work

LEMMA EvictWorks ==
  ASSUME LoopInv, EvictInv, Works \/ AccessRaises
  PROVE  EvictInv'
<1>1. /\ TypeOK /\ WorkOK /\ UNCHANGED <<handles, memory, req, at, left>>
      /\ at \in {"evict", "work"} /\ (Access(Me) \/ Raises(Me))
  BY DEF LoopInv, ClawTypes, Works, AccessRaises, clawVars
<1>2. PICK b : b = work[Me].agent
  OBVIOUS
<1>3. /\ work'[Me].for = work[Me].for /\ work'[Me].agent = b
      /\ \A a \in Agents : a # b => graph'[a] = graph[a]
      /\ work[Me].for = "flush" => work'[Me].mem = work[Me].mem
      /\ (work[Me].for = "flush" /\ FlushKept(work[Me])) => FlushKept(work[Me])'
  BY <1>1, <1>2, AccessKeeps, FlushAccess, MeRuns
<1>4. left[b] = "never"
  BY <1>1, <1>2 DEF EvictInv
<1>5. EvictedIsOnDisk'
  BY <1>1, <1>3, <1>4 DEF EvictInv, EvictedIsOnDisk
<1> QED BY <1>1, <1>2, <1>3, <1>5 DEF EvictInv, Has

LEMMA EvictUses ==
  ASSUME LoopInv, OrderInv, EvictInv, FindHandle \/ NewHandle
  PROVE  EvictInv'
<1>1. /\ at' = "use" /\ UNCHANGED <<req, graph>>
      /\ \/ Has(req.agent) /\ handles' = Append(Others(req.agent), req.agent)
            /\ UNCHANGED <<memory, left>>
         \/ ~Has(req.agent) /\ handles' = Append(handles, req.agent)
            /\ left' = [left EXCEPT ![req.agent] = "never"]
            /\ memory' = [memory EXCEPT ![req.agent] = Fresh]
  BY DEF FindHandle, NewHandle, Uses, dirVars
<1>2. PICK b, order : b = req.agent /\ order = handles'
  OBVIOUS
<1>3. b \in Agents /\ handles \in Seq(Agents)
  BY <1>2, EvictTypes DEF LoopInv, ClawTypes
<1>4. InOrder(order, b)
  BY <1>1, <1>2, <1>3, UsedLast
<1>5. /\ left' \in [Agents -> {"never", "flushed", "lost"}] /\ left'[b] = "never"
      /\ \A a \in Agents : a # b => left'[a] = left[a] /\ memory'[a] = memory[a]
  <2>1. Has(b) => left[b] = "never"
    BY DEF Has, EvictInv
  <2> QED BY <1>1, <1>2, <1>3, <2>1, EvictTypes
<1>6. \A i \in DOMAIN handles : handles[i] \in Agents /\ left[handles[i]] = "never"
  BY HandlesDiffer DEF EvictInv
<1>7. \A i \in DOMAIN order : left'[order[i]] = "never"
  <2>1. DOMAIN order = 1..Len(order)
    BY <1>4, LenProperties DEF InOrder
  <2>2. ASSUME NEW i \in 1..Len(order) PROVE left'[order[i]] = "never"
    <3>1. CASE i = Len(order)
      BY <1>4, <1>5, <3>1 DEF InOrder
    <3>2. CASE i # Len(order)
      <4>1. i \in 1..(Len(order) - 1)
        BY <1>4, <3>2 DEF InOrder
      <4>2. PICK m \in DOMAIN handles : order[i] = handles[m]
        BY <1>4, <4>1, HandlesDiffer DEF InOrder
      <4> QED BY <1>5, <1>6, <4>2
    <3> QED BY <3>1, <3>2
  <2> QED BY <2>1, <2>2
<1>8. EvictedIsOnDisk'
  BY <1>1, <1>5 DEF EvictInv, EvictedIsOnDisk
<1> QED BY <1>1, <1>2, <1>5, <1>7, <1>8 DEF EvictInv

LEMMA EvictStarts ==
  ASSUME LoopInv, OrderInv, EvictInv, Evict
  PROVE  EvictInv'
<1>1. PICK old : old = Head(handles)
  OBVIOUS
<1>2. /\ at' = "evict" /\ UNCHANGED <<memory, left, graph>>
      /\ work' = [work EXCEPT ![Me] = [Idle(old) EXCEPT !.at = "latest", !.for = "flush",
                    !.index = memory[old].index, !.mem = memory[old].mem, !.snap = "always"]]
  BY <1>1 DEF Evict, BeginFlush, disk
<1>3. work \in [Procs -> Work] /\ Me \in Procs
  BY MeRuns DEF LoopInv, ClawTypes, TypeOK
<1>4. /\ work'[Me].at = "latest" /\ work'[Me].for = "flush" /\ work'[Me].agent = old
      /\ work'[Me].mem = memory[old].mem
  BY <1>2, <1>3 DEF Idle
<1>5. handles # <<>> /\ handles \in Seq(Agents)
  BY LoopEvict DEF LoopInv, ClawTypes
<1>6. 1 \in DOMAIN handles /\ old = handles[1] /\ Len(handles) \in Nat
  BY <1>1, <1>5, HandlesDiffer, EmptySeq, HeadTailProperties
<1>7. ASSUME NEW i \in DOMAIN handles' PROVE left[handles'[i]] = "never" /\ handles'[i] # old
  <2>1. PICK m \in 2..Len(handles) : handles'[i] = handles[m]
    BY OrderEvict
  <2>2. m \in DOMAIN handles /\ m # 1
    BY <1>6, HandlesDiffer
  <2>3. handles[m] # old
    BY <1>6, <2>2, HandlesDiffer
  <2> QED BY <2>1, <2>2, <2>3 DEF EvictInv
<1>8. left[old] = "never"
  BY <1>6 DEF EvictInv
<1>9. EvictedIsOnDisk'
  BY <1>2 DEF EvictInv, EvictedIsOnDisk
<1>10. FlushKept(work[Me])'
  BY <1>4 DEF FlushKept
<1> QED BY <1>2, <1>4, <1>7, <1>8, <1>9, <1>10 DEF EvictInv, Has

LEMMA EvictEnds ==
  ASSUME LoopInv, EvictInv, Evicted
  PROVE  EvictInv'
<1>1. PICK b : b = work[Me].agent
  OBVIOUS
<1>2. /\ at = "evict" /\ at' = "handle" /\ UNCHANGED <<graph, handles, memory>>
      /\ left' = [left EXCEPT ![b] = IF work[Me].at = "done" THEN "flushed" ELSE "lost"]
  BY <1>1 DEF Evicted, disk
<1>3. b \in Agents /\ left \in [Agents -> {"never", "flushed", "lost"}]
  BY <1>1, EvictTypes
<1>4. work[Me].at = "done" => graph[b] = Whole(memory[b].mem)
  BY <1>1, <1>2 DEF EvictInv, FlushKept
<1>5. \A i \in DOMAIN handles : handles[i] # b
  BY <1>1, <1>2 DEF EvictInv, Has
<1>6. EvictedIsOnDisk'
  BY <1>2, <1>3, <1>4 DEF EvictInv, EvictedIsOnDisk
<1>7. \A i \in DOMAIN handles' : left'[handles'[i]] = "never"
  BY <1>2, <1>3, <1>5 DEF EvictInv
<1> QED BY <1>2, <1>6, <1>7 DEF EvictInv

LEMMA EvictWorked ==
  ASSUME LoopInv, EvictInv, Worked
  PROVE  EvictInv'
<1>1. PICK b : b = req.agent
  OBVIOUS
<1>2. /\ at = "work" /\ UNCHANGED <<graph, handles, left, req>>
      /\ \A a \in Agents : a # b => memory'[a] = memory[a]
      /\ at' \in {"read", "last"}
  <2>1. /\ at = "work" /\ UNCHANGED <<disk, handles, left>>
        /\ Answers("error") \/ Answers("ok") \/ (at' = "last" /\ UNCHANGED req)
    BY DEF Worked
  <2>2. \A a \in Agents : a # b => memory'[a] = memory[a]
    BY <1>1, EvictTypes DEF Worked
  <2> QED BY <2>1, <2>2, LoopReplies DEF disk
<1>3. left[b] = "never"
  BY <1>1, <1>2 DEF EvictInv
<1>4. EvictedIsOnDisk'
  BY <1>2, <1>3 DEF EvictInv, EvictedIsOnDisk
<1> QED BY <1>1, <1>2, <1>3, <1>4 DEF EvictInv

LEMMA EvictNext == LoopInv /\ OrderInv /\ EvictInv /\ [Next]_vars => EvictInv'
<1> SUFFICES ASSUME LoopInv, OrderInv, EvictInv, [Next]_vars PROVE EvictInv'
  OBVIOUS
<1>1. ASSUME UNCHANGED <<graph, handles, memory, left>>, at' \in {"read", "handle"}
      PROVE  EvictInv'
  BY <1>1 DEF EvictInv, EvictedIsOnDisk
<1>2. ASSUME NEW r \in Request, Read(r) PROVE EvictInv'
  <2>1. at' \in {"read", "handle"} /\ UNCHANGED <<graph, handles, memory, left>>
    BY <1>2 DEF Read, Rejected, Accepted, dirVars
  <2> QED BY <1>1, <2>1
<1>3. CASE Dies
  <2>1. handles' = <<>> /\ at' = "read" /\ UNCHANGED <<graph, memory>>
    BY <1>3 DEF Dies, disk
  <2>2. \A a \in Agents : left'[a] = "flushed" => left[a] = "flushed"
    BY <1>3 DEF Dies
  <2>3. DOMAIN handles' = {}
    BY <2>1
  <2>4. EvictedIsOnDisk'
    BY <2>1, <2>2 DEF EvictInv, EvictedIsOnDisk
  <2> QED BY <2>1, <2>3, <2>4 DEF EvictInv
<1>4. CASE Last \/ RequestRaises
  <2>1. UNCHANGED <<graph, handles, memory, left>> /\ (Answers("ok") \/ Answers("error"))
    BY <1>4 DEF Last, RequestRaises, dirVars
  <2>2. at' = "read"
    BY <2>1, LoopReplies
  <2> QED BY <1>1, <2>1, <2>2
<1>5. CASE Step \/ Flush
  <2>1. /\ at = "use" /\ at' = "work" /\ UNCHANGED <<graph, handles, memory, req, left>>
    BY <1>5 DEF Step, Flush, disk
  <2>2. work \in [Procs -> Work] /\ Me \in Procs
    BY MeRuns DEF LoopInv, ClawTypes, TypeOK
  <2>3. work'[Me].agent = req.agent
    BY <1>5, <2>2 DEF Step, Flush, BeginStep, BeginFlush, Idle
  <2>4. EvictedIsOnDisk'
    BY <2>1 DEF EvictInv, EvictedIsOnDisk
  <2> QED BY <2>1, <2>3, <2>4 DEF EvictInv
<1>6. CASE UNCHANGED vars
  BY <1>6 DEF vars, dirVars, clawVars, EvictInv, EvictedIsOnDisk, FlushKept, Has
<1> QED BY <1>2, <1>3, <1>4, <1>5, <1>6, EvictWorks, EvictUses, EvictStarts, EvictEnds, EvictWorked
        DEF Next, Proceed

\* What a handle held that was evicted without an error is in graph.json, for any requests
\* that come later, whatever was raised before or after.
THEOREM EvictionKeeps == Spec => []EvictedIsOnDisk
<1>1. Init => LoopInv /\ OrderInv /\ EvictInv
  <2> SUFFICES ASSUME Init PROVE EvictInv
    BY LoopInit, OrderInit
  <2>1. handles = <<>> /\ at = "read" /\ left = [a \in Agents |-> "never"]
    BY DEF Init
  <2>2. DOMAIN handles = {}
    BY <2>1
  <2> QED BY <2>1, <2>2 DEF EvictInv, EvictedIsOnDisk
<1>2. LoopInv /\ OrderInv /\ EvictInv /\ [Next]_vars => (LoopInv /\ OrderInv /\ EvictInv)'
  BY LoopNext, OrderNext, EvictNext
<1>3. EvictInv => EvictedIsOnDisk
  BY DEF EvictInv
<1> QED BY <1>1, <1>2, <1>3, PTL DEF Spec
=============================================================================
