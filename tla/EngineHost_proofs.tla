-------------------------- MODULE EngineHost_proofs --------------------------
(* Proofs about EngineHost, for any sessions, calls, transcripts and faults:   *)
(* its types and the fence first, whatever calls overlap; then a host that     *)
(* awaits one call of a session before the next.                               *)
EXTENDS EngineHost, TLAPS

(* Where a call stands in its batch. *)
Bounded(k) ==
  /\ 1 <= k.base /\ k.base <= k.next /\ k.next <= k.last + 1 /\ k.last <= Length
  /\ k.pc \in {"step", "save", "reply"} => k.next <= k.last
CallsBounded == \A c \in Calls : call[c] # NoCall => Bounded(call[c])

TypeInv == TypeOK /\ CallsBounded

LEMMA TypeInit == Init => TypeInv
BY EngineAssumption DEF Init, TypeInv, TypeOK, CallsBounded, NoGraph, Graph, Msgs

(* A call that is not idle is a typed record, inside its batch. *)
LEMMA CallTyped ==
  ASSUME TypeInv, NEW c \in Calls, call[c] # NoCall
  PROVE  call[c] \in CallState /\ Bounded(call[c]) /\ call[c].s \in Sessions
BY DEF TypeInv, TypeOK, CallsBounded, CallState

(* The item of a call that has one is a message, and its key a key. *)
LEMMA ItemTyped ==
  ASSUME TypeInv, NEW c \in Calls, At(c, {"step", "save", "reply"})
  PROVE  Item(c) \in Msgs /\ ItemKey(c) \in Keys
         /\ Item(c) - call[c].base \in 0..Length
<1>1. call[c] \in CallState /\ Bounded(call[c])
  BY CallTyped DEF At
<1>2. call[c].next \in 1..Length /\ call[c].next - call[c].base \in 0..Length
  BY <1>1, EngineAssumption DEF At, Bounded, CallState
<1> QED BY <1>2 DEF Item, ItemKey, Keys, Msgs

LEMMA WorkingTyped ==
  ASSUME TypeInv, NEW s \in Sessions
  PROVE  Working(s) \in Graph /\ Loaded(s) \in Graph
BY DEF TypeInv, TypeOK, Working, Loaded, NoGraph, Graph

LEMMA TypeBegin ==
  ASSUME TypeInv, NEW c \in Calls, NEW s \in Sessions, NEW op,
         NEW first \in Nat, NEW last \in Nat, NEW q \in Queries, NEW limit \in Nat,
         NEW pc \in {"ingest", "flush"},
         1 <= first, first <= last + 1, last <= Length,
         Begin(c, s, op, pc, first, last, q, limit)
  PROVE  TypeInv'
<1> DEFINE k == [pc |-> pc, op |-> op, s |-> s, next |-> first, last |-> last,
                 base |-> first, query |-> q, limit |-> limit,
                 pack |-> EmptyPack]
<1>1. k \in CallState /\ Bounded(k)
  BY DEF CallState, Bounded, PCs, EmptyPack, Pack, Begin
<1>2. call' = [call EXCEPT ![c] = k]
  BY DEF Begin
<1> HIDE DEF k
<1>3. call' \in [Calls -> CallState \cup {NoCall}] /\ CallsBounded'
  BY <1>1, <1>2 DEF TypeInv, TypeOK, CallsBounded, Bounded
<1>4. begun' \in Nat /\ meta' \in [Sessions -> {"closed", "open", "unlinked"}]
  BY DEF Begin, TypeInv, TypeOK
<1>5. QED
  BY <1>3, <1>4 DEF Begin, TypeInv, TypeOK, transcript, disk, history

(* An action that changes nothing but where one call stands. *)
LEMMA TypeMove ==
  ASSUME TypeInv, NEW c \in Calls, call[c] # NoCall,
         NEW k \in CallState \cup {NoCall}, k # NoCall => Bounded(k),
         call' = [call EXCEPT ![c] = k]
  PROVE  call' \in [Calls -> CallState \cup {NoCall}] /\ CallsBounded'
BY DEF TypeInv, TypeOK, CallsBounded, Bounded

LEMMA TypeFinish ==
  ASSUME TypeInv, NEW c \in Calls, call' = Finish(c)
  PROVE  call' \in [Calls -> CallState \cup {NoCall}] /\ CallsBounded'
BY DEF TypeInv, TypeOK, CallsBounded, Bounded, Finish

LEMMA TypeGoto ==
  ASSUME TypeInv, NEW c \in Calls, call[c] # NoCall, NEW pc \in PCs,
         pc \in {"step", "save", "reply"} => call[c].next <= call[c].last,
         call' = Goto(c, pc)
  PROVE  call' \in [Calls -> CallState \cup {NoCall}] /\ CallsBounded'
<1> DEFINE k == [call[c] EXCEPT !.pc = pc]
<1>1. call[c] \in CallState /\ Bounded(call[c])
  BY CallTyped
<1>2. k \in CallState /\ Bounded(k)
  BY <1>1 DEF CallState, Bounded
<1>3. call' = [call EXCEPT ![c] = k]
  BY DEF Goto
<1> QED BY <1>2, <1>3, TypeMove

LEMMA TypePack ==
  ASSUME TypeInv, NEW c \in Calls, call[c] # NoCall,
         NEW pc \in {"sample", "sampled", "returned"}, NEW limit \in Nat,
         NEW pack \in Pack,
         call' = [call EXCEPT ![c].pc = pc, ![c].pack = pack, ![c].limit = limit]
  PROVE  call' \in [Calls -> CallState \cup {NoCall}] /\ CallsBounded'
<1> DEFINE k == [call[c] EXCEPT !.pc = pc, !.pack = pack, !.limit = limit]
<1>1. call[c] \in CallState /\ Bounded(call[c])
  BY CallTyped
<1>2. k \in CallState /\ Bounded(k)
  BY <1>1 DEF CallState, Bounded, PCs
<1>3. call' = [call EXCEPT ![c] = k]
  OBVIOUS
<1> QED BY <1>2, <1>3, TypeMove

(* The host begins calls with the messages it still shows. *)
LEMMA TypeHost ==
  ASSUME TypeInv, Host
  PROVE  TypeInv'
<1> USE EngineAssumption
<1>1. ASSUME NEW s \in Sessions, HostLogs(s) PROVE TypeInv'
  BY <1>1 DEF HostLogs, TypeInv, TypeOK, CallsBounded, Bounded, disk, history
<1>2. ASSUME NEW s \in Sessions, HostTrims(s) PROVE TypeInv'
  BY <1>2 DEF HostTrims, TypeInv, TypeOK, CallsBounded, Bounded, disk, history
<1> SUFFICES ASSUME NEW c \in Calls, NEW s \in Sessions,
                    \/ \E m \in Msgs : Ingest(c, s, m) \/ IngestBatch(c, s, m)
                    \/ \E q \in Queries, b \in Budgets : Assemble(c, s, q, b)
                    \/ Bootstrap(c, s)
                    \/ \E q \in Queries : Compact(c, s, q)
                    \/ ForceFlush(c, s)
             PROVE  TypeInv'
  BY <1>1, <1>2 DEF Host
<1>3. /\ logged[s] \in Nat /\ trimmed[s] \in Nat
      /\ trimmed[s] <= logged[s] /\ logged[s] <= Length
  BY DEF TypeInv, TypeOK
<1>4. ASSUME NEW m \in Msgs, Ingest(c, s, m) PROVE TypeInv'
  <2>1. PICK q \in Queries : Begin(c, s, "ingest", "ingest", m, m, q, 0)
    BY <1>4 DEF Ingest
  <2> QED BY <2>1, TypeBegin, <1>3, <1>4 DEF Ingest, Msgs
<1>5. ASSUME NEW m \in Msgs, IngestBatch(c, s, m) PROVE TypeInv'
  <2>1. PICK q \in Queries : Begin(c, s, "batch", "ingest", m, logged[s], q, 0)
    BY <1>5 DEF IngestBatch
  <2>2. m \in Nat /\ 1 <= m /\ m <= logged[s] + 1
    BY <1>3, <1>5 DEF IngestBatch, Msgs
  <2> QED BY <2>1, <2>2, TypeBegin, <1>3
<1>6. ASSUME NEW q \in Queries, NEW b \in Budgets, Assemble(c, s, q, b)
      PROVE  TypeInv'
  <2>1. b \in Nat
    OBVIOUS
  <2> QED BY <2>1, <1>3, <1>6, TypeBegin DEF Assemble
<1>7. CASE Bootstrap(c, s)
  <2>1. PICK q \in Queries :
          Begin(c, s, "bootstrap", "ingest", trimmed[s] + 1, logged[s], q, 0)
    BY <1>7 DEF Bootstrap
  <2> QED BY <2>1, TypeBegin, <1>3
<1>8. ASSUME NEW q \in Queries, Compact(c, s, q) PROVE TypeInv'
  BY <1>8, TypeBegin DEF Compact
<1>9. CASE ForceFlush(c, s)
  BY <1>9, TypeBegin DEF ForceFlush
<1> QED BY <1>4, <1>5, <1>6, <1>7, <1>8, <1>9

(* A continuation on the host's thread. *)
LEMMA TypeResume ==
  ASSUME TypeInv, NEW c \in Calls, Resume(c)
  PROVE  TypeInv'
<1> USE DEF transcript, disk, history
<1>1. CASE SkipItem(c)
  <2> DEFINE k == [call[c] EXCEPT !.next = @ + 1]
  <2>1. call[c] \in CallState /\ Bounded(call[c]) /\ call[c] # NoCall
    BY <1>1, CallTyped DEF SkipItem, HasItem, At
  <2>2. k \in CallState /\ Bounded(k)
    BY <1>1, <2>1 DEF SkipItem, HasItem, At, CallState, Bounded
  <2>3. call' = [call EXCEPT ![c] = k]
    BY <1>1 DEF SkipItem
  <2> QED BY <1>1, <2>1, <2>2, <2>3, TypeMove DEF SkipItem, TypeInv, TypeOK
<1>2. CASE SendStep(c)
  <2>1. call' \in [Calls -> CallState \cup {NoCall}] /\ CallsBounded'
    BY <1>2, TypeGoto DEF SendStep, HasItem, At, PCs
  <2> QED BY <1>2, <2>1 DEF SendStep, TypeInv, TypeOK
<1>3. CASE MarkIngested(c)
  <2> DEFINE k == [call[c] EXCEPT !.pc = "ingest", !.next = @ + 1]
  <2>1. call[c] \in CallState /\ Bounded(call[c]) /\ call[c] # NoCall
    BY <1>3, CallTyped DEF MarkIngested, At
  <2>2. k \in CallState /\ Bounded(k)
    <3>1. call[c].next <= call[c].last
      <4>1. At(c, {"reply"})
        BY <1>3 DEF MarkIngested
      <4> QED BY <2>1, <4>1 DEF At, Bounded
    <3>2. k \in CallState
      <4>1. "ingest" \in PCs /\ call[c].next + 1 \in Nat
        BY <2>1 DEF CallState, PCs
      <4> QED BY <2>1, <4>1 DEF CallState
    <3>3. /\ k.pc = "ingest" /\ k.base = call[c].base /\ k.last = call[c].last
          /\ k.next = call[c].next + 1
      BY <2>1 DEF CallState
    <3> QED BY <2>1, <3>1, <3>2, <3>3 DEF CallState, Bounded
  <2>3. call' = [call EXCEPT ![c] = k]
    BY <1>3 DEF MarkIngested
  <2>4. call' \in [Calls -> CallState \cup {NoCall}] /\ CallsBounded'
    BY <2>1, <2>2, <2>3, TypeMove
  <2>5. fence' \in [Sessions -> SUBSET Keys]
    BY <1>3, <2>1, ItemTyped DEF MarkIngested, At, TypeInv, TypeOK
  <2> QED BY <1>3, <2>4, <2>5 DEF MarkIngested, TypeInv, TypeOK
<1>4. CASE BatchReturns(c)
  BY <1>4, TypeFinish DEF BatchReturns, TypeInv, TypeOK
<1>5. CASE CachedPack(c)
  <2>1. call[c] \in CallState /\ call[c] # NoCall /\ Sess(c) \in Sessions
    BY <1>5, CallTyped DEF CachedPack, AtLookup, At, Sess
  <2>2. cache[Sess(c)].pack \in Pack
    BY <1>5, <2>1 DEF CachedPack, Hit, TypeInv, TypeOK, Remembered
  <2>3. MinOf(forward, call[c].limit) \in Nat
    BY <2>1, EngineAssumption DEF MinOf, TypeInv, TypeOK, CallState
  <2>4. call' = [call EXCEPT ![c].pc = "returned",
                             ![c].pack = cache[Sess(c)].pack,
                             ![c].limit = MinOf(forward, call[c].limit)]
    BY <1>5 DEF CachedPack
  <2>5. call' \in [Calls -> CallState \cup {NoCall}] /\ CallsBounded'
    BY <2>1, <2>2, <2>3, <2>4, TypePack
  <2> QED BY <1>5, <2>5 DEF CachedPack, TypeInv, TypeOK
<1>6. CASE SendSample(c)
  <2> DEFINE k == [call[c] EXCEPT !.pc = "sample", !.limit = MinOf(forward, @)]
  <2>1. call[c] \in CallState /\ Bounded(call[c]) /\ call[c] # NoCall
    BY <1>6, CallTyped DEF SendSample, AtLookup, At
  <2>2. MinOf(forward, call[c].limit) \in Nat
    BY <2>1, EngineAssumption DEF MinOf, TypeInv, TypeOK, CallState
  <2>3. k \in CallState /\ Bounded(k)
    BY <2>1, <2>2 DEF CallState, Bounded, PCs
  <2>4. call' = [call EXCEPT ![c] = k]
    BY <1>6 DEF SendSample
  <2>5. call' \in [Calls -> CallState \cup {NoCall}] /\ CallsBounded'
    BY <2>1, <2>3, <2>4, TypeMove
  <2> QED BY <1>6, <2>5 DEF SendSample, TypeInv, TypeOK
<1>7. CASE RememberPack(c)
  <2>1. call' \in [Calls -> CallState \cup {NoCall}] /\ CallsBounded'
    BY <1>7, TypeGoto DEF RememberPack, At, PCs
  <2>2. call[c] \in CallState
    BY <1>7, CallTyped DEF RememberPack, At
  <2>3. cache' \in [Sessions -> Remembered \cup {NoPack}]
    BY <1>7, <2>2 DEF RememberPack, TypeInv, TypeOK, Remembered, CallState, Sess
  <2> QED BY <1>7, <2>1, <2>3 DEF RememberPack, TypeInv, TypeOK
<1>8. CASE TakePrompt(c)
  BY <1>8, TypeFinish DEF TakePrompt, TypeInv, TypeOK
<1>9. CASE FlushReturns(c)
  BY <1>9, TypeFinish DEF FlushReturns, TypeInv, TypeOK
<1>10. CASE SnapshotAndSample(c)
  <2> DEFINE k == [call[c] EXCEPT !.pc = "sample", !.limit = forward]
  <2>1. call[c] \in CallState /\ Bounded(call[c]) /\ call[c] # NoCall
    BY <1>10, CallTyped DEF SnapshotAndSample, At
  <2>2. k \in CallState /\ Bounded(k)
    BY <2>1, EngineAssumption DEF CallState, Bounded, PCs, TypeInv, TypeOK
  <2>3. call' = [call EXCEPT ![c] = k]
    BY <1>10 DEF SnapshotAndSample
  <2>4. call' \in [Calls -> CallState \cup {NoCall}] /\ CallsBounded'
    BY <2>1, <2>2, <2>3, TypeMove
  <2> QED BY <1>10, <2>4 DEF SnapshotAndSample, TypeInv, TypeOK
<1>11. CASE RewriteTranscript(c)
  <2>1. call' \in [Calls -> CallState \cup {NoCall}] /\ CallsBounded'
    BY <1>11, TypeGoto DEF RewriteTranscript, At, PCs
  <2>2. Sess(c) \in Sessions
    BY <1>11, CallTyped DEF RewriteTranscript, At, Sess
  <2>3. PICK t \in trimmed[Sess(c)]..logged[Sess(c)] :
          trimmed' = [trimmed EXCEPT ![Sess(c)] = t]
    BY <1>11 DEF RewriteTranscript
  <2>4. t \in Nat /\ t <= logged[Sess(c)]
    BY <2>2 DEF TypeInv, TypeOK
  <2>5. /\ trimmed' \in [Sessions -> Nat]
        /\ \A s \in Sessions : trimmed'[s] <= logged[s] /\ logged[s] <= Length
    BY <2>2, <2>3, <2>4 DEF TypeInv, TypeOK
  <2> QED BY <1>11, <2>1, <2>5 DEF RewriteTranscript, TypeInv, TypeOK
<1>12. CASE CompactThrows(c)
  BY <1>12, TypeFinish DEF CompactThrows, TypeInv, TypeOK
<1>13. CASE CompactReturns(c)
  BY <1>13, TypeFinish DEF CompactReturns, TypeInv, TypeOK
<1> QED BY <1>1, <1>2, <1>3, <1>4, <1>5, <1>6, <1>7, <1>8, <1>9, <1>10, <1>11,
           <1>12, <1>13 DEF Resume

(* The packer at work. *)
LEMMA TypePacker ==
  ASSUME TypeInv, NEW c \in Calls, PackerWorks(c)
  PROVE  TypeInv'
<1> USE DEF transcript, disk, history
<1>1. CASE PackerStep(c)
  <2>1. call[c] \in CallState /\ Bounded(call[c]) /\ Sess(c) \in Sessions
        /\ Item(c) \in Msgs
    BY <1>1, CallTyped, ItemTyped DEF PackerStep, At, Sess
  <2>2. call' \in [Calls -> CallState \cup {NoCall}] /\ CallsBounded'
    BY <1>1, <2>1, TypeGoto DEF PackerStep, At, PCs, Bounded
  <2>3. mem' \in [Sessions -> Graph]
    BY <1>1, <2>1, WorkingTyped DEF PackerStep, Stepped, TypeInv, TypeOK, Graph
  <2> QED BY <1>1, <2>1, <2>2, <2>3 DEF PackerStep, TypeInv, TypeOK
<1>2. ASSUME NEW from \in {"save", "flushing"}, NEW to \in {"reply", "flushed"},
             to = "reply" => from = "save", SaveGraph(c, from, to)
      PROVE  TypeInv'
  <2>1. call[c] \in CallState /\ Bounded(call[c]) /\ Sess(c) \in Sessions
    BY <1>2, CallTyped DEF SaveGraph, At, Sess
  <2>2. call' \in [Calls -> CallState \cup {NoCall}] /\ CallsBounded'
    BY <1>2, <2>1, TypeGoto DEF SaveGraph, At, PCs, Bounded
  <2>3. /\ file' \in [Sessions -> {"absent", "blank", "torn", "whole"}]
        /\ saved' \in [Sessions -> Graph]
        /\ spanned' \in [Sessions -> BOOLEAN]
    BY <1>2, <2>1 DEF SaveGraph, TypeInv, TypeOK
  <2> QED BY <1>2, <2>2, <2>3 DEF SaveGraph, TypeInv, TypeOK
<1>3. CASE PackerSample(c)
  <2>1. call[c] \in CallState /\ Sess(c) \in Sessions /\ call[c] # NoCall
    BY <1>3, CallTyped DEF PackerSample, At, Sess
  <2>2. PICK skip \in BOOLEAN, text \in BOOLEAN :
          /\ call' = [call EXCEPT ![c].pc = "sampled",
                                  ![c].pack = PackOf(c, skip, text)]
          /\ injected' = [injected EXCEPT ![Sess(c)] = @ \/ text]
    BY <1>3 DEF PackerSample
  <2>3. PackOf(c, skip, text) \in Pack
    BY <2>1 DEF PackOf, Pack, Held, CallState
  <2> DEFINE k == [call[c] EXCEPT !.pc = "sampled", !.pack = PackOf(c, skip, text)]
  <2>4. k \in CallState /\ Bounded(k)
    BY <2>1, <2>3, CallTyped DEF CallState, Bounded, PCs
  <2>5. call' = [call EXCEPT ![c] = k]
    BY <2>2
  <2>6. call' \in [Calls -> CallState \cup {NoCall}] /\ CallsBounded'
    BY <2>1, <2>4, <2>5, TypeMove
  <2>7. mem' \in [Sessions -> Graph] /\ live' \in [Sessions -> BOOLEAN]
    BY <1>3, <2>1, WorkingTyped DEF PackerSample, TypeInv, TypeOK
  <2>8. injected' \in [Sessions -> BOOLEAN]
    BY <2>2 DEF TypeInv, TypeOK
  <2> QED BY <1>3, <2>6, <2>7, <2>8 DEF PackerSample, TypeInv, TypeOK
<1>4. CASE PackerFlush(c)
  <2>1. call[c] \in CallState /\ Sess(c) \in Sessions /\ call[c] # NoCall
    BY <1>4, CallTyped DEF PackerFlush, At, Sess
  <2>2. call' \in [Calls -> CallState \cup {NoCall}] /\ CallsBounded'
    BY <1>4, <2>1, TypeGoto DEF PackerFlush, PCs
  <2>3. mem' \in [Sessions -> Graph]
    BY <1>4, <2>1, WorkingTyped DEF PackerFlush, TypeInv, TypeOK
  <2> QED BY <1>4, <2>1, <2>2, <2>3 DEF PackerFlush, TypeInv, TypeOK
<1> QED BY <1>1, <1>2, <1>3, <1>4 DEF PackerWorks

LEMMA TypeHandlesDie ==
  ASSUME TypeInv, HandlesDie
  PROVE  /\ live' \in [Sessions -> BOOLEAN] /\ intact' \in [Sessions -> BOOLEAN]
BY DEF HandlesDie, Harmed, TypeInv, TypeOK

(* What goes wrong with one call. *)
LEMMA TypeFails ==
  ASSUME TypeInv, NEW c \in Calls, Fails(c)
  PROVE  TypeInv'
<1> USE DEF transcript, disk, history
<1>1. CASE Reject(c)
  BY <1>1, TypeFinish DEF Reject, TypeInv, TypeOK
<1>2. CASE StepThrows(c)
  <2>1. Sess(c) \in Sessions /\ Item(c) \in Msgs
    BY <1>2, CallTyped, ItemTyped DEF StepThrows, At, Sess
  <2>2. call' \in [Calls -> CallState \cup {NoCall}] /\ CallsBounded'
    BY <1>2, TypeFinish DEF StepThrows
  <2>3. mem' \in [Sessions -> Graph]
    BY <1>2, <2>1, WorkingTyped DEF StepThrows, Stepped, TypeInv, TypeOK, Graph
  <2> QED BY <1>2, <2>1, <2>2, <2>3 DEF StepThrows, TypeInv, TypeOK
<1>3. ASSUME At(c, {"save", "reply"}) \/ Unacked(c) = {}
      PROVE  Unacked(c) \subseteq Msgs
  BY <1>3, ItemTyped DEF Unacked, At
<1>4. CASE ErrorAfterEffect(c)
  <2>1. call' \in [Calls -> CallState \cup {NoCall}] /\ CallsBounded'
    BY <1>4, TypeFinish DEF ErrorAfterEffect
  <2>2. unsure' \in [Sessions -> SUBSET Msgs]
    BY <1>3, <1>4 DEF ErrorAfterEffect, Unacked, TypeInv, TypeOK
  <2> QED BY <1>4, <2>1, <2>2 DEF ErrorAfterEffect, TypeInv, TypeOK
<1>5. CASE Timeout(c)
  <2>1. call' \in [Calls -> CallState \cup {NoCall}] /\ CallsBounded'
    BY <1>5, TypeFinish DEF Timeout
  <2>2. unsure' \in [Sessions -> SUBSET Msgs]
    BY <1>3, <1>5 DEF Timeout, Unacked, TypeInv, TypeOK
  <2> QED BY <1>5, <2>1, <2>2, TypeHandlesDie DEF Timeout, TypeInv, TypeOK
<1> QED BY <1>1, <1>2, <1>4, <1>5 DEF Fails

(* What the operator does, and what goes wrong with all calls. *)
LEMMA TypeRest ==
  ASSUME TypeInv,
         Operator \/ Crash \/ Reload \/ \E s \in Sessions : EvictHandle(s)
  PROVE  TypeInv'
<1> USE DEF transcript, disk, history
<1>1. ASSUME NEW s \in Sessions, Purge(s) PROVE TypeInv'
  <2>1. saved' \in [Sessions -> Graph]
    BY <1>1 DEF Purge, TypeInv, TypeOK, NoGraph, Graph
  <2> QED BY <1>1, <2>1 DEF Purge, TypeInv, TypeOK, CallsBounded
<1>2. ASSUME NEW s \in Sessions, NEW b \in Budgets, SwitchProfile(s, b)
      PROVE  TypeInv'
  BY <1>2 DEF SwitchProfile, TypeInv, TypeOK, CallsBounded
<1>3. ASSUME NEW s \in Sessions, EvictHandle(s) PROVE TypeInv'
  BY <1>3 DEF EvictHandle, TypeInv, TypeOK, CallsBounded
<1>4. ASSUME Restart, cache' \in [Sessions -> Remembered \cup {NoPack}]
      PROVE  TypeInv'
  <2>1. call' \in [Calls -> CallState \cup {NoCall}] /\ CallsBounded'
    BY <1>4 DEF Restart, CallsBounded
  <2>2. \A c \in Calls : Unacked(c) \subseteq Msgs
    BY ItemTyped DEF Unacked, At
  <2>3. unsure' \in [Sessions -> SUBSET Msgs]
    BY <1>4, <2>2 DEF Restart, Active, TypeInv, TypeOK
  <2>4. fence' \in [Sessions -> SUBSET Keys]
    BY <1>4 DEF Restart, TypeInv, TypeOK
  <2>5. live' \in [Sessions -> BOOLEAN] /\ intact' \in [Sessions -> BOOLEAN]
    BY <1>4, TypeHandlesDie DEF Restart
  <2> QED BY <1>4, <2>1, <2>3, <2>4, <2>5 DEF Restart, TypeInv, TypeOK
<1>5. CASE Crash
  BY <1>4, <1>5 DEF Crash
<1>6. CASE Reload
  BY <1>4, <1>6 DEF Reload, TypeInv, TypeOK
<1> QED BY <1>1, <1>2, <1>3, <1>5, <1>6 DEF Operator

LEMMA TypeStep == TypeInv /\ [Next]_vars => TypeInv'
<1> SUFFICES ASSUME TypeInv, [Next]_vars PROVE TypeInv'
  OBVIOUS
<1>1. CASE UNCHANGED vars
  BY <1>1 DEF vars, TypeInv, TypeOK, CallsBounded
<1>2. CASE Next
  BY <1>2, TypeHost, TypeResume, TypePacker, TypeFails, TypeRest DEF Next, Proceed
<1> QED BY <1>1, <1>2

LEMMA Typed == Spec => []TypeInv
BY TypeInit, TypeStep, PTL DEF Spec

(* Every variable keeps its type, in whatever order calls, answers and faults   *)
(* come (engine.ts, ingest.ts, assemble.ts, compact.ts, manage.ts).             *)
THEOREM TypeCorrect == Spec => []TypeOK
<1>1. TypeInv => TypeOK
  BY DEF TypeInv
<1> QED BY <1>1, Typed, PTL

-----------------------------------------------------------------------------
(* FenceBacked.  By itself it is not inductive: a row is written when an answer  *)
(* arrives, so the graph must already back the message of every answer on its   *)
(* way, and a save under way must be the save of a graph that holds it.         *)
FenceOK(s) == \A k \in fence[s] : \E m \in Behind(k) : Backed(s, m)
ReplyOK(s) == \A c \in Calls : At(c, {"reply"}) /\ Sess(c) = s => Backed(s, Item(c))
SaveOK(s) == \A c \in Calls :
               /\ At(c, {"save", "flushing"}) /\ Sess(c) = s => live[s]
               /\ At(c, {"save"}) /\ Sess(c) = s => mem[s][Item(c)] > 0
FileOK(s) == /\ file[s] \in {"blank", "torn"} => live[s]
             /\ file[s] = "absent" =>
                  /\ fence[s] = {}
                  /\ \A c \in Calls : At(c, {"save", "reply"}) => Sess(c) # s
SessionOK(s) == FenceOK(s) /\ ReplyOK(s) /\ SaveOK(s) /\ FileOK(s)
FenceInv == \A s \in Sessions : intact[s] => SessionOK(s)

LEMMA FenceInit == Init => FenceInv
BY DEF Init, FenceInv, SessionOK, FenceOK, ReplyOK, SaveOK, FileOK, At

(* A step that leaves a session's fence, graphs and file alone, and brings no   *)
(* call of it to a save or an answer.                                           *)
SameGraphs(s) == /\ fence'[s] = fence[s] /\ live'[s] = live[s]
                 /\ mem'[s] = mem[s] /\ file'[s] = file[s] /\ saved'[s] = saved[s]
NoneArrives ==
  \A d \in Calls : At(d, {"save", "reply", "flushing"})' => call'[d] = call[d]

LEMMA SessionFrame ==
  ASSUME NEW s \in Sessions, SessionOK(s), SameGraphs(s), NoneArrives
  PROVE  SessionOK(s)'
<1>1. \A d \in Calls : \A pcs \in SUBSET {"save", "reply", "flushing"} :
        At(d, pcs)' => At(d, pcs) /\ Sess(d)' = Sess(d) /\ Item(d)' = Item(d)
  BY DEF NoneArrives, At, Sess, Item
<1>2. Working(s)' = Working(s)
  BY DEF SameGraphs, Working, Loaded, NoGraph
<1>3. \A m : Backed(s, m)' <=> Backed(s, m)
  BY <1>2 DEF SameGraphs, Backed
<1>4. FenceOK(s)'
  BY <1>3 DEF SessionOK, FenceOK, SameGraphs, Behind
<1>5. ReplyOK(s)'
  BY <1>1, <1>3 DEF SessionOK, ReplyOK
<1>6. SaveOK(s)'
  BY <1>1 DEF SessionOK, SaveOK, SameGraphs
<1>7. FileOK(s)'
  BY <1>1 DEF SessionOK, FileOK, SameGraphs
<1> QED BY <1>4, <1>5, <1>6, <1>7 DEF SessionOK

LEMMA FenceFrame ==
  ASSUME FenceInv, NoneArrives,
         UNCHANGED <<fence, live, mem, file, saved, intact>>
  PROVE  FenceInv'
BY SessionFrame DEF FenceInv, SameGraphs

(* A call that goes on to a place other than a save or an answer. *)
LEMMA MovesAway ==
  ASSUME TypeInv, NEW c \in Calls, NEW k,
         k # NoCall => k.pc \notin {"save", "reply", "flushing"},
         call' = [call EXCEPT ![c] = k]
  PROVE  NoneArrives
BY DEF NoneArrives, At, TypeInv, TypeOK

LEMMA FenceHost ==
  ASSUME TypeInv, FenceInv, Host
  PROVE  FenceInv'
<1>1. ASSUME NEW c \in Calls, NEW s, NEW op, NEW first, NEW last, NEW q, NEW b,
             NEW pc \in {"ingest", "flush"},
             Begin(c, s, op, pc, first, last, q, b)
      PROVE  FenceInv'
  <2>1. NoneArrives
    BY <1>1, MovesAway DEF Begin
  <2> QED BY <1>1, <2>1, FenceFrame DEF Begin, disk, history
<1>2. ASSUME NEW s \in Sessions, HostLogs(s) \/ HostTrims(s) PROVE FenceInv'
  BY <1>2, FenceFrame DEF HostLogs, HostTrims, NoneArrives, disk, history
<1> QED
  BY <1>1, <1>2
  DEF Host, Ingest, IngestBatch, Assemble, Bootstrap, Compact, ForceFlush

(* The fence row follows the answer, and the answer the save. *)
LEMMA FenceMark ==
  ASSUME TypeInv, FenceInv, NEW c \in Calls, MarkIngested(c)
  PROVE  FenceInv'
<1> DEFINE r == Sess(c)
<1>1. /\ call[c] \in CallState /\ Bounded(call[c]) /\ r \in Sessions
      /\ At(c, {"reply"}) /\ Item(c) \in Msgs
      /\ Item(c) - call[c].base \in 0..Length
  BY CallTyped, ItemTyped DEF MarkIngested, At, Sess
<1>2. Item(c) \in Behind(ItemKey(c))
  BY <1>1 DEF Behind, ItemKey, Item
<1>3. NoneArrives
  <2> DEFINE k == [call[c] EXCEPT !.pc = "ingest", !.next = @ + 1]
  <2>1. k.pc = "ingest"
    BY <1>1 DEF CallState
  <2>2. call' = [call EXCEPT ![c] = k]
    BY DEF MarkIngested
  <2> HIDE DEF k
  <2> QED BY <2>1, <2>2, MovesAway
<1> SUFFICES ASSUME NEW s \in Sessions, intact'[s] PROVE SessionOK(s)'
  BY DEF FenceInv
<1>4. intact[s] /\ SessionOK(s)
  BY DEF FenceInv, MarkIngested, history
<1>5. CASE s # r
  <2>1. SameGraphs(s)
    BY <1>5 DEF MarkIngested, SameGraphs, TypeInv, TypeOK, disk
  <2> QED BY <1>3, <1>4, <2>1, SessionFrame
<1>6. CASE s = r
  <2>1. \A d \in Calls : \A pcs \in SUBSET {"save", "reply", "flushing"} :
          At(d, pcs)' => At(d, pcs) /\ Sess(d)' = Sess(d) /\ Item(d)' = Item(d)
    BY <1>3 DEF NoneArrives, At, Sess, Item
  <2>2. \A m : Backed(s, m)' <=> Backed(s, m)
    BY DEF MarkIngested, disk, Backed, Working, Loaded, NoGraph
  <2>3. Backed(s, Item(c)) /\ file[s] # "absent"
    BY <1>1, <1>4, <1>6 DEF SessionOK, ReplyOK, FileOK, At
  <2>4. fence'[s] = fence[s] \cup {ItemKey(c)}
    BY <1>1, <1>6 DEF MarkIngested, TypeInv, TypeOK
  <2>5. FenceOK(s)'
    BY <1>2, <1>4, <2>2, <2>3, <2>4 DEF SessionOK, FenceOK, Behind
  <2>6. ReplyOK(s)' /\ SaveOK(s)' /\ FileOK(s)'
    BY <1>4, <2>1, <2>2, <2>3
    DEF SessionOK, ReplyOK, SaveOK, FileOK, MarkIngested, disk
  <2> QED BY <2>5, <2>6 DEF SessionOK
<1> QED BY <1>5, <1>6

LEMMA FenceResume ==
  ASSUME TypeInv, FenceInv, NEW c \in Calls, Resume(c)
  PROVE  FenceInv'
<1>1. CASE MarkIngested(c)
  BY <1>1, FenceMark
<1>2. CASE ~MarkIngested(c)
  <2>1. UNCHANGED <<fence, live, mem, file, saved, intact>>
    BY <1>2 DEF Resume, SkipItem, SendStep, BatchReturns, CachedPack, SendSample,
       RememberPack, TakePrompt, FlushReturns, SnapshotAndSample,
       RewriteTranscript, CompactThrows, CompactReturns, disk, history
  <2>2. call[c] # NoCall
    BY <1>2 DEF Resume, SkipItem, SendStep, BatchReturns, CachedPack, SendSample,
       RememberPack, TakePrompt, FlushReturns, SnapshotAndSample,
       RewriteTranscript, CompactThrows, CompactReturns, HasItem, AtLookup, At
  <2>3. call[c] \in CallState
    BY <2>2, CallTyped
  <2>4. \A d \in Calls : d # c => call'[d] = call[d]
    BY <1>2 DEF Resume, SkipItem, SendStep, BatchReturns, CachedPack, SendSample,
       RememberPack, TakePrompt, FlushReturns, SnapshotAndSample, Finish, Goto,
       RewriteTranscript, CompactThrows, CompactReturns, TypeInv, TypeOK
  <2>5. call'[c] = NoCall \/ call'[c].pc \notin {"save", "reply", "flushing"}
    <3>1. CASE SkipItem(c)
      BY <3>1, <2>3 DEF SkipItem, HasItem, At, TypeInv, TypeOK, CallState
    <3>2. CASE SendStep(c) \/ RememberPack(c) \/ RewriteTranscript(c)
      BY <3>2, <2>3 DEF SendStep, RememberPack, RewriteTranscript, Goto, TypeInv,
         TypeOK, CallState
    <3>3. CASE BatchReturns(c) \/ TakePrompt(c) \/ FlushReturns(c)
               \/ CompactThrows(c) \/ CompactReturns(c)
      BY <3>3 DEF BatchReturns, TakePrompt, FlushReturns, CompactThrows,
         CompactReturns, Finish, TypeInv, TypeOK
    <3>4. CASE CachedPack(c) \/ SendSample(c) \/ SnapshotAndSample(c)
      BY <3>4, <2>3 DEF CachedPack, SendSample, SnapshotAndSample, TypeInv,
         TypeOK, CallState
    <3> QED BY <1>2, <3>1, <3>2, <3>3, <3>4 DEF Resume
  <2>6. NoneArrives
    BY <2>4, <2>5 DEF NoneArrives, At
  <2> QED BY <2>1, <2>6, FenceFrame
<1> QED BY <1>1, <1>2

(* A graph that only grows goes on backing what it backed. *)
Grows(s) == /\ \A m \in Msgs : Working(s)[m] > 0 => Working(s)'[m] > 0
            /\ file'[s] = "whole" => file[s] = "whole" /\ saved'[s] = saved[s]

LEMMA BackedGrows ==
  ASSUME NEW s \in Sessions, NEW m \in Msgs, Grows(s), Backed(s, m)
  PROVE  Backed(s, m)'
BY DEF Grows, Backed

LEMMA BehindMsgs == \A k : Behind(k) \subseteq Msgs
BY DEF Behind

(* Stepping a message leaves every other one, and puts this one, in the graph. *)
LEMMA StepGrows ==
  ASSUME TypeInv, NEW c \in Calls, At(c, {"step"}), NEW r, r = Sess(c),
         mem' = Stepped(c), live' = [live EXCEPT ![Sess(c)] = TRUE]
  PROVE  /\ \A m \in Msgs : Working(r)[m] > 0 => Working(r)'[m] > 0
         /\ mem'[r][Item(c)] > 0 /\ live'[r]
         /\ \A s \in Sessions \ {r} : mem'[s] = mem[s] /\ live'[s] = live[s]
<1>1. r \in Sessions /\ Item(c) \in Msgs
  BY CallTyped, ItemTyped DEF At, Sess
<1>2. Working(r) \in Graph
  BY <1>1, WorkingTyped
<1>3. mem' = [mem EXCEPT ![r] = [Working(r) EXCEPT ![Item(c)] = @ + 1]]
  BY DEF Stepped
<1>4. /\ mem'[r] = [Working(r) EXCEPT ![Item(c)] = @ + 1]
      /\ live'[r]
      /\ \A s \in Sessions \ {r} : mem'[s] = mem[s] /\ live'[s] = live[s]
  BY <1>1, <1>3 DEF TypeInv, TypeOK
<1>5. Working(r)' = mem'[r]
  BY <1>4 DEF Working
<1> QED BY <1>1, <1>2, <1>4, <1>5 DEF Graph

LEMMA FencePackerStep ==
  ASSUME TypeInv, FenceInv, NEW c \in Calls, PackerStep(c)
  PROVE  FenceInv'
<1>0. PICK r : r = Sess(c)
  OBVIOUS
<1>1. /\ call[c] \in CallState /\ call[c] # NoCall /\ r \in Sessions
      /\ At(c, {"step"}) /\ PackerFree
  BY <1>0, CallTyped DEF PackerStep, At, Sess
<1>2. /\ \A m \in Msgs : Working(r)[m] > 0 => Working(r)'[m] > 0
      /\ mem'[r][Item(c)] > 0 /\ live'[r]
      /\ \A s \in Sessions \ {r} : mem'[s] = mem[s] /\ live'[s] = live[s]
  BY <1>0, <1>1, StepGrows DEF PackerStep
<1>3. /\ \A d \in Calls \ {c} : call'[d] = call[d]
      /\ call'[c] = [call[c] EXCEPT !.pc = "save"]
  BY <1>1 DEF PackerStep, Goto, TypeInv, TypeOK
<1>4. call'[c].s = r /\ call'[c].next = Item(c) /\ call'[c].pc = "save"
  BY <1>0, <1>1, <1>3 DEF CallState, Item, Sess
<1>5. /\ file'[r] \in {"blank", "torn"}
      /\ \A s \in Sessions \ {r} : file'[s] = file[s]
  BY <1>0, <1>1 DEF PackerStep, TypeInv, TypeOK
<1> SUFFICES ASSUME NEW s \in Sessions, intact'[s] PROVE SessionOK(s)'
  BY DEF FenceInv
<1>6. SessionOK(s) /\ fence' = fence /\ saved' = saved
  BY DEF FenceInv, PackerStep
<1>7. CASE s # r
  <2>1. Working(s)' = Working(s)
    BY <1>2, <1>5, <1>6, <1>7 DEF Working, Loaded, NoGraph
  <2>2. \A m : Backed(s, m)' <=> Backed(s, m)
    BY <2>1, <1>5, <1>6, <1>7 DEF Backed
  <2>3. \A d \in Calls : \A pcs \in SUBSET {"save", "reply", "flushing"} :
          At(d, pcs)' /\ Sess(d)' = s =>
            At(d, pcs) /\ Sess(d) = s /\ Item(d)' = Item(d)
    BY <1>3, <1>4, <1>7 DEF At, Sess, Item
  <2>4. FenceOK(s)' /\ ReplyOK(s)'
    BY <1>6, <2>2, <2>3 DEF SessionOK, FenceOK, ReplyOK, Behind
  <2>5. SaveOK(s)'
    BY <1>2, <1>6, <1>7, <2>3 DEF SessionOK, SaveOK
  <2>6. FileOK(s)'
    BY <1>2, <1>5, <1>6, <1>7, <2>3 DEF SessionOK, FileOK
  <2> QED BY <2>4, <2>5, <2>6 DEF SessionOK
<1>8. CASE s = r
  <2>1. Grows(s)
    BY <1>2, <1>5, <1>8 DEF Grows
  <2>2. \A d \in Calls : At(d, {"reply"})' => d # c /\ At(d, {"reply"})
                           /\ Sess(d)' = Sess(d) /\ Item(d)' = Item(d)
    BY <1>3, <1>4 DEF At, Sess, Item
  <2>3. \A d \in Calls : At(d, {"reply"}) => Item(d) \in Msgs
    BY ItemTyped DEF At
  <2>4. FenceOK(s)' /\ ReplyOK(s)'
    BY <1>6, <2>1, <2>2, <2>3, BackedGrows, BehindMsgs
    DEF SessionOK, FenceOK, ReplyOK, Behind
  <2>5. \A d \in Calls : At(d, {"save", "flushing"})' => d = c
    BY <1>1, <1>3 DEF PackerFree, At
  <2>6. SaveOK(s)'
    BY <1>2, <1>4, <1>8, <2>5 DEF SaveOK, Item, At
  <2> QED BY <1>2, <1>5, <1>8, <2>4, <2>6 DEF SessionOK, FileOK
<1> QED BY <1>7, <1>8

(* A save makes graph.json what the live handle holds. *)
LEMMA FenceSave ==
  ASSUME TypeInv, FenceInv, NEW c \in Calls,
         SaveGraph(c, "save", "reply") \/ SaveGraph(c, "flushing", "flushed")
  PROVE  FenceInv'
<1> DEFINE r == Sess(c)
<1>1. /\ call[c] \in CallState /\ call[c] # NoCall /\ r \in Sessions
      /\ At(c, {"save", "flushing"})
  BY CallTyped DEF SaveGraph, At, Sess
<1>2. \A d \in Calls \ {c} : call'[d] = call[d]
  BY <1>1 DEF SaveGraph, Goto, TypeInv, TypeOK
<1>3. /\ call'[c].s = r /\ call'[c].next = Item(c)
      /\ call'[c].pc \in {"reply", "flushed"}
      /\ call'[c].pc = "reply" => At(c, {"save"})
  BY <1>1 DEF SaveGraph, Goto, TypeInv, TypeOK, CallState, Item, Sess, At
<1>4. IF file[r] = "absent" THEN file' = file /\ saved' = saved
      ELSE /\ file'[r] = "whole" /\ saved'[r] = mem[r]
           /\ \A s \in Sessions \ {r} : file'[s] = file[s] /\ saved'[s] = saved[s]
  BY <1>1 DEF SaveGraph, TypeInv, TypeOK
<1> SUFFICES ASSUME NEW s \in Sessions, intact'[s] PROVE SessionOK(s)'
  BY DEF FenceInv
<1>5. /\ SessionOK(s) /\ fence' = fence /\ live' = live /\ mem' = mem
  BY DEF FenceInv, SaveGraph, history
<1>6. \A d \in Calls : \A pcs \in SUBSET {"save", "flushing"} :
        At(d, pcs)' => At(d, pcs) /\ Sess(d)' = Sess(d) /\ Item(d)' = Item(d)
  BY <1>2, <1>3 DEF At, Sess, Item
<1>7. \A d \in Calls : At(d, {"reply"})' /\ Sess(d)' = s =>
        /\ At(d, {"reply"}) \/ (d = c /\ s = r /\ At(c, {"save"}))
        /\ Sess(d) = s /\ Item(d)' = Item(d)
  BY <1>2, <1>3 DEF At, Sess, Item
<1>8. ASSUME NEW m, Backed(s, m) \/ (s = r /\ mem[s][m] > 0 /\ file[s] # "absent")
      PROVE  Backed(s, m)'
  <2>1. CASE s = r /\ file[r] # "absent"
    <3>1. live[s]
      BY <1>1, <1>5, <2>1 DEF SessionOK, SaveOK
    <3>2. mem[s][m] > 0
      BY <1>8, <3>1 DEF Backed, Working
    <3> QED BY <1>4, <1>5, <2>1, <3>1, <3>2 DEF Backed, Working
  <2>2. CASE ~(s = r /\ file[r] # "absent")
    <3>1. file'[s] = file[s] /\ saved'[s] = saved[s]
      BY <1>4, <2>2
    <3>2. Backed(s, m)
      BY <1>8, <2>2
    <3> QED BY <1>5, <3>1, <3>2 DEF Backed, Working, Loaded, NoGraph
  <2> QED BY <2>1, <2>2
<1>9. FenceOK(s)'
  BY <1>5, <1>8 DEF SessionOK, FenceOK, Behind
<1>10. ReplyOK(s)'
  <2>1. At(c, {"save"}) /\ s = r => mem[s][Item(c)] > 0 /\ file[s] # "absent"
    BY <1>5 DEF SessionOK, SaveOK, FileOK, At
  <2> QED BY <1>5, <1>7, <1>8, <2>1 DEF SessionOK, ReplyOK
<1>11. SaveOK(s)'
  BY <1>5, <1>6 DEF SessionOK, SaveOK
<1>12. FileOK(s)'
  <2>1. file'[s] \in {"blank", "torn"} => file[s] = file'[s]
    BY <1>4
  <2>2. file'[s] = "absent" => file[s] = "absent"
    BY <1>4
  <2>3. \A d \in Calls : At(d, {"save", "reply"})' /\ Sess(d)' = s =>
          At(d, {"save", "reply"}) /\ Sess(d) = s
    BY <1>2, <1>3 DEF At, Sess
  <2> QED BY <1>5, <2>1, <2>2, <2>3 DEF SessionOK, FileOK
<1> QED BY <1>9, <1>10, <1>11, <1>12 DEF SessionOK

(* A sample or a flush brings the handle to memory, its graph as it was. *)
LEMMA FenceLoads ==
  ASSUME TypeInv, FenceInv, NEW c \in Calls, PackerSample(c) \/ PackerFlush(c)
  PROVE  FenceInv'
<1> DEFINE r == Sess(c)
<1>1. call[c] \in CallState /\ call[c] # NoCall /\ r \in Sessions
  BY CallTyped DEF PackerSample, PackerFlush, At, Sess
<1>2. /\ mem' = [mem EXCEPT ![r] = Working(r)]
      /\ live' = [live EXCEPT ![r] = TRUE]
      /\ fence' = fence /\ saved' = saved /\ intact' = intact
  BY DEF PackerSample, PackerFlush, history
<1>3. /\ mem'[r] = Working(r) /\ live'[r]
      /\ \A s \in Sessions \ {r} : mem'[s] = mem[s] /\ live'[s] = live[s]
  BY <1>1, <1>2 DEF TypeInv, TypeOK
<1>4. /\ file'[r] = file[r] \/ file'[r] \in {"blank", "torn"}
      /\ \A s \in Sessions \ {r} : file'[s] = file[s]
  BY <1>1 DEF PackerSample, PackerFlush, TypeInv, TypeOK
<1>5. /\ \A d \in Calls \ {c} : call'[d] = call[d]
      /\ call'[c].s = r /\ call'[c].pc \in {"sampled", "flushing"}
  BY <1>1 DEF PackerSample, PackerFlush, Goto, TypeInv, TypeOK, CallState, Sess
<1>6. \A d \in Calls : At(d, {"save", "flushing"})' => d = c
  <2>1. PackerFree
    BY DEF PackerSample, PackerFlush
  <2> QED BY <1>5, <2>1 DEF PackerFree, At
<1> SUFFICES ASSUME NEW s \in Sessions, intact'[s] PROVE SessionOK(s)'
  BY DEF FenceInv
<1>7. SessionOK(s)
  BY <1>2 DEF FenceInv
<1>8. /\ Working(s)' = Working(s)
      /\ file'[s] = "whole" => file[s] = "whole" /\ saved'[s] = saved[s]
      /\ file'[s] = "absent" => file[s] = "absent"
      /\ file'[s] \in {"blank", "torn"} => live'[s]
  <2>1. CASE s = r
    BY <1>2, <1>3, <1>4, <2>1 DEF Working
  <2>2. CASE s # r
    BY <1>2, <1>3, <1>4, <1>7, <2>2
    DEF Working, Loaded, NoGraph, SessionOK, FileOK
  <2> QED BY <2>1, <2>2
<1>9. \A m : Backed(s, m) => Backed(s, m)'
  BY <1>8 DEF Backed
<1>10. \A d \in Calls : At(d, {"save", "reply"})' =>
         At(d, {"reply"}) /\ At(d, {"reply"})' /\ call'[d] = call[d]
  BY <1>5, <1>6 DEF At
<1>11. FenceOK(s)' /\ ReplyOK(s)'
  <2>1. \A d \in Calls : At(d, {"reply"})' => At(d, {"reply"}) /\ call'[d] = call[d]
    BY <1>5 DEF At
  <2> QED BY <1>2, <1>7, <1>9, <2>1
          DEF SessionOK, FenceOK, ReplyOK, Behind, Sess, Item
<1>12. SaveOK(s)'
  BY <1>3, <1>5, <1>6 DEF SaveOK, At, Sess
<1>13. FileOK(s)'
  <2>1. \A d \in Calls : At(d, {"save", "reply"})' /\ Sess(d)' = s =>
          At(d, {"save", "reply"}) /\ Sess(d) = s
    BY <1>10 DEF At, Sess
  <2> QED BY <1>2, <1>7, <1>8, <2>1 DEF SessionOK, FileOK
<1> QED BY <1>11, <1>12, <1>13 DEF SessionOK

LEMMA FencePacker ==
  ASSUME TypeInv, FenceInv, NEW c \in Calls, PackerWorks(c)
  PROVE  FenceInv'
BY FencePackerStep, FenceSave, FenceLoads DEF PackerWorks

(* The handles die: a session that stays intact had its graph in graph.json, or *)
(* no handle to lose.                                                           *)
LEMMA DeathKeepsWorking ==
  ASSUME TypeInv, HandlesDie, NEW s \in Sessions, intact'[s], SessionOK(s),
         file'[s] = file[s], saved'[s] = saved[s]
  PROVE  /\ intact[s] /\ ~live'[s] /\ file[s] \in {"absent", "whole"}
         /\ \A m : Backed(s, m) /\ file[s] = "whole" => Backed(s, m)'
         /\ Impl = "sidecar" => Working(s)' = Working(s)
<1>1. intact[s] /\ ~live'[s] /\ ~Harmed(s)
  BY DEF HandlesDie, TypeInv, TypeOK
<1>2. file[s] \in {"absent", "whole"}
  BY <1>1 DEF Harmed, TypeInv, TypeOK
<1>3. Impl = "sidecar" => Working(s)' = Working(s)
  BY <1>1 DEF Harmed, Working, Loaded, NoGraph
<1>4. ASSUME NEW m, Backed(s, m), file[s] = "whole" PROVE Backed(s, m)'
  <2>1. CASE Impl = "sidecar"
    BY <1>3, <1>4, <2>1 DEF Backed
  <2>2. CASE Impl = "ts"
    BY <1>1, <1>4, <2>2 DEF Backed, Working, Loaded
  <2> QED BY <2>1, <2>2, EngineAssumption
<1> QED BY <1>1, <1>2, <1>3, <1>4

LEMMA FenceFails ==
  ASSUME TypeInv, FenceInv, NEW c \in Calls, Fails(c)
  PROVE  FenceInv'
<1>1. ASSUME call' = Finish(c) PROVE NoneArrives
  BY <1>1, MovesAway DEF Finish
<1>2. CASE Reject(c) \/ ErrorAfterEffect(c)
  BY <1>1, <1>2, FenceFrame DEF Reject, ErrorAfterEffect, disk, history
<1>3. CASE StepThrows(c)
  <2>1. PICK r : r = Sess(c)
    OBVIOUS
  <2>2. /\ \A m \in Msgs : Working(r)[m] > 0 => Working(r)'[m] > 0
        /\ live'[r]
        /\ \A s \in Sessions \ {r} : mem'[s] = mem[s] /\ live'[s] = live[s]
    BY <1>3, <2>1, StepGrows DEF StepThrows
  <2>3. NoneArrives /\ PackerFree
    BY <1>1, <1>3 DEF StepThrows
  <2>4. \A d \in Calls : ~At(d, {"save", "flushing"})'
    BY <2>3 DEF NoneArrives, PackerFree, At
  <2>5. \A d \in Calls : At(d, {"save", "reply"})' =>
          At(d, {"reply"}) /\ Sess(d)' = Sess(d) /\ Item(d)' = Item(d)
    BY <2>3, <2>4 DEF NoneArrives, At, Sess, Item
  <2> SUFFICES ASSUME NEW s \in Sessions, intact'[s] PROVE SessionOK(s)'
    BY DEF FenceInv
  <2>6. SessionOK(s) /\ fence' = fence /\ file' = file /\ saved' = saved
    BY <1>3 DEF FenceInv, StepThrows, disk
  <2>7. Grows(s) /\ (live[s] => live'[s])
    BY <2>2, <2>6 DEF Grows, Working, Loaded, NoGraph, TypeInv, TypeOK
  <2>8. \A d \in Calls : At(d, {"reply"}) => Item(d) \in Msgs
    BY ItemTyped DEF At
  <2>9. FenceOK(s)'
    BY <2>6, <2>7, BackedGrows, BehindMsgs DEF SessionOK, FenceOK, Behind
  <2>10. ReplyOK(s)'
    BY <2>5, <2>6, <2>7, <2>8, BackedGrows DEF SessionOK, ReplyOK, At
  <2>11. SaveOK(s)'
    BY <2>4 DEF SaveOK, At
  <2>12. FileOK(s)'
    BY <2>5, <2>6, <2>7 DEF SessionOK, FileOK, At
  <2> QED BY <2>9, <2>10, <2>11, <2>12 DEF SessionOK
<1>4. CASE Timeout(c)
  <2>1. NoneArrives /\ HandlesDie /\ Impl = "sidecar"
    BY <1>1, <1>4 DEF Timeout
  <2>2. fence' = fence /\ mem' = mem /\ file' = file /\ saved' = saved
    BY <1>4 DEF Timeout, disk
  <2> SUFFICES ASSUME NEW s \in Sessions, intact'[s] PROVE SessionOK(s)'
    BY DEF FenceInv
  <2>3. intact[s] /\ ~live'[s] /\ ~Harmed(s)
    BY <2>1 DEF HandlesDie, TypeInv, TypeOK
  <2>4. SessionOK(s) /\ ~live[s]
    BY <2>1, <2>3 DEF FenceInv, Harmed
  <2>5. live[s] = FALSE /\ live'[s] = FALSE
    BY <2>1, <2>3, <2>4 DEF TypeInv, TypeOK, HandlesDie
  <2>6. SameGraphs(s)
    BY <2>2, <2>5 DEF SameGraphs
  <2> QED BY <2>1, <2>4, <2>6, SessionFrame
<1> QED BY <1>2, <1>3, <1>4 DEF Fails

LEMMA FenceRest ==
  ASSUME TypeInv, FenceInv,
         Operator \/ Crash \/ Reload \/ \E s \in Sessions : EvictHandle(s)
  PROVE  FenceInv'
<1>1. ASSUME NEW r \in Sessions, Purge(r) \/ EvictHandle(r) PROVE FenceInv'
  <2>1. /\ intact' = [intact EXCEPT ![r] = FALSE] /\ call' = call
        /\ \A s \in Sessions \ {r} : SameGraphs(s)
    BY <1>1 DEF Purge, EvictHandle, SameGraphs, TypeInv, TypeOK
  <2>2. NoneArrives
    BY <2>1 DEF NoneArrives
  <2>3. \A s \in Sessions : intact'[s] => s # r /\ intact[s]
    BY <2>1 DEF TypeInv, TypeOK
  <2> QED BY <2>1, <2>2, <2>3, SessionFrame DEF FenceInv
<1>2. ASSUME NEW s \in Sessions, NEW b \in Budgets, SwitchProfile(s, b)
      PROVE  FenceInv'
  BY <1>2, FenceFrame DEF SwitchProfile, NoneArrives, disk, history
<1>3. ASSUME Restart PROVE FenceInv'
  <2>1. HandlesDie /\ mem' = mem /\ file' = file /\ saved' = saved
    BY <1>3 DEF Restart, disk
  <2>2. \A d \in Calls : call'[d] = NoCall
    BY <1>3 DEF Restart
  <2> SUFFICES ASSUME NEW s \in Sessions, intact'[s] PROVE SessionOK(s)'
    BY DEF FenceInv
  <2>3. fence'[s] \subseteq fence[s]
    BY <1>3 DEF Restart
  <2>4. intact[s]
    BY <2>1 DEF HandlesDie
  <2>5. SessionOK(s)
    BY <2>4 DEF FenceInv
  <2>6. /\ ~live'[s] /\ file[s] \in {"absent", "whole"}
        /\ \A m : Backed(s, m) /\ file[s] = "whole" => Backed(s, m)'
    BY <2>1, <2>5, DeathKeepsWorking
  <2>7. FenceOK(s)'
    BY <2>3, <2>5, <2>6 DEF SessionOK, FenceOK, FileOK, Behind
  <2>8. ReplyOK(s)' /\ SaveOK(s)'
    BY <2>2 DEF ReplyOK, SaveOK, At
  <2>9. FileOK(s)'
    BY <2>1, <2>2, <2>3, <2>5, <2>6 DEF SessionOK, FileOK, At
  <2> QED BY <2>7, <2>8, <2>9 DEF SessionOK
<1> QED BY <1>1, <1>2, <1>3 DEF Operator, Crash, Reload

LEMMA FenceStep == TypeInv /\ FenceInv /\ [Next]_vars => FenceInv'
<1> SUFFICES ASSUME TypeInv, FenceInv, [Next]_vars PROVE FenceInv'
  OBVIOUS
<1>1. CASE UNCHANGED vars
  BY <1>1, FenceFrame DEF vars, NoneArrives
<1>2. CASE Next
  BY <1>2, FenceHost, FenceResume, FencePacker, FenceFails, FenceRest
  DEF Next, Proceed
<1> QED BY <1>1, <1>2

LEMMA FenceAlways == Spec => []FenceInv
BY FenceInit, FenceStep, Typed, PTL DEF Spec

(* Every ingest fence row is backed by a message in the packer's graph and in    *)
(* graph.json, for any number of overlapping calls and every fault, until a     *)
(* purge or a restart over a graph that was not kept (ingest.ts, meta-store.ts, *)
(* handle.ts).                                                                  *)
THEOREM FenceRowsBacked == Spec => []FenceBacked
<1>1. FenceInv => FenceBacked
  BY DEF FenceInv, SessionOK, FenceOK, FenceBacked
<1> QED BY <1>1, FenceAlways, PTL

-----------------------------------------------------------------------------
(* With awaited calls the host ingests every message it names once, a          *)
(* remembered pack is not older than the fence, every prompt is made of a      *)
(* graph that held its messages, a recovery recovers, and no compaction goes   *)
(* through without a checkpoint.                                               *)
Named(m) == <<"id", HostId[m]>>

(* At most one call of a session is in the ingest loop: the operator's flush,  *)
(* which waits for nobody, never is.                                           *)
Loop == {"ingest", "step", "save", "reply"}
Alone ==
  /\ \A c \in Calls : At(c, Loop) => call[c].op # "flush"
  /\ \A c, d \in Calls :
       /\ call[c] # NoCall /\ call[c].op # "flush"
       /\ call[d] # NoCall /\ call[d].op # "flush"
       /\ call[c].s = call[d].s
       => c = d

LEMMA OneInLoop ==
  ASSUME Alone, NEW c \in Calls, NEW d \in Calls, At(c, Loop), At(d, Loop),
         Sess(c) = Sess(d)
  PROVE  c = d
BY DEF Alone, At, Sess

(* Calls end, or go on with the same operation; only Begin brings one to the   *)
(* loop.                                                                       *)
Keeps ==
  \A d \in Calls : call'[d] # NoCall =>
    /\ call[d] # NoCall /\ call'[d].s = call[d].s /\ call'[d].op = call[d].op
    /\ call'[d].pc \in Loop => call[d].pc \in Loop

LEMMA AloneKept == ASSUME Alone, Keeps PROVE Alone'
BY DEF Alone, Keeps, At

LEMMA ProceedKeeps ==
  ASSUME TypeInv, NEW c \in Calls, Resume(c) \/ PackerWorks(c) \/ Fails(c)
  PROVE  Keeps
<1>1. call[c] # NoCall
  BY DEF Resume, PackerWorks, Fails, SkipItem, SendStep, MarkIngested, BatchReturns,
     CachedPack, SendSample, RememberPack, TakePrompt, FlushReturns,
     SnapshotAndSample, RewriteTranscript, CompactThrows, CompactReturns,
     PackerStep, SaveGraph, PackerSample, PackerFlush, Reject, StepThrows,
     ErrorAfterEffect, Timeout, HasItem, AtLookup, At
<1>2. call[c] \in CallState
  BY <1>1, CallTyped
<1>3. ASSUME call' = Finish(c) PROVE Keeps
  BY <1>3 DEF Finish, Keeps, TypeInv, TypeOK
<1>4. ASSUME NEW k, call' = [call EXCEPT ![c] = k],
             k.s = call[c].s, k.op = call[c].op,
             k.pc \in Loop => call[c].pc \in Loop
      PROVE  Keeps
  BY <1>1, <1>4 DEF Keeps, TypeInv, TypeOK
<1>5. ASSUME NEW pc \in PCs, call' = Goto(c, pc),
             pc \in Loop => call[c].pc \in Loop
      PROVE  Keeps
  BY <1>2, <1>4, <1>5 DEF Goto, CallState
<1>6. CASE SkipItem(c)
  BY <1>2, <1>4, <1>6 DEF SkipItem, CallState, HasItem, At
<1>7. CASE MarkIngested(c)
  <2> DEFINE k == [call[c] EXCEPT !.pc = "ingest", !.next = @ + 1]
  <2>1. call' = [call EXCEPT ![c] = k] /\ call[c].pc \in Loop
    BY <1>7 DEF MarkIngested, At, Loop
  <2>2. k.s = call[c].s /\ k.op = call[c].op
    BY <1>2 DEF CallState
  <2> HIDE DEF k
  <2> QED BY <1>4, <2>1, <2>2
<1>8. CASE SendStep(c) \/ RememberPack(c) \/ RewriteTranscript(c)
  BY <1>5, <1>8
  DEF SendStep, RememberPack, RewriteTranscript, HasItem, At, PCs, Loop
<1>9. CASE \/ BatchReturns(c) \/ TakePrompt(c) \/ FlushReturns(c)
           \/ CompactThrows(c) \/ CompactReturns(c)
           \/ Reject(c) \/ StepThrows(c) \/ ErrorAfterEffect(c) \/ Timeout(c)
  BY <1>3, <1>9 DEF BatchReturns, TakePrompt, FlushReturns, CompactThrows,
     CompactReturns, Reject, StepThrows, ErrorAfterEffect, Timeout
<1>10. CASE CachedPack(c)
  <2> DEFINE k == [call[c] EXCEPT !.pc = "returned", !.pack = cache[Sess(c)].pack,
                                  !.limit = MinOf(forward, @)]
  <2>1. call' = [call EXCEPT ![c] = k]
    BY <1>10 DEF CachedPack
  <2>2. k.s = call[c].s /\ k.op = call[c].op /\ k.pc \notin Loop
    BY <1>2 DEF CallState, Loop
  <2> HIDE DEF k
  <2> QED BY <1>4, <2>1, <2>2
<1>11. CASE SendSample(c)
  BY <1>2, <1>4, <1>11 DEF SendSample, CallState, Loop
<1>12. CASE SnapshotAndSample(c)
  BY <1>2, <1>4, <1>12 DEF SnapshotAndSample, CallState, Loop
<1>13. CASE PackerSample(c)
  <2>1. PICK pack : call' = [call EXCEPT ![c].pc = "sampled", ![c].pack = pack]
    BY <1>13 DEF PackerSample
  <2> DEFINE k == [call[c] EXCEPT !.pc = "sampled", !.pack = pack]
  <2>2. call' = [call EXCEPT ![c] = k]
    BY <2>1
  <2>3. k.s = call[c].s /\ k.op = call[c].op /\ k.pc \notin Loop
    BY <1>2 DEF CallState, Loop
  <2> HIDE DEF k
  <2> QED BY <1>4, <2>2, <2>3
<1>14. CASE PackerStep(c) \/ PackerFlush(c)
            \/ SaveGraph(c, "save", "reply") \/ SaveGraph(c, "flushing", "flushed")
  BY <1>5, <1>14 DEF PackerStep, PackerFlush, SaveGraph, At, PCs, Loop
<1> QED BY <1>6, <1>7, <1>8, <1>9, <1>10, <1>11, <1>12, <1>13, <1>14
        DEF Resume, PackerWorks, Fails

LEMMA AloneHost ==
  ASSUME TypeInv, Serial, Alone, Host
  PROVE  Alone'
<1>1. ASSUME NEW c \in Calls, NEW s, NEW op, NEW pc, NEW first, NEW last, NEW q,
             NEW b, Begin(c, s, op, pc, first, last, q, b),
             pc = "flush" \/ op # "flush"
      PROVE  Alone'
  <2> DEFINE k == [pc |-> pc, op |-> op, s |-> s, next |-> first, last |-> last,
                   base |-> first, query |-> q, limit |-> b, pack |-> EmptyPack]
  <2>1. call' = [call EXCEPT ![c] = k] /\ k.pc = pc /\ k.op = op /\ k.s = s
    BY <1>1 DEF Begin
  <2> HIDE DEF k
  <2>2. /\ call'[c] = k /\ call[c] = NoCall
        /\ \A d \in Calls \ {c} : call'[d] = call[d]
    BY <1>1, <2>1 DEF Begin, TypeInv, TypeOK
  <2>3. op # "flush" => \A d \in Calls : call[d] # NoCall /\ call[d].s = s
                                           => call[d].op = "flush"
    BY <1>1 DEF Begin, Active
  <2>4. \A d \in Calls : At(d, Loop)' => call'[d].op # "flush"
    BY <1>1, <2>1, <2>2 DEF Alone, At, Loop
  <2> QED BY <2>1, <2>2, <2>3, <2>4 DEF Alone
<1>2. ASSUME NEW s \in Sessions, HostLogs(s) \/ HostTrims(s) PROVE Alone'
  BY <1>2 DEF HostLogs, HostTrims, Alone, At
<1> QED
  BY <1>1, <1>2
  DEF Host, Ingest, IngestBatch, Assemble, Bootstrap, Compact, ForceFlush

LEMMA AloneStep == TypeInv /\ Serial /\ Alone /\ [Next]_vars => Alone'
<1> SUFFICES ASSUME TypeInv, Serial, Alone, [Next]_vars PROVE Alone'
  OBVIOUS
<1>1. ASSUME call' = call \/ call' = [c \in Calls |-> NoCall] PROVE Alone'
  BY <1>1 DEF Alone, At
<1>2. CASE UNCHANGED vars
  BY <1>1, <1>2 DEF vars
<1>3. CASE Operator \/ Crash \/ Reload \/ \E s \in Sessions : EvictHandle(s)
  BY <1>1, <1>3
  DEF Operator, Purge, SwitchProfile, Crash, Reload, Restart, EvictHandle
<1>4. CASE Host
  BY <1>4, AloneHost
<1>5. ASSUME NEW c \in Calls, Proceed(c) PROVE Alone'
  BY <1>5, ProceedKeeps, AloneKept DEF Proceed
<1> QED BY <1>2, <1>3, <1>4, <1>5 DEF Next

-----------------------------------------------------------------------------
(* IngestOnce.  By itself it is not inductive: a message in a graph must also   *)
(* be fenced, or on its way to the fence, so that no later batch steps it       *)
(* again; and a step about to be applied must be of a message not yet fenced.   *)
CountOK(s) == \A m \in Msgs \ unsure[s] :
                Working(s)[m] <= 1 /\ (file[s] = "whole" => saved[s][m] <= 1)
InAGraph(s, m) == Working(s)[m] > 0 \/ (file[s] = "whole" /\ saved[s][m] > 0)
OnItsWay(s, m) ==
  \E c \in Calls : At(c, {"save", "reply"}) /\ Sess(c) = s /\ Item(c) = m
KnownOK(s) == \A m \in Msgs \ unsure[s] :
                InAGraph(s, m) => Named(m) \in fence[s] \/ OnItsWay(s, m)
FreshOK(s) == \A c \in Calls :
                At(c, {"step"}) /\ Sess(c) = s => Named(Item(c)) \notin fence[s]
OnceOK(s) == meta[s] # "unlinked" /\ CountOK(s) /\ KnownOK(s) /\ FreshOK(s)
OnceInv == \A s \in Sessions : intact[s] => OnceOK(s)

LEMMA KeyNamed ==
  ASSUME TypeInv, HostNames, NEW c \in Calls, At(c, {"step", "save", "reply"})
  PROVE  ItemKey(c) = Named(Item(c))
BY ItemTyped DEF HostNames, ItemKey, Item, Key, Named

LEMMA OnceInit == Init => OnceInv /\ Alone
BY DEF Init, OnceInv, OnceOK, CountOK, KnownOK, FreshOK, InAGraph, Working, Loaded,
   NoGraph, At, Alone

(* A step that adds nothing to a session's graphs and takes nothing from its    *)
(* fence, and after which whoever was about to fence a message still is, or the *)
(* message is unsure.                                                           *)
SameWork(s) ==
  /\ \A m \in Msgs \ unsure'[s] :
       \/ Working(s)'[m] \in {0, Working(s)[m]}
       \/ file[s] = "whole" /\ Working(s)'[m] = saved[s][m]
  /\ file'[s] = "whole" => \/ saved'[s] = Working(s)
                           \/ file[s] = "whole" /\ saved'[s] = saved[s]
  /\ fence'[s] = fence[s] /\ unsure[s] \subseteq unsure'[s] /\ meta'[s] # "unlinked"
SameWay(s) ==
  /\ \A d \in Calls : At(d, {"save", "reply"}) /\ Sess(d) = s =>
       \/ At(d, {"save", "reply"})' /\ Sess(d)' = s /\ Item(d)' = Item(d)
       \/ Item(d) \in unsure'[s]
  /\ \A d \in Calls : At(d, {"step"})' /\ Sess(d)' = s =>
       Named(Item(d))' \notin fence[s]

LEMMA OnceFrame ==
  ASSUME TypeInv, NEW s \in Sessions, OnceOK(s), SameWork(s), SameWay(s)
  PROVE  OnceOK(s)'
<1>1. CountOK(s)'
  BY DEF OnceOK, CountOK, SameWork
<1>2. \A m \in Msgs \ unsure'[s] : InAGraph(s, m)' => InAGraph(s, m)
  BY DEF InAGraph, SameWork
<1>3. \A m \in Msgs \ unsure'[s] : OnItsWay(s, m) => OnItsWay(s, m)'
  BY DEF OnItsWay, SameWay
<1>4. \A m : Named(m)' = Named(m)
  BY DEF Named
<1>5. KnownOK(s)'
  BY <1>2, <1>3, <1>4 DEF OnceOK, KnownOK, SameWork
<1>6. FreshOK(s)'
  BY DEF FreshOK, SameWay, SameWork
<1> QED BY <1>1, <1>5, <1>6 DEF OnceOK, SameWork

(* Every graph stays, and at most call c moves, to no step and from no save.    *)
LEMMA QuietMove ==
  ASSUME TypeInv, OnceInv, NEW c \in Calls,
         ~At(c, {"save", "reply"}), ~At(c, {"step"})',
         \A d \in Calls \ {c} : call'[d] = call[d],
         NEW s \in Sessions, intact[s], SameWork(s)
  PROVE  OnceOK(s)'
<1>1. SameWay(s)
  <2>1. OnceOK(s)
    BY DEF OnceInv
  <2> QED BY <2>1 DEF SameWay, OnceOK, FreshOK, At, Sess, Item, Named
<1> QED BY <1>1, OnceFrame DEF OnceInv

LEMMA SameGraphsWork ==
  ASSUME TypeInv, NEW s \in Sessions, SameGraphs(s), unsure' = unsure,
         meta'[s] # "unlinked"
  PROVE  SameWork(s)
BY DEF SameGraphs, SameWork, Working, Loaded, NoGraph

LEMMA OnceQuiet ==
  ASSUME TypeInv, OnceInv, NEW c \in Calls,
         ~At(c, {"save", "reply"}), ~At(c, {"step"})',
         \A d \in Calls \ {c} : call'[d] = call[d],
         UNCHANGED <<fence, live, mem, file, saved, intact, unsure>>,
         \A s \in Sessions : meta'[s] = "unlinked" => meta[s] = "unlinked"
  PROVE  OnceInv'
<1> SUFFICES ASSUME NEW s \in Sessions, intact'[s] PROVE OnceOK(s)'
  BY DEF OnceInv
<1>1. SameGraphs(s) /\ meta'[s] # "unlinked"
  BY DEF SameGraphs, OnceInv, OnceOK
<1>2. SameWork(s)
  BY <1>1, SameGraphsWork
<1> QED BY <1>2, QuietMove

LEMMA OnceHost ==
  ASSUME TypeInv, OnceInv, Host
  PROVE  OnceInv'
<1>1. ASSUME NEW c \in Calls, NEW s, NEW op, NEW first, NEW last, NEW q, NEW b,
             NEW pc \in {"ingest", "flush"},
             Begin(c, s, op, pc, first, last, q, b)
      PROVE  OnceInv'
  <2> DEFINE k == [pc |-> pc, op |-> op, s |-> s, next |-> first, last |-> last,
                   base |-> first, query |-> q, limit |-> b, pack |-> EmptyPack]
  <2>1. call' = [call EXCEPT ![c] = k] /\ k.pc = pc /\ call[c] = NoCall
    BY <1>1 DEF Begin
  <2> HIDE DEF k
  <2>2. /\ ~At(c, {"save", "reply"}) /\ ~At(c, {"step"})'
        /\ \A d \in Calls \ {c} : call'[d] = call[d]
    BY <2>1 DEF At, TypeInv, TypeOK
  <2>3. /\ UNCHANGED <<fence, live, mem, file, saved, intact, unsure>>
        /\ \A r \in Sessions : meta'[r] = "unlinked" => meta[r] = "unlinked"
    BY <1>1 DEF Begin, disk, history, TypeInv, TypeOK
  <2> QED BY <2>2, <2>3, OnceQuiet
<1>2. ASSUME NEW s \in Sessions, HostLogs(s) \/ HostTrims(s) PROVE OnceInv'
  <2>1. UNCHANGED <<call, fence, meta, live, mem, file, saved, intact, unsure>>
    BY <1>2 DEF HostLogs, HostTrims, disk, history
  <2> SUFFICES ASSUME NEW r \in Sessions, intact'[r] PROVE OnceOK(r)'
    BY DEF OnceInv
  <2>2. OnceOK(r)
    BY <2>1 DEF OnceInv
  <2>3. SameWork(r)
    BY <2>1, <2>2, SameGraphsWork DEF SameGraphs, OnceOK
  <2>4. SameWay(r)
    BY <2>1, <2>2 DEF SameWay, OnceOK, FreshOK, At, Sess, Item, Named
  <2> QED BY <2>2, <2>3, <2>4, OnceFrame
<1> QED
  BY <1>1, <1>2
  DEF Host, Ingest, IngestBatch, Assemble, Bootstrap, Compact, ForceFlush

(* The message just fenced was on its way; nobody else of the session is about   *)
(* to step it.                                                                  *)
LEMMA OnceMark ==
  ASSUME TypeInv, HostNames, Alone, OnceInv, NEW c \in Calls, MarkIngested(c)
  PROVE  OnceInv'
<1>0. PICK r : r = Sess(c)
  OBVIOUS
<1>1. /\ call[c] \in CallState /\ r \in Sessions /\ At(c, {"reply"})
      /\ ItemKey(c) = Named(Item(c))
  BY <1>0, CallTyped, KeyNamed DEF MarkIngested, At, Sess
<1>2. /\ call'[c].pc = "ingest"
      /\ \A d \in Calls \ {c} : call'[d] = call[d]
  <2> DEFINE k == [call[c] EXCEPT !.pc = "ingest", !.next = @ + 1]
  <2>1. call' = [call EXCEPT ![c] = k]
    BY DEF MarkIngested
  <2>2. k.pc = "ingest"
    BY <1>1 DEF CallState
  <2> HIDE DEF k
  <2> QED BY <2>1, <2>2 DEF TypeInv, TypeOK
<1>3. UNCHANGED <<meta, live, mem, file, saved, intact, unsure>>
  BY DEF MarkIngested, disk, history
<1>4. /\ fence'[r] = fence[r] \cup {Named(Item(c))}
      /\ \A s \in Sessions \ {r} : fence'[s] = fence[s]
  BY <1>0, <1>1 DEF MarkIngested, TypeInv, TypeOK
<1> SUFFICES ASSUME NEW s \in Sessions, intact'[s] PROVE OnceOK(s)'
  BY DEF OnceInv
<1>5. OnceOK(s)
  BY <1>3 DEF OnceInv
<1>6. \A d \in Calls : \A pcs \in SUBSET {"step", "save", "reply"} :
        At(d, pcs)' => d # c /\ At(d, pcs) /\ call'[d] = call[d]
  BY <1>2 DEF At
<1>7. CASE s # r
  <2>1. SameGraphs(s)
    BY <1>3, <1>4, <1>7 DEF SameGraphs
  <2>2. SameWork(s)
    BY <1>3, <1>5, <2>1, SameGraphsWork DEF OnceOK
  <2>3. SameWay(s)
    BY <1>0, <1>2, <1>5, <1>6, <1>7
    DEF SameWay, OnceOK, FreshOK, At, Sess, Item, Named
  <2> QED BY <1>5, <2>2, <2>3, OnceFrame
<1>8. CASE s = r
  <2>1. \A d \in Calls \ {c} : At(d, Loop) => Sess(d) # r
    BY <1>0, <1>1, OneInLoop DEF At, Loop
  <2>2. FreshOK(s)'
    BY <1>6, <1>8, <2>1 DEF FreshOK, At, Sess, Loop
  <2>3. Working(s)' = Working(s)
    BY <1>3 DEF Working, Loaded, NoGraph
  <2>4. CountOK(s)' /\ (\A m : InAGraph(s, m)' <=> InAGraph(s, m))
    BY <1>3, <1>5, <2>3 DEF OnceOK, CountOK, InAGraph
  <2>5. \A m : OnItsWay(s, m) => m = Item(c)
    BY <1>8, <2>1 DEF OnItsWay, At, Loop
  <2>6. \A m : Named(m)' = Named(m)
    BY DEF Named
  <2>7. KnownOK(s)'
    BY <1>3, <1>4, <1>5, <1>8, <2>4, <2>5, <2>6 DEF OnceOK, KnownOK
  <2> QED BY <1>3, <1>5, <2>2, <2>4, <2>7 DEF OnceOK
<1> QED BY <1>7, <1>8

LEMMA OnceResume ==
  ASSUME TypeInv, HostNames, Alone, OnceInv, NEW c \in Calls, Resume(c)
  PROVE  OnceInv'
<1>1. CASE MarkIngested(c)
  BY <1>1, OnceMark
<1>2. ASSUME ~MarkIngested(c)
      PROVE  /\ UNCHANGED <<fence, live, mem, file, saved, intact, unsure, meta>>
             /\ call[c] \in CallState
             /\ \A d \in Calls \ {c} : call'[d] = call[d]
             /\ ~At(c, {"step", "save", "reply"})
  <2>1. UNCHANGED <<fence, live, mem, file, saved, intact, unsure, meta>>
    BY <1>2 DEF Resume, SkipItem, SendStep, BatchReturns, CachedPack, SendSample,
       RememberPack, TakePrompt, FlushReturns, SnapshotAndSample,
       RewriteTranscript, CompactThrows, CompactReturns, disk, history
  <2>2. call[c] # NoCall /\ ~At(c, {"step", "save", "reply"})
    BY <1>2 DEF Resume, SkipItem, SendStep, BatchReturns, CachedPack, SendSample,
       RememberPack, TakePrompt, FlushReturns, SnapshotAndSample,
       RewriteTranscript, CompactThrows, CompactReturns, HasItem, AtLookup, At
  <2>3. \A d \in Calls : d # c => call'[d] = call[d]
    BY <1>2 DEF Resume, SkipItem, SendStep, BatchReturns, CachedPack, SendSample,
       RememberPack, TakePrompt, FlushReturns, SnapshotAndSample, Finish, Goto,
       RewriteTranscript, CompactThrows, CompactReturns, TypeInv, TypeOK
  <2> QED BY <2>1, <2>2, <2>3, CallTyped
<1>3. CASE SendStep(c)
  <2>1. ~MarkIngested(c)
    BY <1>3 DEF SendStep, HasItem, MarkIngested, At
  <2>2. /\ call'[c] = [call[c] EXCEPT !.pc = "step"]
        /\ ItemKey(c) \notin fence[Sess(c)]
    BY <1>3 DEF SendStep, Goto, TypeInv, TypeOK
  <2>3. call'[c].s = Sess(c) /\ call'[c].next = Item(c)
    BY <1>2, <2>1, <2>2 DEF CallState, Sess, Item
  <2>4. ItemKey(c) = Named(Item(c))
    <3>1. call[c].next \in Msgs
      <4>1. HasItem(c) /\ Bounded(call[c]) /\ call[c] \in CallState
        BY <1>2, <1>3, <2>1, CallTyped DEF SendStep, HasItem, At
      <4> QED BY <4>1, EngineAssumption
              DEF HasItem, Bounded, CallState, Msgs
    <3> QED BY <3>1 DEF HostNames, ItemKey, Item, Key, Named
  <2> SUFFICES ASSUME NEW s \in Sessions, intact'[s] PROVE OnceOK(s)'
    BY DEF OnceInv
  <2>5. OnceOK(s)
    BY <1>2, <2>1 DEF OnceInv
  <2>6. SameWork(s)
    BY <1>2, <2>1, <2>5, SameGraphsWork DEF OnceOK, SameGraphs
  <2>7. SameWay(s)
    <3>1. /\ \A d \in Calls \ {c} : At(d, {"step"})' => At(d, {"step"})
          /\ \A d \in Calls : At(d, {"save", "reply"}) => d # c /\ call'[d] = call[d]
      BY <1>2, <2>1 DEF At
    <3>2. Sess(c)' = s => Named(Item(c))' \notin fence[s]
      BY <2>2, <2>3, <2>4 DEF Sess, Item, Named
    <3> QED BY <1>2, <2>1, <2>5, <3>1, <3>2
            DEF SameWay, OnceOK, FreshOK, At, Sess, Item, Named
  <2> QED BY <2>5, <2>6, <2>7, OnceFrame
<1>4. CASE ~MarkIngested(c) /\ ~SendStep(c)
  <2>1. ~At(c, {"step"})'
    <3>1. call[c] \in CallState
      BY <1>2, <1>4
    <3>2. CASE SkipItem(c)
      BY <3>1, <3>2 DEF SkipItem, HasItem, At, TypeInv, TypeOK, CallState
    <3>3. CASE RememberPack(c) \/ RewriteTranscript(c)
      BY <3>3, <3>1 DEF RememberPack, RewriteTranscript, Goto, At, TypeInv,
         TypeOK, CallState
    <3>4. CASE BatchReturns(c) \/ TakePrompt(c) \/ FlushReturns(c)
               \/ CompactThrows(c) \/ CompactReturns(c)
      BY <3>4 DEF BatchReturns, TakePrompt, FlushReturns, CompactThrows,
         CompactReturns, Finish, At, TypeInv, TypeOK
    <3>5. CASE CachedPack(c) \/ SendSample(c) \/ SnapshotAndSample(c)
      BY <3>5, <3>1 DEF CachedPack, SendSample, SnapshotAndSample, At, TypeInv,
         TypeOK, CallState
    <3> QED BY <1>4, <3>2, <3>3, <3>4, <3>5 DEF Resume
  <2> QED BY <1>2, <1>4, <2>1, OnceQuiet DEF At
<1> QED BY <1>1, <1>3, <1>4

-----------------------------------------------------------------------------
(* The packer. *)

(* Only an unfenced message is stepped, and none of its session is on its way: *)
(* it is in no graph yet.                                                      *)
LEMMA OnceFresh ==
  ASSUME TypeInv, Alone, NEW c \in Calls, At(c, {"step"}), OnceOK(Sess(c)),
         Item(c) \notin unsure[Sess(c)]
  PROVE  Working(Sess(c))[Item(c)] = 0
<1>1. Item(c) \in Msgs /\ Sess(c) \in Sessions
  BY ItemTyped, CallTyped DEF At, Sess, CallState
<1>2. ~OnItsWay(Sess(c), Item(c))
  <2> SUFFICES ASSUME NEW d \in Calls, At(d, {"save", "reply"}), Sess(d) = Sess(c)
               PROVE  FALSE
    BY DEF OnItsWay
  <2>1. c = d
    BY OneInLoop DEF At, Loop
  <2> QED BY <2>1 DEF At
<1>3. ~InAGraph(Sess(c), Item(c))
  BY <1>1, <1>2 DEF OnceOK, KnownOK, FreshOK
<1>4. Working(Sess(c)) \in Graph
  BY <1>1, WorkingTyped
<1> QED BY <1>1, <1>3, <1>4 DEF InAGraph, Graph

LEMMA OncePackerStep ==
  ASSUME TypeInv, HostNames, Alone, OnceInv, NEW c \in Calls, PackerStep(c)
  PROVE  OnceInv'
<1>0. PICK r : r = Sess(c)
  OBVIOUS
<1>1. /\ r \in Sessions /\ At(c, {"step"}) /\ Item(c) \in Msgs
      /\ call[c] \in CallState
  BY <1>0, CallTyped, ItemTyped DEF PackerStep, At, Sess, CallState
<1>2. /\ call'[c] = [call[c] EXCEPT !.pc = "save"]
      /\ \A d \in Calls \ {c} : call'[d] = call[d]
  BY <1>1 DEF PackerStep, Goto, TypeInv, TypeOK
<1>3. At(c, {"save"})' /\ Sess(c)' = r /\ Item(c)' = Item(c)
  <2>1. call'[c].pc = "save" /\ call'[c].s = call[c].s /\ call'[c].next = call[c].next
    BY <1>1, <1>2 DEF CallState
  <2>2. call'[c] \in CallState
    BY <1>1, <1>2 DEF CallState, PCs
  <2> QED BY <1>0, <2>1, <2>2, NoCallAssumption DEF At, Sess, Item
<1>4. /\ UNCHANGED <<fence, meta, saved, intact, unsure>>
      /\ live'[r] = TRUE /\ file'[r] # "whole"
      /\ mem'[r] = [Working(r) EXCEPT ![Item(c)] = @ + 1]
  BY <1>0, <1>1 DEF PackerStep, Stepped, TypeInv, TypeOK
<1>5. \A s \in Sessions \ {r} : SameGraphs(s)
  BY <1>0, <1>1 DEF PackerStep, Stepped, SameGraphs, TypeInv, TypeOK
<1> SUFFICES ASSUME NEW s \in Sessions, intact'[s] PROVE OnceOK(s)'
  BY DEF OnceInv
<1>6. OnceOK(s)
  BY <1>4 DEF OnceInv
<1>7. CASE s # r
  <2>1. SameWork(s)
    BY <1>4, <1>5, <1>6, <1>7, SameGraphsWork DEF OnceOK
  <2>2. SameWay(s)
    BY <1>0, <1>1, <1>2, <1>3, <1>6, <1>7
    DEF SameWay, OnceOK, FreshOK, At, Sess, Item, Named
  <2> QED BY <1>6, <2>1, <2>2, OnceFrame
<1>8. CASE s = r
  <2>1. Working(s) \in Graph /\ Working(s)' = mem'[r]
    BY <1>4, <1>8, WorkingTyped DEF Working
  <2>2. /\ Item(c) \notin unsure[s] => Working(s)'[Item(c)] = 1
        /\ \A m \in Msgs \ {Item(c)} : Working(s)'[m] = Working(s)[m]
    BY <1>0, <1>1, <1>4, <1>6, <1>8, <2>1, OnceFresh DEF Graph
  <2>3. CountOK(s)'
    <3> SUFFICES ASSUME NEW m \in Msgs \ unsure[s] PROVE Working(s)'[m] <= 1
      BY <1>4, <1>8 DEF CountOK
    <3>1. CASE m = Item(c)
      BY <2>2, <3>1
    <3>2. CASE m # Item(c)
      BY <1>6, <2>2, <3>2 DEF OnceOK, CountOK
    <3> QED BY <3>1, <3>2
  <2>4. \A m : m = Item(c) => OnItsWay(s, m)'
    BY <1>3, <1>8 DEF OnItsWay, At
  <2>5. \A m : OnItsWay(s, m) => OnItsWay(s, m)'
    <3> SUFFICES ASSUME NEW m, NEW d \in Calls, At(d, {"save", "reply"}),
                        Sess(d) = s, Item(d) = m
                 PROVE  OnItsWay(s, m)'
      BY DEF OnItsWay
    <3>1. d # c
      BY <1>1 DEF At
    <3> QED BY <1>2, <3>1 DEF OnItsWay, At, Sess, Item
  <2>6. KnownOK(s)'
    <3> SUFFICES ASSUME NEW m \in Msgs \ unsure[s], Working(s)'[m] > 0
                 PROVE  Named(m) \in fence[s] \/ OnItsWay(s, m)'
      BY <1>4, <1>8 DEF KnownOK, InAGraph, Named
    <3>1. CASE m = Item(c)
      BY <2>4, <3>1
    <3>2. CASE m # Item(c)
      <4>1. InAGraph(s, m)
        BY <2>2, <3>2 DEF InAGraph
      <4> QED BY <1>6, <2>5, <4>1 DEF OnceOK, KnownOK
    <3> QED BY <3>1, <3>2
  <2>7. FreshOK(s)'
    BY <1>2, <1>3, <1>4, <1>6 DEF OnceOK, FreshOK, At, Sess, Item, Named
  <2> QED BY <1>4, <1>6, <2>3, <2>6, <2>7 DEF OnceOK
<1> QED BY <1>7, <1>8

(* A write that ends copies the handle's graph to the file. *)
LEMMA OnceSave ==
  ASSUME TypeInv, FenceInv, OnceInv, NEW c \in Calls,
         \/ SaveGraph(c, "save", "reply") \/ SaveGraph(c, "flushing", "flushed")
  PROVE  OnceInv'
<1>0. PICK r : r = Sess(c)
  OBVIOUS
<1>1. r \in Sessions /\ At(c, {"save", "flushing"}) /\ call[c] \in CallState
  BY <1>0, CallTyped DEF SaveGraph, At, Sess, CallState
<1>2. /\ \A d \in Calls \ {c} : call'[d] = call[d]
      /\ At(c, {"save"}) => call'[c] = [call[c] EXCEPT !.pc = "reply"]
      /\ At(c, {"flushing"}) => call'[c] = [call[c] EXCEPT !.pc = "flushed"]
  BY <1>1 DEF SaveGraph, Goto, At, TypeInv, TypeOK
<1>3. /\ UNCHANGED <<fence, meta, live, mem, intact, unsure>>
      /\ \/ UNCHANGED <<file, saved>>
         \/ /\ saved'[r] = mem[r] /\ file[r] # "absent"
            /\ \A s \in Sessions \ {r} : saved'[s] = saved[s] /\ file'[s] = file[s]
  BY <1>0, <1>1 DEF SaveGraph, history, TypeInv, TypeOK
<1> SUFFICES ASSUME NEW s \in Sessions, intact'[s] PROVE OnceOK(s)'
  BY DEF OnceInv
<1>4. OnceOK(s) /\ SessionOK(s)
  BY <1>3 DEF OnceInv, FenceInv
<1>5. SameWay(s)
  <2>1. /\ At(c, {"save"}) =>
             At(c, {"reply"})' /\ Sess(c)' = Sess(c) /\ Item(c)' = Item(c)
        /\ ~At(c, {"reply", "step"}) /\ ~At(c, {"step"})'
    <3>1. CASE At(c, {"save"})
      <4>1. call'[c].pc = "reply" /\ call'[c].s = call[c].s
            /\ call'[c].next = call[c].next
        BY <1>1, <1>2, <3>1 DEF CallState
      <4>2. call'[c] \in CallState
        BY <1>1, <1>2, <3>1 DEF CallState, PCs
      <4> QED BY <3>1, <4>1, <4>2, NoCallAssumption DEF At, Sess, Item
    <3>2. CASE At(c, {"flushing"})
      BY <1>1, <1>2, <3>2 DEF At, CallState
    <3> QED BY <1>1, <3>1, <3>2 DEF At
  <2> QED BY <1>2, <1>4, <2>1 DEF SameWay, OnceOK, FreshOK, At, Sess, Item, Named
<1>6. SameWork(s)
  <2>1. CASE UNCHANGED <<file, saved>> \/ s # r
    BY <1>3, <1>4, <2>1, SameGraphsWork DEF SameGraphs, OnceOK
  <2>2. CASE s = r /\ saved'[r] = mem[r]
    <3>1. live[s] /\ Working(s) = mem[s] /\ Working(s)' = mem[s]
      BY <1>0, <1>1, <1>3, <1>4, <2>2 DEF SessionOK, SaveOK, Working
    <3>2. saved'[s] = Working(s) /\ \A m \in Msgs : Working(s)'[m] = Working(s)[m]
      BY <2>2, <3>1
    <3>3. fence'[s] = fence[s] /\ unsure'[s] = unsure[s] /\ meta'[s] # "unlinked"
      BY <1>3, <1>4 DEF OnceOK
    <3> QED BY <3>2, <3>3 DEF SameWork
  <2> QED BY <1>3, <2>1, <2>2
<1> QED BY <1>4, <1>5, <1>6, OnceFrame

(* A sample or a flush makes the handle; its graph is the one Working had.     *)
LEMMA OnceLoads ==
  ASSUME TypeInv, OnceInv, NEW c \in Calls, PackerSample(c) \/ PackerFlush(c)
  PROVE  OnceInv'
<1>0. PICK r : r = Sess(c)
  OBVIOUS
<1>1. r \in Sessions /\ At(c, {"sample", "flush"}) /\ call[c] \in CallState
  BY <1>0, CallTyped DEF PackerSample, PackerFlush, At, Sess, CallState
<1>2. ~At(c, {"step"})' /\ \A d \in Calls \ {c} : call'[d] = call[d]
  <2>1. CASE PackerSample(c)
    <3>1. PICK pack : call' = [call EXCEPT ![c].pc = "sampled", ![c].pack = pack]
      BY <2>1 DEF PackerSample
    <3> QED BY <1>1, <3>1 DEF At, CallState, TypeInv, TypeOK
  <2>2. CASE PackerFlush(c)
    BY <1>1, <2>2 DEF PackerFlush, Goto, At, CallState, TypeInv, TypeOK
  <2> QED BY <2>1, <2>2
<1>3. /\ UNCHANGED <<fence, meta, saved, intact, unsure>>
      /\ live'[r] = TRUE /\ mem'[r] = Working(r)
      /\ file'[r] = file[r] \/ file'[r] # "whole"
      /\ \A s \in Sessions \ {r} :
           live'[s] = live[s] /\ mem'[s] = mem[s] /\ file'[s] = file[s]
  BY <1>0, <1>1 DEF PackerSample, PackerFlush, history, TypeInv, TypeOK
<1> SUFFICES ASSUME NEW s \in Sessions, intact'[s] PROVE OnceOK(s)'
  BY DEF OnceInv
<1>4. OnceOK(s)
  BY <1>3 DEF OnceInv
<1>5. SameWork(s)
  <2>1. CASE s # r
    BY <1>3, <1>4, <2>1, SameGraphsWork DEF SameGraphs, OnceOK
  <2>2. CASE s = r
    <3>1. Working(s)' = Working(s)
      BY <1>3, <2>2 DEF Working
    <3> QED BY <1>3, <1>4, <2>2, <3>1 DEF SameWork, OnceOK
  <2> QED BY <2>1, <2>2
<1> QED BY <1>1, <1>2, <1>3, <1>5, QuietMove DEF At

LEMMA OncePacker ==
  ASSUME TypeInv, HostNames, Alone, FenceInv, OnceInv, NEW c \in Calls,
         PackerWorks(c)
  PROVE  OnceInv'
BY OncePackerStep, OnceSave, OnceLoads DEF PackerWorks

-----------------------------------------------------------------------------
(* What goes wrong, and the rest. *)
LEMMA OnceReject ==
  ASSUME TypeInv, OnceInv, NEW c \in Calls, Reject(c)
  PROVE  OnceInv'
<1>1. /\ UNCHANGED <<fence, meta, live, mem, file, saved, intact, unsure>>
      /\ ~At(c, {"save", "reply"}) /\ ~At(c, {"step"})'
      /\ \A d \in Calls \ {c} : call'[d] = call[d]
  BY DEF Reject, disk, history, At, Finish, TypeInv, TypeOK
<1> QED BY <1>1, OnceQuiet

(* A step whose answer is lost makes its message unsure. *)
LEMMA OnceLost ==
  ASSUME TypeInv, OnceInv, NEW c \in Calls,
         StepThrows(c) \/ ErrorAfterEffect(c) \/ Timeout(c)
  PROVE  OnceInv'
<1>0. PICK r : r = Sess(c)
  OBVIOUS
<1>1. r \in Sessions /\ call[c] \in CallState
  BY <1>0, CallTyped DEF StepThrows, ErrorAfterEffect, Timeout, At, Sess, CallState
<1>2. /\ ~At(c, {"step", "save", "reply"})'
      /\ \A d \in Calls \ {c} : call'[d] = call[d]
  BY DEF StepThrows, ErrorAfterEffect, Timeout, Finish, At, TypeInv, TypeOK
<1>3. /\ UNCHANGED <<fence, meta, file, saved>>
      /\ \A s \in Sessions : unsure[s] \subseteq unsure'[s]
      /\ At(c, {"save", "reply"}) => Item(c) \in unsure'[r]
      /\ \A s \in Sessions : intact'[s] => intact[s]
  BY <1>0, <1>1 DEF StepThrows, ErrorAfterEffect, Timeout, HandlesDie, Unacked, At,
     disk, TypeInv, TypeOK
<1> SUFFICES ASSUME NEW s \in Sessions, intact'[s] PROVE OnceOK(s)'
  BY DEF OnceInv
<1>4. OnceOK(s)
  BY <1>3 DEF OnceInv
<1>5. SameWay(s)
  <2>1. \A d \in Calls : At(d, {"step"})' => d # c /\ At(d, {"step"})
    BY <1>2 DEF At
  <2>2. \A d \in Calls \ {c} : At(d, {"save", "reply"}) => At(d, {"save", "reply"})'
    BY <1>2 DEF At
  <2> QED BY <1>0, <1>2, <1>3, <1>4, <2>1, <2>2
          DEF SameWay, OnceOK, FreshOK, Sess, Item, Named
<1>6. \A m \in Msgs \ unsure'[s] : Working(s)'[m] = Working(s)[m]
  <2>1. CASE StepThrows(c)
    <3>1. /\ mem'[r] = [Working(r) EXCEPT ![Item(c)] = @ + 1] /\ live'[r] = TRUE
          /\ Item(c) \in unsure'[r]
          /\ \A q \in Sessions \ {r} : SameGraphs(q)
      BY <1>0, <1>1, <1>3, <2>1
      DEF StepThrows, Stepped, SameGraphs, disk, TypeInv, TypeOK
    <3>2. CASE s = r
      <4>1. Working(s)' = mem'[r]
        BY <3>1, <3>2 DEF Working
      <4>2. Working(s) \in Graph
        BY WorkingTyped
      <4> QED BY <3>1, <3>2, <4>1, <4>2 DEF Graph
    <3>3. CASE s # r
      BY <3>1, <3>3 DEF SameGraphs, Working, Loaded, NoGraph
    <3> QED BY <3>2, <3>3
  <2>2. CASE ErrorAfterEffect(c)
    BY <2>2 DEF ErrorAfterEffect, disk, Working, Loaded, NoGraph
  <2>3. CASE Timeout(c)
    <3>1. Impl = "sidecar" /\ ~live'[s] /\ ~live[s]
      BY <2>3 DEF Timeout, HandlesDie, Harmed
    <3> QED BY <3>1 DEF Working, Loaded, NoGraph
  <2> QED BY <2>1, <2>2, <2>3
<1>7. SameWork(s)
  BY <1>3, <1>4, <1>6 DEF SameWork, OnceOK
<1> QED BY <1>4, <1>5, <1>7, OnceFrame

(* A restart reads the file there is, and forgets every call. *)
LEMMA OnceRestart ==
  ASSUME TypeInv, OnceInv, Restart
  PROVE  OnceInv'
<1> SUFFICES ASSUME NEW s \in Sessions, intact'[s] PROVE OnceOK(s)'
  BY DEF OnceInv
<1>1. /\ intact[s] /\ ~live'[s] /\ file'[s] = file[s] /\ saved'[s] = saved[s]
      /\ meta'[s] = "closed"
      /\ Impl = "sidecar" => ~live[s]
  BY DEF Restart, HandlesDie, Harmed, disk
<1>2. OnceOK(s)
  BY <1>1 DEF OnceInv
<1>3. fence'[s] = fence[s] /\ unsure[s] \subseteq unsure'[s]
  BY <1>2 DEF Restart, OnceOK
<1>4. \A m \in Msgs : \/ Working(s)'[m] \in {0, Working(s)[m]}
                      \/ file[s] = "whole" /\ Working(s)'[m] = saved[s][m]
  BY <1>1 DEF Working, Loaded, NoGraph
<1>5. SameWork(s)
  BY <1>1, <1>3, <1>4 DEF SameWork
<1>6. SameWay(s)
  <2>1. \A d \in Calls : ~At(d, {"step"})'
    BY DEF Restart, At
  <2>2. ASSUME NEW d \in Calls, At(d, {"save", "reply"}), Sess(d) = s
        PROVE  Item(d) \in unsure'[s]
    <3>1. d \in Active(s) /\ Item(d) \in Unacked(d)
      BY <2>2 DEF Active, Unacked, At, Sess
    <3> QED BY <3>1 DEF Restart
  <2> QED BY <2>1, <2>2 DEF SameWay
<1> QED BY <1>2, <1>5, <1>6, OnceFrame

(* The operator and the eviction: a session they touch is intact no more, but   *)
(* for a new profile.                                                           *)
LEMMA OnceRest ==
  ASSUME TypeInv, OnceInv, Operator \/ \E r \in Sessions : EvictHandle(r)
  PROVE  OnceInv'
<1> SUFFICES ASSUME NEW s \in Sessions, intact'[s] PROVE OnceOK(s)'
  BY DEF OnceInv
<1>1. /\ UNCHANGED <<call, unsure>> /\ intact[s]
      /\ SameGraphs(s) /\ meta'[s] = meta[s]
  <2>1. ASSUME NEW r \in Sessions, Purge(r) \/ EvictHandle(r)
        PROVE  /\ UNCHANGED <<call, unsure>> /\ intact[s]
               /\ SameGraphs(s) /\ meta'[s] = meta[s]
    <3>1. s # r
      BY <2>1 DEF Purge, EvictHandle, TypeInv, TypeOK
    <3> QED BY <2>1, <3>1 DEF Purge, EvictHandle, SameGraphs, TypeInv, TypeOK
  <2>2. ASSUME NEW r \in Sessions, NEW b \in Budgets, SwitchProfile(r, b)
        PROVE  /\ UNCHANGED <<call, unsure>> /\ intact[s]
               /\ SameGraphs(s) /\ meta'[s] = meta[s]
    BY <2>2 DEF SwitchProfile, SameGraphs, disk, history
  <2> QED BY <2>1, <2>2 DEF Operator
<1>2. OnceOK(s)
  BY <1>1 DEF OnceInv
<1>3. SameWork(s)
  BY <1>1, <1>2, SameGraphsWork DEF OnceOK
<1>4. SameWay(s)
  BY <1>1, <1>2 DEF SameWay, OnceOK, FreshOK, At, Sess, Item, Named
<1> QED BY <1>2, <1>3, <1>4, OnceFrame

LEMMA OnceStep ==
  ASSUME TypeInv, HostNames, Alone, FenceInv, OnceInv, [Next]_vars
  PROVE  OnceInv'
<1>1. CASE UNCHANGED vars
  <2> SUFFICES ASSUME NEW s \in Sessions, intact'[s] PROVE OnceOK(s)'
    BY DEF OnceInv
  <2>1. UNCHANGED <<call, fence, meta, live, mem, file, saved, intact, unsure>>
    BY <1>1 DEF vars, disk, history
  <2>2. OnceOK(s)
    BY <2>1 DEF OnceInv
  <2>3. SameWork(s)
    BY <2>1, <2>2, SameGraphsWork DEF SameGraphs, OnceOK
  <2>4. SameWay(s)
    BY <2>1, <2>2 DEF SameWay, OnceOK, FreshOK, At, Sess, Item, Named
  <2> QED BY <2>2, <2>3, <2>4, OnceFrame
<1>2. CASE Host
  BY <1>2, OnceHost
<1>3. CASE Operator \/ \E s \in Sessions : EvictHandle(s)
  BY <1>3, OnceRest
<1>4. CASE Crash \/ Reload
  BY <1>4, OnceRestart DEF Crash, Reload
<1>5. ASSUME NEW c \in Calls, Proceed(c) PROVE OnceInv'
  <2>1. CASE Resume(c)
    BY <2>1, OnceResume
  <2>2. CASE PackerWorks(c)
    BY <2>2, OncePacker
  <2>3. CASE Fails(c)
    BY <2>3, OnceReject, OnceLost DEF Fails
  <2> QED BY <1>5, <2>1, <2>2, <2>3 DEF Proceed
<1> QED BY <1>1, <1>2, <1>3, <1>4, <1>5 DEF Next

LEMMA OnceImplies == ASSUME OnceInv PROVE IngestOnce
BY DEF OnceInv, OnceOK, CountOK, IngestOnce

(* A host that numbers its messages and awaits one call of a session before the  *)
(* next: no message is stepped twice into a graph, whatever interleaves, fails,  *)
(* times out, crashes or restarts, unless a step was applied and its answer lost *)
(* (ingest.ts ingestOne).                                                        *)
THEOREM IngestedOnce ==
  ASSUME Serial, HostNames
  PROVE  Spec => []IngestOnce
<1>1. Init => Alone /\ OnceInv
  BY OnceInit
<1>2. TypeInv /\ FenceInv /\ Alone /\ OnceInv /\ [Next]_vars => Alone' /\ OnceInv'
  BY AloneStep, OnceStep
<1>3. OnceInv => IngestOnce
  BY OnceImplies
<1> QED BY <1>1, <1>2, <1>3, Typed, FenceAlways, PTL DEF Spec
-----------------------------------------------------------------------------
(* CachedPackSeesFence.  By itself it is not inductive: a pack that was sampled  *)
(* and is not remembered yet must see the fence as well.                        *)
Sees(s, seen) == \A k \in fence[s] : Behind(k) \cap seen # {}
Packed(c, s) == /\ At(c, {"sampled"}) /\ call[c].op = "assemble" /\ Sess(c) = s
                /\ ~call[c].pack.skip
PackOK(s) == /\ cache[s] # NoPack => Sees(s, cache[s].pack.seen)
             /\ \A c \in Calls : Packed(c, s) => Sees(s, call[c].pack.seen)
PackInv == \A s \in Sessions : intact[s] => PackOK(s)

LEMMA PackInit == Init => PackInv
BY DEF Init, PackInv, PackOK, Packed, At

LEMMA BehindFixed == \A k : Behind(k)' = Behind(k)
BY DEF Behind, Key, Msgs

(* A step that adds no row, and after which the pack remembered and the packs    *)
(* sampled are ones there were before.                                          *)
NoneSampled == \A d \in Calls : At(d, {"sampled"})' => call'[d] = call[d]

LEMMA PackFrame ==
  ASSUME NEW s \in Sessions, PackOK(s), NoneSampled,
         fence'[s] \subseteq fence[s], cache'[s] = NoPack \/ cache'[s] = cache[s]
  PROVE  PackOK(s)'
<1>1. \A x : Sees(s, x) => \A k \in fence'[s] : Behind(k)' \cap x # {}
  BY BehindFixed DEF Sees
<1>2. cache'[s] # NoPack => Sees(s, cache[s].pack.seen)'
  BY <1>1 DEF PackOK, Sees
<1>3. ASSUME NEW c \in Calls, Packed(c, s)' PROVE Sees(s, call[c].pack.seen)'
  <2>1. call'[c] = call[c]
    BY <1>3 DEF Packed, NoneSampled
  <2>2. Packed(c, s)
    BY <1>3, <2>1 DEF Packed, At, Sess
  <2> QED BY <1>1, <2>1, <2>2 DEF PackOK, Sees
<1> QED BY <1>2, <1>3 DEF PackOK

(* A call that is not sampled does not come to "sampled", but by PackerSample.   *)
LEMMA ProceedMoves ==
  ASSUME TypeInv, NEW c \in Calls, Resume(c) \/ PackerWorks(c) \/ Fails(c)
  PROVE  /\ call[c] # NoCall /\ call[c] \in CallState
         /\ \A d \in Calls \ {c} : call'[d] = call[d]
         /\ ~PackerSample(c) => ~At(c, {"sampled"})'
<1>1. call[c] # NoCall
  BY DEF Resume, PackerWorks, Fails, SkipItem, SendStep, MarkIngested, BatchReturns,
     CachedPack, SendSample, RememberPack, TakePrompt, FlushReturns,
     SnapshotAndSample, RewriteTranscript, CompactThrows, CompactReturns,
     PackerStep, SaveGraph, PackerSample, PackerFlush, Reject, StepThrows,
     ErrorAfterEffect, Timeout, HasItem, AtLookup, At
<1>2. call[c] \in CallState
  BY <1>1, CallTyped
<1>3. \A d \in Calls : d # c => call'[d] = call[d]
  BY DEF Resume, PackerWorks, Fails, SkipItem, SendStep, MarkIngested, BatchReturns,
     CachedPack, SendSample, RememberPack, TakePrompt, FlushReturns,
     SnapshotAndSample, RewriteTranscript, CompactThrows, CompactReturns,
     PackerStep, SaveGraph, PackerSample, PackerFlush, Reject, StepThrows,
     ErrorAfterEffect, Timeout, Finish, Goto, TypeInv, TypeOK
<1>4. ASSUME ~PackerSample(c) PROVE ~At(c, {"sampled"})'
  <2>1. CASE SkipItem(c) \/ MarkIngested(c)
    BY <1>2, <2>1 DEF SkipItem, MarkIngested, HasItem, At, TypeInv, TypeOK, CallState
  <2>2. CASE \/ SendStep(c) \/ RememberPack(c) \/ RewriteTranscript(c)
             \/ PackerStep(c) \/ PackerFlush(c)
             \/ SaveGraph(c, "save", "reply") \/ SaveGraph(c, "flushing", "flushed")
    BY <1>2, <2>2 DEF SendStep, RememberPack, RewriteTranscript, PackerStep,
       PackerFlush, SaveGraph, Goto, At, TypeInv, TypeOK, CallState
  <2>3. CASE \/ BatchReturns(c) \/ TakePrompt(c) \/ FlushReturns(c)
             \/ CompactThrows(c) \/ CompactReturns(c)
             \/ Reject(c) \/ StepThrows(c) \/ ErrorAfterEffect(c) \/ Timeout(c)
    BY <2>3 DEF BatchReturns, TakePrompt, FlushReturns, CompactThrows,
       CompactReturns, Reject, StepThrows, ErrorAfterEffect, Timeout, Finish, At,
       TypeInv, TypeOK
  <2>4. CASE CachedPack(c) \/ SendSample(c) \/ SnapshotAndSample(c)
    BY <1>2, <2>4 DEF CachedPack, SendSample, SnapshotAndSample, At, TypeInv,
       TypeOK, CallState
  <2> QED BY <1>4, <2>1, <2>2, <2>3, <2>4 DEF Resume, PackerWorks, Fails
<1> QED BY <1>1, <1>2, <1>3, <1>4
(* Steps that invalidate the cache or leave it, and sample nothing. *)
LEMMA PackQuiet ==
  ASSUME PackInv, NoneSampled,
         \A s \in Sessions : intact'[s] =>
           /\ intact[s] /\ fence'[s] \subseteq fence[s]
           /\ cache'[s] = NoPack \/ cache'[s] = cache[s]
  PROVE  PackInv'
BY PackFrame DEF PackInv

LEMMA PackHost ==
  ASSUME TypeInv, PackInv, Host
  PROVE  PackInv'
<1>1. ASSUME NEW c \in Calls, NEW s, NEW op, NEW first, NEW last, NEW q, NEW b,
             NEW pc \in {"ingest", "flush"},
             Begin(c, s, op, pc, first, last, q, b)
      PROVE  PackInv'
  <2> DEFINE k == [pc |-> pc, op |-> op, s |-> s, next |-> first, last |-> last,
                   base |-> first, query |-> q, limit |-> b, pack |-> EmptyPack]
  <2>1. call' = [call EXCEPT ![c] = k] /\ k.pc = pc
    BY <1>1 DEF Begin
  <2> HIDE DEF k
  <2>2. NoneSampled
    BY <2>1 DEF NoneSampled, At, TypeInv, TypeOK
  <2>3. UNCHANGED <<fence, cache, intact>>
    BY <1>1 DEF Begin, history
  <2> QED BY <2>2, <2>3, PackQuiet
<1>2. ASSUME NEW s \in Sessions, HostLogs(s) \/ HostTrims(s) PROVE PackInv'
  <2>1. NoneSampled /\ UNCHANGED <<fence, cache, intact>>
    BY <1>2 DEF HostLogs, HostTrims, history, NoneSampled
  <2> QED BY <2>1, PackQuiet
<1> QED
  BY <1>1, <1>2
  DEF Host, Ingest, IngestBatch, Assemble, Bootstrap, Compact, ForceFlush

(* A new row, and no pack of its session: none remembered, and none sampled, for  *)
(* the call that ingests is alone.                                              *)
LEMMA PackMark ==
  ASSUME TypeInv, Alone, PackInv, NEW c \in Calls, MarkIngested(c)
  PROVE  PackInv'
<1>0. PICK r : r = Sess(c)
  OBVIOUS
<1>1. /\ call[c] # NoCall /\ At(c, {"reply"}) /\ At(c, Loop) /\ r \in Sessions
      /\ call[c].op # "flush" /\ intact' = intact
  BY <1>0, CallTyped DEF MarkIngested, At, Sess, Loop, Alone, history
<1>2. NoneSampled /\ ~At(c, {"sampled"})'
  <2>1. Resume(c) /\ ~PackerSample(c)
    BY DEF Resume, MarkIngested, PackerSample, At
  <2> QED BY <2>1, ProceedMoves DEF NoneSampled
<1>3. /\ cache'[r] = NoPack
      /\ \A s \in Sessions \ {r} : cache'[s] = cache[s] /\ fence'[s] = fence[s]
  BY <1>0, <1>1 DEF MarkIngested, TypeInv, TypeOK
<1> SUFFICES ASSUME NEW s \in Sessions, intact'[s] PROVE PackOK(s)'
  BY DEF PackInv
<1>4. CASE s # r
  BY <1>1, <1>2, <1>3, <1>4, PackFrame DEF PackInv
<1>5. CASE s = r
  <2>1. ASSUME NEW d \in Calls, Packed(d, s)' PROVE FALSE
    <3>1. call'[d] = call[d] /\ d # c
      BY <1>2, <2>1 DEF Packed, NoneSampled
    <3>2. call[d] # NoCall /\ call[d].op = "assemble" /\ call[d].s = r
      BY <1>5, <2>1, <3>1 DEF Packed, At, Sess
    <3> QED BY <1>0, <1>1, <3>1, <3>2 DEF Alone, Sess
  <2> QED BY <1>3, <1>5, <2>1 DEF PackOK
<1> QED BY <1>4, <1>5

(* The pack sampled becomes the one remembered. *)
LEMMA PackRemember ==
  ASSUME TypeInv, PackInv, NEW c \in Calls, RememberPack(c)
  PROVE  PackInv'
<1>0. PICK r : r = Sess(c)
  OBVIOUS
<1>1. /\ call[c] # NoCall /\ At(c, {"sampled"}) /\ call[c].op = "assemble"
      /\ r \in Sessions /\ UNCHANGED <<fence, intact>>
  BY <1>0, CallTyped DEF RememberPack, At, Sess, history
<1>2. NoneSampled
  <2>1. Resume(c) /\ ~PackerSample(c)
    BY DEF Resume, RememberPack, PackerSample, At
  <2> QED BY <2>1, ProceedMoves DEF NoneSampled
<1>3. CASE call[c].pack.skip
  BY <1>1, <1>2, <1>3, PackQuiet DEF RememberPack
<1>4. CASE ~call[c].pack.skip
  <2> SUFFICES ASSUME NEW s \in Sessions, intact'[s] PROVE PackOK(s)'
    BY DEF PackInv
  <2>1. PackOK(s) /\ fence'[s] = fence[s]
    BY <1>1 DEF PackInv
  <2>2. CASE s # r
    <3>1. cache'[s] = cache[s]
      BY <1>0, <1>4, <2>2 DEF RememberPack, TypeInv, TypeOK
    <3> QED BY <1>2, <2>1, <3>1, PackFrame
  <2>3. CASE s = r
    <3>1. cache'[s].pack = call[c].pack
      <4> DEFINE e == [query |-> call[c].query, pack |-> call[c].pack]
      <4>1. cache' = [cache EXCEPT ![r] = e] /\ e.pack = call[c].pack
        BY <1>0, <1>4 DEF RememberPack
      <4> HIDE DEF e
      <4> QED BY <1>1, <2>3, <4>1 DEF TypeInv, TypeOK
    <3>2. Packed(c, s)
      BY <1>0, <1>1, <1>4, <2>3 DEF Packed
    <3>3. Sees(s, call[c].pack.seen)
      BY <2>1, <3>2 DEF PackOK
    <3>4. Sees(s, cache[s].pack.seen)'
      BY <2>1, <3>1, <3>3, BehindFixed DEF Sees
    <3>5. ASSUME NEW d \in Calls, Packed(d, s)' PROVE Sees(s, call[d].pack.seen)'
      <4>1. call'[d] = call[d]
        BY <1>2, <3>5 DEF Packed, NoneSampled
      <4>2. Packed(d, s)
        BY <3>5, <4>1 DEF Packed, At, Sess
      <4>3. Sees(s, call[d].pack.seen)
        BY <2>1, <4>2 DEF PackOK
      <4> QED BY <2>1, <4>1, <4>3, BehindFixed DEF Sees
    <3> QED BY <3>4, <3>5 DEF PackOK
  <2> QED BY <2>2, <2>3
<1> QED BY <1>3, <1>4
(* What a sample packs: the graph that backs every row of the fence. *)
LEMMA SampledPack ==
  ASSUME TypeInv, NEW c \in Calls, PackerSample(c)
  PROVE  /\ Resume(c) \/ PackerWorks(c) \/ Fails(c)
         /\ call'[c].op = call[c].op /\ call'[c].s = call[c].s
         /\ call'[c].base = call[c].base /\ call'[c].last = call[c].last
         /\ call'[c].pc = "sampled" /\ call'[c] # NoCall
         /\ call'[c].pack.skip \/ call'[c].pack.seen = Held(Working(Sess(c)))
         /\ UNCHANGED <<fence, cache, intact>>
<1>1. Resume(c) \/ PackerWorks(c) \/ Fails(c)
  BY DEF PackerWorks
<1>2. call[c] # NoCall /\ call[c] \in CallState
  BY <1>1, ProceedMoves
<1>3. PICK skip \in BOOLEAN, text \in BOOLEAN :
        call' = [call EXCEPT ![c].pc = "sampled", ![c].pack = PackOf(c, skip, text)]
  BY DEF PackerSample
<1> DEFINE p == PackOf(c, skip, text)
           k == [call[c] EXCEPT !.pc = "sampled", !.pack = p]
<1>4. p.skip \/ p.seen = Held(Working(Sess(c)))
  BY DEF PackOf
<1>5. call' = [call EXCEPT ![c] = k]
  BY <1>3
<1> HIDE DEF p
<1>6. /\ k.pc = "sampled" /\ k.pack = p /\ k.op = call[c].op /\ k.s = call[c].s
      /\ k.base = call[c].base /\ k.last = call[c].last
  BY <1>2 DEF CallState
<1> HIDE DEF k
<1>7. call'[c] = k
  BY <1>5 DEF TypeInv, TypeOK
<1>8. call'[c] # NoCall
  <2>1. k \in [pc : {"sampled"}, op : Ops, s : Sessions, next : Nat, last : Nat,
               base : Nat, query : Queries, limit : Nat, pack : {p}]
    BY <1>2 DEF CallState, k
  <2>2. p \in Pack
    <3>1. Held(Working(Sess(c))) \subseteq Msgs /\ call[c].limit \in Nat
      BY <1>2 DEF Held, CallState
    <3> QED BY <3>1 DEF p, PackOf, Pack
  <2>3. k \in CallState
    BY <2>1, <2>2 DEF CallState, PCs
  <2> QED BY <1>7, <2>3, NoCallAssumption
<1> QED BY <1>1, <1>4, <1>6, <1>7, <1>8 DEF PackerSample, history

LEMMA PackSampled ==
  ASSUME TypeInv, FenceInv, PackInv, NEW c \in Calls, PackerSample(c)
  PROVE  PackInv'
<1> SUFFICES ASSUME NEW s \in Sessions, intact'[s] PROVE PackOK(s)'
  BY DEF PackInv
<1>1. /\ PackOK(s) /\ FenceOK(s) /\ UNCHANGED <<fence, cache>>
  BY SampledPack DEF PackInv, FenceInv, SessionOK
<1>2. \A d \in Calls \ {c} : call'[d] = call[d]
  BY SampledPack, ProceedMoves
<1>3. \A x : Sees(s, x)' <=> Sees(s, x)
  BY <1>1, BehindFixed DEF Sees
<1>4. ASSUME NEW d \in Calls, d # c, Packed(d, s)'
      PROVE  Sees(s, call[d].pack.seen)'
  <2>1. call'[d] = call[d]
    BY <1>2, <1>4
  <2>2. Packed(d, s)
    BY <1>4, <2>1 DEF Packed, At, Sess
  <2> QED BY <1>1, <1>3, <2>1, <2>2 DEF PackOK, Sees
<1>5. ASSUME Packed(c, s)' PROVE Sees(s, call[c].pack.seen)'
  <2>1. call'[c].pack.seen = Held(Working(s))
    BY <1>5, SampledPack DEF Packed, Sess
  <2>2. Sees(s, Held(Working(s)))
    BY <1>1, BehindMsgs DEF FenceOK, Backed, Sees, Held
  <2> QED BY <1>1, <2>1, <2>2, BehindFixed DEF Sees
<1>6. cache'[s] # NoPack => Sees(s, cache[s].pack.seen)'
  BY <1>1, <1>3 DEF PackOK, Sees
<1> QED BY <1>4, <1>5, <1>6 DEF PackOK

LEMMA PackStep == TypeInv /\ FenceInv /\ Alone /\ PackInv /\ [Next]_vars => PackInv'
<1> SUFFICES ASSUME TypeInv, FenceInv, Alone, PackInv, [Next]_vars PROVE PackInv'
  OBVIOUS
<1>1. CASE UNCHANGED vars
  BY <1>1, PackQuiet DEF vars, history, NoneSampled
<1>2. CASE Host
  BY <1>2, PackHost
<1>3. CASE Operator \/ \E r \in Sessions : EvictHandle(r)
  <2>1. ASSUME NEW r \in Sessions, Purge(r) \/ EvictHandle(r) PROVE PackInv'
    <3>1. NoneSampled
      BY <2>1 DEF Purge, EvictHandle, NoneSampled
    <3>2. ASSUME NEW s \in Sessions, intact'[s]
          PROVE  intact[s] /\ fence'[s] = fence[s] /\ cache'[s] = cache[s]
      <4>1. s # r
        BY <2>1, <3>2 DEF Purge, EvictHandle, TypeInv, TypeOK
      <4> QED BY <2>1, <3>2, <4>1 DEF Purge, EvictHandle, TypeInv, TypeOK
    <3> QED BY <3>1, <3>2, PackQuiet
  <2>2. ASSUME NEW r \in Sessions, NEW b \in Budgets, SwitchProfile(r, b)
        PROVE  PackInv'
    BY <2>2, PackQuiet DEF SwitchProfile, history, NoneSampled, TypeInv, TypeOK
  <2> QED BY <1>3, <2>1, <2>2 DEF Operator
<1>4. CASE Crash \/ Reload
  <2>1. NoneSampled
    BY <1>4 DEF Crash, Reload, Restart, NoneSampled, At
  <2>2. ASSUME NEW s \in Sessions, intact'[s]
        PROVE  /\ intact[s] /\ fence'[s] \subseteq fence[s]
               /\ cache'[s] = NoPack \/ cache'[s] = cache[s]
    BY <1>4, <2>2 DEF Crash, Reload, Restart, HandlesDie
  <2> QED BY <2>1, <2>2, PackQuiet
<1>5. ASSUME NEW c \in Calls, Proceed(c) PROVE PackInv'
  <2>1. CASE MarkIngested(c)
    BY <2>1, PackMark
  <2>2. CASE RememberPack(c)
    BY <2>2, PackRemember
  <2>3. CASE PackerSample(c)
    BY <2>3, PackSampled
  <2>4. CASE ~MarkIngested(c) /\ ~RememberPack(c) /\ ~PackerSample(c)
    <3>1. NoneSampled
      BY <1>5, <2>4, ProceedMoves DEF Proceed, NoneSampled
    <3>2. fence' = fence
      BY <1>5, <2>4
      DEF Proceed, Resume, PackerWorks, Fails, SkipItem, SendStep, BatchReturns,
         CachedPack, SendSample, TakePrompt, FlushReturns, SnapshotAndSample,
         RewriteTranscript, CompactThrows, CompactReturns, PackerStep, SaveGraph,
         PackerFlush, Reject, StepThrows, ErrorAfterEffect, Timeout
    <3>3. \A s \in Sessions : cache'[s] = NoPack \/ cache'[s] = cache[s]
      BY <1>5, <2>4
      DEF Proceed, Resume, PackerWorks, Fails, SkipItem, SendStep, BatchReturns,
         CachedPack, SendSample, TakePrompt, FlushReturns, SnapshotAndSample,
         RewriteTranscript, CompactThrows, CompactReturns, PackerStep, SaveGraph,
         PackerFlush, Reject, StepThrows, ErrorAfterEffect, Timeout, TypeInv, TypeOK
    <3>4. \A s \in Sessions : intact'[s] => intact[s]
      BY <1>5, <2>4
      DEF Proceed, Resume, PackerWorks, Fails, SkipItem, SendStep, BatchReturns,
         CachedPack, SendSample, TakePrompt, FlushReturns, SnapshotAndSample,
         RewriteTranscript, CompactThrows, CompactReturns, PackerStep, SaveGraph,
         PackerFlush, Reject, StepThrows, ErrorAfterEffect, Timeout, history,
         HandlesDie
    <3> QED BY <3>1, <3>2, <3>3, <3>4, PackQuiet
  <2> QED BY <2>1, <2>2, <2>3, <2>4
<1> QED BY <1>1, <1>2, <1>3, <1>4, <1>5 DEF Next

LEMMA PackAlways == ASSUME Serial PROVE Spec => []PackInv
<1>1. Init => Alone /\ PackInv
  BY OnceInit, PackInit DEF Alone, Init, At
<1>2. TypeInv /\ FenceInv /\ Alone /\ PackInv /\ [Next]_vars => Alone' /\ PackInv'
  BY AloneStep, PackStep
<1> QED BY <1>1, <1>2, Typed, FenceAlways, PTL DEF Spec

(* A host that awaits one call of a session before the next: a remembered pack    *)
(* was made of a graph that held every message fenced since, for any sessions,    *)
(* transcripts, faults and reloads (pack-cache.ts, ingest.ts).                    *)
THEOREM CacheSeesFence ==
  ASSUME Serial
  PROVE  Spec => []CachedPackSeesFence
<1>1. PackInv => CachedPackSeesFence
  BY DEF PackInv, PackOK, Sees, CachedPackSeesFence
<1> QED BY <1>1, PackAlways, PTL
-----------------------------------------------------------------------------
(* AssembleCoversMessages.  By itself it is not inductive: what a call's batch    *)
(* has passed must be fenced, up to its place in the loop and, when it samples,   *)
(* up to its end; so a pack that sees the fence sees the messages.               *)
FencedTo(s, first, n) == \A m \in (first..n) \ Skipped : Named(m) \in fence[s]
Shows(k) == k.pack.skip \/ (k.base..k.last) \ Skipped \subseteq k.pack.seen
Covered(k) ==
  /\ k.pc \in Loop => FencedTo(k.s, k.base, k.next - 1)
  /\ k.op = "assemble" /\ k.pc = "sample" => FencedTo(k.s, k.base, k.last)
  /\ k.pc = "returned" \/ (k.op = "assemble" /\ k.pc = "sampled") => Shows(k)
CoverInv == \A c \in Calls :
              call[c] # NoCall /\ intact[call[c].s] => Covered(call[c])

LEMMA CoverInit == Init => CoverInv
BY DEF Init, CoverInv

LEMMA BehindNamed ==
  ASSUME HostNames, NEW m \in Msgs
  PROVE  Behind(Named(m)) \subseteq {m}
BY DEF HostNames, Behind, Named, Key

(* A pack that sees the fence sees every message of a batch that is fenced. *)
LEMMA FencedIsSeen ==
  ASSUME HostNames, NEW s, NEW seen, Sees(s, seen), NEW first \in Nat,
         NEW last \in Nat, 1 <= first, last <= Length, FencedTo(s, first, last)
  PROVE  (first..last) \ Skipped \subseteq seen
<1> SUFFICES ASSUME NEW m \in (first..last) \ Skipped PROVE m \in seen
  OBVIOUS
<1>1. m \in Msgs
  BY EngineAssumption DEF Msgs
<1>2. Behind(Named(m)) \cap seen # {}
  BY DEF Sees, FencedTo
<1> QED BY <1>1, <1>2, BehindNamed

(* A call that stays where it is stays covered, since the fence only grows. *)
FenceGrows == \A s \in Sessions : intact'[s] => intact[s] /\ fence[s] \subseteq fence'[s]

LEMMA FencedKept ==
  ASSUME NEW s, fence[s] \subseteq fence'[s], NEW first, NEW n, FencedTo(s, first, n)
  PROVE  \A m \in (first..n) \ Skipped : Named(m)' \in fence'[s]
<1>1. \A m : Named(m)' = Named(m)
  BY DEF Named
<1> QED BY <1>1 DEF FencedTo

LEMMA CoverMove ==
  ASSUME TypeInv, CoverInv, FenceGrows, NEW c \in Calls,
         \A d \in Calls \ {c} : call'[d] = call[d] \/ call'[d] = NoCall,
         call'[c] # NoCall /\ intact'[call'[c].s] => Covered(call[c])'
  PROVE  CoverInv'
<1> SUFFICES ASSUME NEW d \in Calls, d # c, call'[d] # NoCall, intact'[call'[d].s]
             PROVE  Covered(call[d])'
  BY DEF CoverInv
<1>1. call'[d] = call[d] /\ call[d] # NoCall
  OBVIOUS
<1>2. call[d].s \in Sessions
  BY <1>1, CallTyped
<1>3. fence[call[d].s] \subseteq fence'[call[d].s] /\ Covered(call[d])
  BY <1>1, <1>2 DEF FenceGrows, CoverInv
<1> QED BY <1>1, <1>3, FencedKept DEF Covered, FencedTo, Shows
LEMMA CoverHost ==
  ASSUME TypeInv, CoverInv, Host
  PROVE  CoverInv'
<1>1. ASSUME NEW c \in Calls, NEW s, NEW op, NEW first \in Nat, NEW last, NEW q, NEW b,
             NEW pc \in {"ingest", "flush"},
             Begin(c, s, op, pc, first, last, q, b)
      PROVE  CoverInv'
  <2> DEFINE k == [pc |-> pc, op |-> op, s |-> s, next |-> first, last |-> last,
                   base |-> first, query |-> q, limit |-> b, pack |-> EmptyPack]
  <2>1. /\ call' = [call EXCEPT ![c] = k]
        /\ k.pc = pc /\ k.next = first /\ k.base = first
    BY <1>1 DEF Begin
  <2> HIDE DEF k
  <2>2. call'[c] = k /\ \A d \in Calls \ {c} : call'[d] = call[d]
    BY <2>1 DEF TypeInv, TypeOK
  <2>3. FenceGrows
    BY <1>1 DEF Begin, FenceGrows, history
  <2>4. first..(first - 1) = {}
    OBVIOUS
  <2>5. Covered(call[c])'
    BY <2>1, <2>2, <2>4 DEF Covered, FencedTo
  <2> QED BY <2>2, <2>3, <2>5, CoverMove
<1>2. ASSUME NEW s \in Sessions, HostLogs(s) \/ HostTrims(s) PROVE CoverInv'
  <2>1. FenceGrows /\ call' = call
    BY <1>2 DEF HostLogs, HostTrims, FenceGrows, history
  <2>2. \A d \in Calls : call[d] # NoCall /\ intact'[call[d].s] => Covered(call[d])'
    <3> SUFFICES ASSUME NEW d \in Calls, call[d] # NoCall, intact'[call[d].s]
                 PROVE  Covered(call[d])'
      OBVIOUS
    <3>1. fence[call[d].s] \subseteq fence'[call[d].s] /\ Covered(call[d])
      BY <2>1, CallTyped DEF FenceGrows, CoverInv
    <3> QED BY <2>1, <3>1, FencedKept DEF Covered, FencedTo, Shows
  <2> QED BY <2>1, <2>2 DEF CoverInv
<1>3. \A s \in Sessions : trimmed[s] \in Nat /\ trimmed[s] + 1 \in Nat
  BY DEF TypeInv, TypeOK
<1>4. \A m \in Msgs : m \in Nat
  BY EngineAssumption DEF Msgs
<1> QED
  BY <1>1, <1>2, <1>3, <1>4
  DEF Host, Ingest, IngestBatch, Assemble, Bootstrap, Compact, ForceFlush

(* The loop goes on: with the same message, or past one that is skipped or fenced. *)
LEMMA CoverWalk ==
  ASSUME TypeInv, CoverInv, NEW c \in Calls, At(c, Loop), intact[Sess(c)],
         NEW k, k.op = call[c].op, k.s = call[c].s, k.base = call[c].base,
         k.pc \in Loop, fence[Sess(c)] \subseteq fence'[Sess(c)],
         \/ k.next = call[c].next
         \/ /\ k.next = call[c].next + 1
            /\ Item(c) \in Skipped \/ Named(Item(c)) \in fence'[Sess(c)],
         call'[c] = k
  PROVE  Covered(call[c])'
<1>1. /\ call[c] # NoCall /\ call[c] \in CallState /\ Covered(call[c])
      /\ Bounded(call[c])
  BY CallTyped DEF At, CoverInv, Sess
<1>2. call[c].base \in Nat /\ call[c].next \in Nat
  BY <1>1 DEF CallState
<1>3. \A m : Named(m)' = Named(m)
  BY DEF Named
<1>4. k.pc \notin {"sample", "sampled", "returned"}
  BY DEF Loop
<1>5. \A m \in (k.base..(k.next - 1)) \ Skipped : Named(m) \in fence'[Sess(c)]
  <2>1. FencedTo(Sess(c), call[c].base, call[c].next - 1)
    BY <1>1 DEF Covered, At, Sess
  <2>2. \A m \in (call[c].base..(call[c].next - 1)) \ Skipped :
           Named(m) \in fence'[Sess(c)]
    BY <2>1 DEF FencedTo
  <2>3. CASE k.next = call[c].next
    BY <2>2, <2>3
  <2>4. CASE /\ k.next = call[c].next + 1
             /\ Item(c) \in Skipped \/ Named(Item(c)) \in fence'[Sess(c)]
    <3> SUFFICES ASSUME NEW m \in (k.base..(k.next - 1)) \ Skipped
                 PROVE  Named(m) \in fence'[Sess(c)]
      OBVIOUS
    <3>1. m = Item(c) \/ m \in (call[c].base..(call[c].next - 1)) \ Skipped
      BY <1>2, <2>4 DEF Item
    <3> QED BY <2>2, <2>4, <3>1
  <2> QED BY <2>3, <2>4
<1> QED BY <1>3, <1>4, <1>5 DEF Covered, FencedTo, Sess

LEMMA CoverLoop ==
  ASSUME TypeInv, HostNames, CoverInv, NEW c \in Calls,
         \/ SkipItem(c) \/ SendStep(c) \/ MarkIngested(c)
         \/ PackerStep(c) \/ SaveGraph(c, "save", "reply")
  PROVE  CoverInv'
<1>1. Resume(c) \/ PackerWorks(c) \/ Fails(c)
  BY DEF Resume, PackerWorks
<1>2. /\ call[c] # NoCall /\ call[c] \in CallState /\ Bounded(call[c])
      /\ At(c, Loop) /\ Sess(c) \in Sessions
  <2>1. At(c, Loop)
    BY <1>1, ProceedMoves
    DEF SkipItem, SendStep, MarkIngested, PackerStep, SaveGraph, HasItem, At, Loop
  <2> QED BY <2>1, CallTyped DEF At, Sess
<1>3. FenceGrows
  BY <1>2 DEF SkipItem, SendStep, MarkIngested, PackerStep, SaveGraph, FenceGrows,
     history, TypeInv, TypeOK
<1>4. ASSUME intact'[call'[c].s], call'[c] # NoCall PROVE Covered(call[c])'
  <2>1. CASE SkipItem(c)
    <3> DEFINE k == [call[c] EXCEPT !.next = @ + 1]
    <3>1. call'[c] = k
      BY <2>1 DEF SkipItem, TypeInv, TypeOK
    <3>2. /\ k.op = call[c].op /\ k.s = call[c].s /\ k.base = call[c].base
          /\ k.pc = call[c].pc /\ k.next = call[c].next + 1
      BY <1>2 DEF CallState
    <3> HIDE DEF k
    <3>3. Item(c) \in Skipped \/ Named(Item(c)) \in fence'[Sess(c)]
      <4>1. call[c].next \in Msgs
        BY <1>2, <2>1, EngineAssumption
        DEF SkipItem, HasItem, Bounded, CallState, Msgs
      <4>2. ItemKey(c) = Named(Item(c))
        BY <4>1 DEF HostNames, ItemKey, Item, Key, Named
      <4> QED BY <2>1, <4>2 DEF SkipItem
    <3> QED BY <1>2, <1>3, <1>4, <3>1, <3>2, <3>3, CoverWalk
            DEF FenceGrows, Sess, At
  <2>2. CASE MarkIngested(c)
    <3> DEFINE k == [call[c] EXCEPT !.pc = "ingest", !.next = @ + 1]
    <3>1. call' = [call EXCEPT ![c] = k]
      BY <2>2 DEF MarkIngested
    <3>2. /\ k.op = call[c].op /\ k.s = call[c].s /\ k.base = call[c].base
          /\ k.pc = "ingest" /\ k.next = call[c].next + 1
      BY <1>2 DEF CallState
    <3> HIDE DEF k
    <3>3. call'[c] = k /\ "ingest" \in Loop
      BY <3>1 DEF TypeInv, TypeOK, Loop
    <3>4. Named(Item(c)) \in fence'[Sess(c)]
      <4>1. At(c, {"step", "save", "reply"})
        BY <2>2 DEF MarkIngested, At
      <4> QED BY <1>2, <2>2, <4>1, KeyNamed DEF MarkIngested, TypeInv, TypeOK
    <3> QED BY <1>2, <1>3, <1>4, <3>2, <3>3, <3>4, CoverWalk DEF FenceGrows, Sess
  <2>3. CASE SendStep(c) \/ PackerStep(c) \/ SaveGraph(c, "save", "reply")
    <3>1. PICK pc \in Loop : call' = Goto(c, pc)
      BY <2>3 DEF SendStep, PackerStep, SaveGraph, Loop
    <3> DEFINE k == [call[c] EXCEPT !.pc = pc]
    <3>2. call' = [call EXCEPT ![c] = k]
      BY <3>1 DEF Goto
    <3>3. /\ k.op = call[c].op /\ k.s = call[c].s /\ k.base = call[c].base
          /\ k.pc = pc /\ k.next = call[c].next
      BY <1>2 DEF CallState
    <3> HIDE DEF k
    <3>4. call'[c] = k
      BY <3>2 DEF TypeInv, TypeOK
    <3> QED BY <1>2, <1>3, <1>4, <3>3, <3>4, CoverWalk DEF FenceGrows, Sess
  <2> QED BY <2>1, <2>2, <2>3
<1> QED BY <1>1, <1>3, <1>4, ProceedMoves, CoverMove
(* The batch is behind: the remembered pack is the prompt, or a sample is asked for. *)
LEMMA CoverLookup ==
  ASSUME TypeInv, HostNames, PackInv, CoverInv, NEW c \in Calls,
         CachedPack(c) \/ SendSample(c)
  PROVE  CoverInv'
<1>1. /\ Resume(c) \/ PackerWorks(c) \/ Fails(c)
      /\ UNCHANGED <<fence, intact>> /\ AtLookup(c)
  BY DEF Resume, CachedPack, SendSample, history
<1>2. /\ call[c] # NoCall /\ call[c] \in CallState /\ Bounded(call[c])
      /\ Sess(c) \in Sessions /\ Sess(c) = call[c].s
  BY <1>1, CallTyped DEF AtLookup, At, Sess
<1>3. FenceGrows
  BY <1>1 DEF FenceGrows
<1>4. \A m : Named(m)' = Named(m)
  BY DEF Named
<1>5. ASSUME intact[Sess(c)] PROVE FencedTo(Sess(c), call[c].base, call[c].last)
  <2>1. FencedTo(Sess(c), call[c].base, call[c].next - 1)
    BY <1>1, <1>2, <1>5 DEF CoverInv, Covered, AtLookup, At, Loop
  <2>2. call[c].base..call[c].last \subseteq call[c].base..(call[c].next - 1)
    BY <1>1, <1>2 DEF AtLookup, CallState
  <2> QED BY <2>1, <2>2 DEF FencedTo
<1>6. ASSUME CachedPack(c), intact'[call'[c].s] PROVE Covered(call[c])'
  <2> DEFINE k == [call[c] EXCEPT !.pc = "returned", !.pack = cache[Sess(c)].pack,
                                  !.limit = MinOf(forward, @)]
  <2>1. call' = [call EXCEPT ![c] = k]
    BY <1>6 DEF CachedPack
  <2>2. /\ k.pc = "returned" /\ k.pack = cache[Sess(c)].pack /\ k.s = call[c].s
        /\ k.base = call[c].base /\ k.last = call[c].last
    BY <1>2 DEF CallState
  <2> HIDE DEF k
  <2>3. call'[c] = k
    BY <2>1 DEF TypeInv, TypeOK
  <2>4. intact[Sess(c)]
    BY <1>1, <1>2, <1>6, <2>2, <2>3
  <2>5. Sees(Sess(c), k.pack.seen)
    BY <1>2, <1>6, <2>2, <2>4 DEF CachedPack, Hit, PackInv, PackOK
  <2>6. (k.base..k.last) \ Skipped \subseteq k.pack.seen
    <3>1. call[c].base \in Nat /\ call[c].last \in Nat /\ 1 <= call[c].base
          /\ call[c].last <= Length
      BY <1>2 DEF CallState, Bounded
    <3> QED BY <1>5, <2>2, <2>4, <2>5, <3>1, FencedIsSeen
  <2> QED BY <2>2, <2>3, <2>6 DEF Covered, Shows, Loop
<1>7. ASSUME SendSample(c), intact'[call'[c].s] PROVE Covered(call[c])'
  <2> DEFINE k == [call[c] EXCEPT !.pc = "sample", !.limit = MinOf(forward, @)]
  <2>1. call' = [call EXCEPT ![c] = k]
    BY <1>7 DEF SendSample
  <2>2. /\ k.pc = "sample" /\ k.s = call[c].s
        /\ k.base = call[c].base /\ k.last = call[c].last
    BY <1>2 DEF CallState
  <2> HIDE DEF k
  <2>3. call'[c] = k
    BY <2>1 DEF TypeInv, TypeOK
  <2>4. \A m \in (k.base..k.last) \ Skipped : Named(m) \in fence'[k.s]
    BY <1>1, <1>2, <1>5, <1>7, <2>2, <2>3 DEF FencedTo
  <2> QED BY <1>4, <2>2, <2>3, <2>4 DEF Covered, FencedTo, Loop
<1> QED BY <1>1, <1>3, <1>6, <1>7, ProceedMoves, CoverMove

(* The packer's graph backs the fence, so its pack shows the batch; and the pack   *)
(* sampled is the one returned.                                                   *)
LEMMA CoverSample ==
  ASSUME TypeInv, HostNames, FenceInv, CoverInv, NEW c \in Calls, PackerSample(c)
  PROVE  CoverInv'
<1>1. /\ call[c] # NoCall /\ call[c] \in CallState /\ Bounded(call[c])
      /\ Sess(c) \in Sessions /\ Sess(c) = call[c].s
      /\ \A d \in Calls \ {c} : call'[d] = call[d]
  BY SampledPack, ProceedMoves, CallTyped DEF Sess
<1>2. FenceGrows
  BY SampledPack DEF FenceGrows
<1>3. ASSUME intact'[call'[c].s] PROVE Covered(call[c])'
  <2>1. intact[Sess(c)]
    BY <1>1, <1>3, SampledPack
  <2>2. CASE call[c].op = "assemble"
    <3>1. FencedTo(Sess(c), call[c].base, call[c].last)
      BY <1>1, <2>1, <2>2 DEF PackerSample, At, CoverInv, Covered
    <3>2. Sees(Sess(c), Held(Working(Sess(c))))
      BY <1>1, <2>1, BehindMsgs DEF FenceInv, SessionOK, FenceOK, Backed, Sees, Held
    <3>3. call[c].base \in Nat /\ call[c].last \in Nat /\ 1 <= call[c].base
          /\ call[c].last <= Length
      BY <1>1 DEF CallState, Bounded
    <3>4. (call[c].base..call[c].last) \ Skipped \subseteq Held(Working(Sess(c)))
      BY <3>1, <3>2, <3>3, FencedIsSeen
    <3>5. (call'[c].base..call'[c].last) \ Skipped \subseteq Held(Working(Sess(c)))
      BY <3>4, SampledPack
    <3>6. Shows(call[c])'
      BY <3>5, SampledPack DEF Shows
    <3> QED BY <3>6, SampledPack DEF Covered, Loop
  <2>3. CASE call[c].op # "assemble"
    BY <2>3, SampledPack DEF Covered, Loop
  <2> QED BY <2>2, <2>3
<1> QED BY <1>1, <1>2, <1>3, CoverMove

LEMMA CoverRemember ==
  ASSUME TypeInv, CoverInv, NEW c \in Calls, RememberPack(c)
  PROVE  CoverInv'
<1>1. /\ Resume(c) \/ PackerWorks(c) \/ Fails(c)
      /\ UNCHANGED <<fence, intact>>
  BY DEF Resume, RememberPack, history
<1>2. call[c] # NoCall /\ call[c] \in CallState
  BY <1>1, ProceedMoves
<1>3. FenceGrows
  BY <1>1 DEF FenceGrows
<1>4. ASSUME intact'[call'[c].s] PROVE Covered(call[c])'
  <2> DEFINE k == [call[c] EXCEPT !.pc = "returned"]
  <2>1. call' = [call EXCEPT ![c] = k]
    BY DEF RememberPack, Goto
  <2>2. /\ k.pc = "returned" /\ k.s = call[c].s /\ k.pack = call[c].pack
        /\ k.base = call[c].base /\ k.last = call[c].last
    BY <1>2 DEF CallState
  <2> HIDE DEF k
  <2>3. call'[c] = k
    BY <2>1 DEF TypeInv, TypeOK
  <2>4. Shows(call[c])
    BY <1>1, <1>2, <1>4, <2>2, <2>3 DEF RememberPack, At, CoverInv, Covered
  <2> QED BY <2>2, <2>3, <2>4 DEF Covered, Shows, Loop
<1> QED BY <1>1, <1>3, <1>4, ProceedMoves, CoverMove

(* The other steps of a call end it, or are not of an assemble. *)
LEMMA CoverOther ==
  ASSUME TypeInv, Alone, CoverInv, NEW c \in Calls,
         \/ BatchReturns(c) \/ TakePrompt(c) \/ FlushReturns(c) \/ CompactThrows(c)
         \/ CompactReturns(c) \/ Fails(c)
         \/ RewriteTranscript(c) \/ SnapshotAndSample(c)
         \/ PackerFlush(c) \/ SaveGraph(c, "flushing", "flushed")
  PROVE  CoverInv'
<1>1. Resume(c) \/ PackerWorks(c) \/ Fails(c)
  BY DEF Resume, PackerWorks
<1>2. call[c] # NoCall /\ call[c] \in CallState
  BY <1>1, ProceedMoves
<1>3. FenceGrows
  BY DEF BatchReturns, TakePrompt, FlushReturns, CompactThrows, CompactReturns,
     Fails, Reject, StepThrows, ErrorAfterEffect, Timeout, HandlesDie,
     RewriteTranscript, SnapshotAndSample, PackerFlush, SaveGraph, history, FenceGrows
<1>4. ASSUME call'[c] # NoCall PROVE Covered(call[c])'
  <2>1. CASE SnapshotAndSample(c)
    BY <1>2, <2>1 DEF SnapshotAndSample, CallState, Covered, Loop, TypeInv, TypeOK
  <2>2. CASE \/ RewriteTranscript(c) \/ PackerFlush(c)
             \/ SaveGraph(c, "flushing", "flushed")
    <3>1. PICK pc \in {"rewritten", "flushing", "flushed"} : call' = Goto(c, pc)
      BY <2>2 DEF RewriteTranscript, PackerFlush, SaveGraph
    <3>2. call'[c].pc = pc
      BY <1>2, <3>1 DEF Goto, CallState, TypeInv, TypeOK
    <3> QED BY <3>2 DEF Covered, Loop
  <2>3. CASE ~SnapshotAndSample(c) /\ ~RewriteTranscript(c) /\ ~PackerFlush(c)
             /\ ~SaveGraph(c, "flushing", "flushed")
    BY <1>4, <2>3
    DEF BatchReturns, TakePrompt, FlushReturns, CompactThrows, CompactReturns,
       Fails, Reject, StepThrows, ErrorAfterEffect, Timeout, Finish, TypeInv, TypeOK
  <2> QED BY <2>1, <2>2, <2>3
<1> QED BY <1>1, <1>3, <1>4, ProceedMoves, CoverMove

LEMMA CoverStep ==
  TypeInv /\ HostNames /\ FenceInv /\ Alone /\ PackInv /\ CoverInv /\ [Next]_vars
    => CoverInv'
<1> SUFFICES ASSUME TypeInv, HostNames, FenceInv, Alone, PackInv, CoverInv, [Next]_vars
             PROVE  CoverInv'
  OBVIOUS
<1>1. ASSUME FenceGrows, \A d \in Calls : call'[d] = call[d] \/ call'[d] = NoCall
      PROVE  CoverInv'
  <2> SUFFICES ASSUME NEW d \in Calls, call'[d] # NoCall, intact'[call'[d].s]
               PROVE  Covered(call[d])'
    BY DEF CoverInv
  <2>1. call'[d] = call[d] /\ call[d] # NoCall
    BY <1>1
  <2>2. fence[call[d].s] \subseteq fence'[call[d].s] /\ Covered(call[d])
    BY <1>1, <2>1, CallTyped DEF FenceGrows, CoverInv
  <2> QED BY <2>1, <2>2, FencedKept DEF Covered, FencedTo, Shows
<1>2. CASE UNCHANGED vars
  BY <1>1, <1>2 DEF vars, history, FenceGrows
<1>3. CASE Host
  BY <1>3, CoverHost
<1>4. CASE Operator \/ \E r \in Sessions : EvictHandle(r)
  <2>1. ASSUME NEW r \in Sessions,
               Purge(r) \/ EvictHandle(r) \/ \E b \in Budgets : SwitchProfile(r, b)
        PROVE  CoverInv'
    <3>1. FenceGrows
      BY <2>1 DEF Purge, EvictHandle, SwitchProfile, history, FenceGrows,
         TypeInv, TypeOK
    <3> QED BY <1>1, <2>1, <3>1 DEF Purge, EvictHandle, SwitchProfile
  <2> QED BY <1>4, <2>1 DEF Operator
<1>5. CASE Crash \/ Reload
  BY <1>5 DEF Crash, Reload, Restart, CoverInv
<1>6. ASSUME NEW c \in Calls, Proceed(c) PROVE CoverInv'
  BY <1>6, CoverLoop, CoverLookup, CoverSample, CoverRemember, CoverOther
  DEF Proceed, Resume, PackerWorks
<1> QED BY <1>2, <1>3, <1>4, <1>5, <1>6 DEF Next

(* A host that numbers its messages and awaits one call of a session before the    *)
(* next: the pack of each prompt, sampled or remembered, was made of a graph that   *)
(* held all the messages the host passed, those ingested long ago included, unless  *)
(* the packer answered that nothing is new (assemble.ts, pack-cache.ts).            *)
THEOREM PromptsCoverMessages ==
  ASSUME Serial, HostNames
  PROVE  Spec => []AssembleCoversMessages
<1>1. Init => Alone /\ CoverInv
  BY OnceInit, CoverInit
<1>2. /\ TypeInv /\ FenceInv /\ PackInv /\ Alone /\ CoverInv /\ [Next]_vars
           => Alone' /\ CoverInv'
  BY AloneStep, CoverStep
<1>3. TypeInv /\ CoverInv => AssembleCoversMessages
  <2> SUFFICES ASSUME TypeInv, CoverInv, NEW c \in Calls, At(c, {"returned"}),
                      intact[call[c].s]
               PROVE  ~call[c].pack.skip =>
                        (call[c].base..call[c].last) \ Skipped \subseteq call[c].pack.seen
    BY DEF AssembleCoversMessages
  <2> QED BY DEF CoverInv, Covered, Shows, At
<1> QED BY <1>1, <1>2, <1>3, Typed, FenceAlways, PackAlways, PTL DEF Spec

(* A bootstrap that found no graph leaves one that holds the messages it was given, *)
(* for a host that numbers its messages and awaits one call of a session before     *)
(* the next, whatever fails and whenever it restarts (engine.ts bootstrap).         *)
THEOREM BootstrapKeepsAll ==
  ASSUME Serial, HostNames
  PROVE  Spec => BootstrapRecovers
<1>1. Init => Alone /\ CoverInv
  BY OnceInit, CoverInit
<1>2. /\ TypeInv /\ FenceInv /\ PackInv /\ Alone /\ CoverInv /\ [Next]_vars
           => Alone' /\ CoverInv'
  BY AloneStep, CoverStep
<1> DEFINE Recovers ==
      \A c \in Calls :
        (At(c, {"ingest"}) /\ call[c].op = "bootstrap" /\ call'[c] = NoCall
           /\ call[c].next > call[c].last /\ intact[Sess(c)])
        => \A m \in (call[c].base..call[c].last) \ Skipped : Working(Sess(c))[m] > 0
<1>3. TypeInv /\ FenceInv /\ CoverInv => Recovers
  <2> SUFFICES ASSUME TypeInv, FenceInv, CoverInv, NEW c \in Calls,
                      At(c, {"ingest"}), call[c].next > call[c].last, intact[Sess(c)],
                      NEW m \in (call[c].base..call[c].last) \ Skipped
               PROVE  Working(Sess(c))[m] > 0
    OBVIOUS
  <2>1. /\ call[c] # NoCall /\ call[c] \in CallState /\ Bounded(call[c])
        /\ Sess(c) \in Sessions /\ Sess(c) = call[c].s
    BY CallTyped DEF At, Sess
  <2>2. FencedTo(Sess(c), call[c].base, call[c].next - 1)
    BY <2>1 DEF CoverInv, Covered, At, Loop
  <2>3. m \in (call[c].base..(call[c].next - 1)) \ Skipped /\ m \in Msgs
    BY <2>1, EngineAssumption DEF CallState, Bounded, Msgs
  <2>4. Named(m) \in fence[Sess(c)]
    BY <2>2, <2>3 DEF FencedTo
  <2>5. PICK n \in Behind(Named(m)) : Backed(Sess(c), n)
    BY <2>1, <2>4 DEF FenceInv, SessionOK, FenceOK
  <2> QED BY <2>3, <2>5, BehindNamed DEF Backed
<1>4. TypeInv /\ FenceInv /\ CoverInv /\ [Next]_vars => [Recovers]_vars
  BY <1>3
<1>5. Spec => [][Recovers]_vars
  BY <1>1, <1>2, <1>4, Typed, FenceAlways, PackAlways, PTL DEF Spec
<1> QED BY <1>5 DEF BootstrapRecovers

-----------------------------------------------------------------------------
(* CompactKeepsMemory.  When its sample is answered, graph.json must still be as    *)
(* the compaction's own flush left it, not half-written by somebody else.          *)
Frozen(c) == At(c, {"flushed", "sample", "sampled"}) /\ call[c].op = "compact"
FrozenInv == \A c \in Calls :
               Frozen(c) /\ intact[Sess(c)] => file[Sess(c)] \in {"whole", "absent"}

LEMMA FrozenQuiet ==
  ASSUME FrozenInv,
         \A c \in Calls : Frozen(c)' => Frozen(c) /\ Sess(c)' = Sess(c),
         \A s \in Sessions : intact'[s] => intact[s] /\ file'[s] = file[s], TypeInv
  PROVE  FrozenInv'
<1> SUFFICES ASSUME NEW c \in Calls, Frozen(c)', intact'[Sess(c)']
             PROVE  file'[Sess(c)'] \in {"whole", "absent"}
  BY DEF FrozenInv
<1>1. Frozen(c) /\ Sess(c)' = Sess(c) /\ Sess(c) \in Sessions
  BY CallTyped DEF Frozen, At, Sess
<1> QED BY <1>1 DEF FrozenInv

(* The packer writes the file for a call of the session; no other is compacting it. *)
LEMMA FrozenWrites ==
  ASSUME TypeInv, Alone, "flush" \notin Ops, FrozenInv, NEW c \in Calls,
         \/ PackerStep(c) \/ PackerFlush(c)
         \/ SaveGraph(c, "save", "reply") \/ SaveGraph(c, "flushing", "flushed")
  PROVE  FrozenInv'
<1>0. PICK r : r = Sess(c)
  OBVIOUS
<1>1. /\ call[c] # NoCall /\ call[c] \in CallState /\ r \in Sessions
      /\ \A d \in Calls \ {c} : call'[d] = call[d]
      /\ call[c].op # "flush"
  <2>1. PackerWorks(c)
    BY DEF PackerWorks
  <2>2. call[c] # NoCall /\ call[c] \in CallState
    BY <2>1, ProceedMoves
  <2> QED BY <1>0, <2>1, <2>2, ProceedMoves DEF CallState, Sess
<1> SUFFICES ASSUME NEW d \in Calls, Frozen(d)', intact'[Sess(d)']
             PROVE  file'[Sess(d)'] \in {"whole", "absent"}
  BY DEF FrozenInv
<1>2. CASE d # c
  <2>1. call'[d] = call[d]
    BY <1>1, <1>2
  <2>2. Frozen(d) /\ Sess(d)' = Sess(d) /\ call[d] # NoCall
    BY <2>1 DEF Frozen, At, Sess
  <2>3. Sess(d) \in Sessions /\ Sess(d) # r
    BY <1>0, <1>1, <1>2, <2>2, CallTyped DEF Alone, Frozen, Sess
  <2>4. file'[Sess(d)] = file[Sess(d)] /\ intact' = intact
    BY <1>0, <1>1, <2>3
    DEF PackerStep, PackerFlush, SaveGraph, history, TypeInv, TypeOK
  <2> QED BY <2>2, <2>4 DEF FrozenInv
<1>3. CASE d = c
  <2>1. PICK pc \in {"save", "flushing", "reply", "flushed"} : call' = Goto(c, pc)
    BY DEF PackerStep, PackerFlush, SaveGraph
  <2>2. call'[c].pc = pc /\ call'[c].s = r
    BY <1>0, <1>1, <2>1 DEF Goto, CallState, TypeInv, TypeOK, Sess
  <2>3. pc = "flushed" /\ Sess(c)' = r
    BY <1>3, <2>2 DEF Frozen, At, Sess
  <2>4. SaveGraph(c, "flushing", "flushed")
    <3>1. ASSUME NEW p \in {"save", "flushing", "reply"}, call' = Goto(c, p)
          PROVE  FALSE
      BY <1>1, <2>2, <2>3, <3>1 DEF Goto, CallState, TypeInv, TypeOK
    <3> QED BY <3>1 DEF PackerStep, PackerFlush, SaveGraph
  <2>5. file'[r] \in {"whole", "absent"}
    BY <1>0, <1>1, <2>4 DEF SaveGraph, TypeInv, TypeOK
  <2> QED BY <1>3, <2>3, <2>5
<1> QED BY <1>2, <1>3


LEMMA FrozenHost ==
  ASSUME TypeInv, FrozenInv, Host
  PROVE  FrozenInv'
<1>1. ASSUME NEW c \in Calls, NEW s, NEW op, NEW first, NEW last, NEW q, NEW b,
             NEW pc \in {"ingest", "flush"},
             Begin(c, s, op, pc, first, last, q, b)
      PROVE  FrozenInv'
  <2> DEFINE k == [pc |-> pc, op |-> op, s |-> s, next |-> first, last |-> last,
                   base |-> first, query |-> q, limit |-> b, pack |-> EmptyPack]
  <2>1. call' = [call EXCEPT ![c] = k] /\ k.pc = pc
    BY <1>1 DEF Begin
  <2> HIDE DEF k
  <2>2. \A d \in Calls : Frozen(d)' => Frozen(d) /\ Sess(d)' = Sess(d)
    BY <2>1 DEF Frozen, At, Sess, TypeInv, TypeOK
  <2>3. UNCHANGED <<file, intact>>
    BY <1>1 DEF Begin, history, disk
  <2> QED BY <2>2, <2>3, FrozenQuiet
<1>2. ASSUME NEW s \in Sessions, HostLogs(s) \/ HostTrims(s) PROVE FrozenInv'
  <2>1. UNCHANGED <<call, file, intact>>
    BY <1>2 DEF HostLogs, HostTrims, history, disk
  <2> QED BY <2>1 DEF FrozenInv, Frozen, At, Sess
<1> QED
  BY <1>1, <1>2
  DEF Host, Ingest, IngestBatch, Assemble, Bootstrap, Compact, ForceFlush

(* A call that goes on becomes frozen only by its own flush. *)
LEMMA FrozenMoves ==
  ASSUME TypeInv, NEW c \in Calls, Resume(c) \/ PackerSample(c) \/ Fails(c)
  PROVE  \A d \in Calls : Frozen(d)' => Frozen(d) /\ Sess(d)' = Sess(d)
<1>1. /\ call[c] # NoCall /\ call[c] \in CallState
      /\ \A d \in Calls \ {c} : call'[d] = call[d]
  <2>1. Resume(c) \/ PackerWorks(c) \/ Fails(c)
    BY DEF PackerWorks
  <2> QED BY <2>1, ProceedMoves
<1>2. ASSUME Frozen(c)' PROVE Frozen(c) /\ Sess(c)' = Sess(c)
  <2>1. CASE SkipItem(c) \/ MarkIngested(c)
    BY <1>1, <1>2, <2>1
    DEF SkipItem, MarkIngested, HasItem, Frozen, At, TypeInv, TypeOK, CallState
  <2>2. CASE SendStep(c) \/ RememberPack(c) \/ RewriteTranscript(c)
    BY <1>1, <1>2, <2>2
    DEF SendStep, RememberPack, RewriteTranscript, Goto, Frozen, At, TypeInv, TypeOK,
       CallState
  <2>3. CASE \/ BatchReturns(c) \/ TakePrompt(c) \/ FlushReturns(c)
             \/ CompactThrows(c) \/ CompactReturns(c)
             \/ Reject(c) \/ StepThrows(c) \/ ErrorAfterEffect(c) \/ Timeout(c)
    BY <1>2, <2>3 DEF BatchReturns, TakePrompt, FlushReturns, CompactThrows,
       CompactReturns, Reject, StepThrows, ErrorAfterEffect, Timeout, Finish,
       Frozen, At, TypeInv, TypeOK
  <2>4. CASE CachedPack(c) \/ SendSample(c)
    BY <1>1, <1>2, <2>4 DEF CachedPack, SendSample, AtLookup, Frozen, At, TypeInv,
       TypeOK, CallState
  <2>5. CASE SnapshotAndSample(c)
    BY <1>1, <2>5 DEF SnapshotAndSample, Frozen, At, Sess, TypeInv, TypeOK, CallState
  <2>6. CASE PackerSample(c)
    BY <1>1, <1>2, <2>6, SampledPack DEF PackerSample, Frozen, At, Sess
  <2> QED BY <2>1, <2>2, <2>3, <2>4, <2>5, <2>6 DEF Resume, Fails
<1> QED BY <1>1, <1>2 DEF Frozen, At, Sess

LEMMA FrozenStep ==
  TypeInv /\ Alone /\ "flush" \notin Ops /\ FrozenInv /\ [Next]_vars => FrozenInv'
<1> SUFFICES ASSUME TypeInv, Alone, "flush" \notin Ops, FrozenInv, [Next]_vars
             PROVE  FrozenInv'
  OBVIOUS
<1>1. CASE UNCHANGED vars
  BY <1>1 DEF vars, history, disk, FrozenInv, Frozen, At, Sess
<1>2. CASE Host
  BY <1>2, FrozenHost
<1>3. CASE Operator \/ \E r \in Sessions : EvictHandle(r)
  <2>1. ASSUME NEW r \in Sessions,
               Purge(r) \/ EvictHandle(r) \/ \E b \in Budgets : SwitchProfile(r, b)
        PROVE  FrozenInv'
    <3>1. \A d \in Calls : Frozen(d)' => Frozen(d) /\ Sess(d)' = Sess(d)
      BY <2>1 DEF Purge, EvictHandle, SwitchProfile, Frozen, At, Sess
    <3>2. \A s \in Sessions : intact'[s] => intact[s] /\ file'[s] = file[s]
      BY <2>1 DEF Purge, EvictHandle, SwitchProfile, history, disk, TypeInv, TypeOK
    <3> QED BY <3>1, <3>2, FrozenQuiet
  <2> QED BY <1>3, <2>1 DEF Operator
<1>4. CASE Crash \/ Reload
  BY <1>4 DEF Crash, Reload, Restart, FrozenInv, Frozen, At
<1>5. ASSUME NEW c \in Calls, Proceed(c) PROVE FrozenInv'
  <2>1. CASE Resume(c) \/ PackerSample(c) \/ Fails(c)
    <3>1. file' = file
      BY <2>1
      DEF Resume, Fails, SkipItem, SendStep, MarkIngested, BatchReturns, CachedPack,
         SendSample, RememberPack, TakePrompt, FlushReturns, SnapshotAndSample,
         RewriteTranscript, CompactThrows, CompactReturns, PackerSample, Reject,
         StepThrows, ErrorAfterEffect, Timeout, disk
    <3>2. \A s \in Sessions : intact'[s] => intact[s]
      BY <2>1
      DEF Resume, Fails, SkipItem, SendStep, MarkIngested, BatchReturns, CachedPack,
         SendSample, RememberPack, TakePrompt, FlushReturns, SnapshotAndSample,
         RewriteTranscript, CompactThrows, CompactReturns, PackerSample, Reject,
         StepThrows, ErrorAfterEffect, Timeout, history, HandlesDie
    <3> QED BY <2>1, <3>1, <3>2, FrozenMoves, FrozenQuiet
  <2>2. CASE PackerWorks(c) /\ ~PackerSample(c)
    BY <2>2, FrozenWrites DEF PackerWorks
  <2> QED BY <1>5, <2>1, <2>2 DEF Proceed
<1> QED BY <1>1, <1>2, <1>3, <1>4, <1>5 DEF Next

(* A compaction with an empty checkpoint takes nothing from the transcript of a     *)
(* session of which anything was ingested, where the host awaits its calls and the  *)
(* operator does not flush beside it: such a flush that fails in the middle can     *)
(* leave the blank file that looks empty to the guard (compact.ts CompactError).    *)
THEOREM CompactionNeedsCheckpoint ==
  ASSUME Serial, "flush" \notin Ops
  PROVE  Spec => CompactKeepsMemory
<1>1. Init => Alone /\ FrozenInv
  BY OnceInit DEF Init, FrozenInv, Frozen, At
<1>2. TypeInv /\ Alone /\ FrozenInv /\ [Next]_vars => Alone' /\ FrozenInv'
  BY AloneStep, FrozenStep
<1> DEFINE Keeping == \A c \in Calls : (Empties(c) /\ Rewrites(c) /\ intact[Sess(c)])
                                         => fence[Sess(c)] = {}
<1>3. TypeInv /\ FenceInv /\ FrozenInv /\ [Next]_vars => [Keeping]_vars
  <2> SUFFICES ASSUME TypeInv, FenceInv, FrozenInv, Next, NEW c \in Calls, Empties(c),
                      Rewrites(c), intact[Sess(c)]
               PROVE  fence[Sess(c)] = {}
    OBVIOUS
  <2>1. call[c] # NoCall /\ call'[c] # NoCall /\ call'[c] # call[c]
        /\ call'[c].pc = "rewritten" /\ Sess(c) \in Sessions
    BY CallTyped DEF Empties, Rewrites, At, Sess
  <2>2. PICK d \in Calls : Proceed(d)
    BY <2>1
    DEF Next, Operator, Host, Purge, SwitchProfile, EvictHandle, Crash, Reload,
       Restart, HostLogs, HostTrims, Ingest, IngestBatch, Assemble, Bootstrap,
       Compact, ForceFlush, Begin, TypeInv, TypeOK
  <2>3. d = c
    BY <2>1, <2>2, ProceedMoves DEF Proceed
  <2>4. RewriteTranscript(c)
    <3>1. At(c, {"sampled"}) /\ call[c].op = "compact"
      BY DEF Empties
    <3>2. ~BatchReturns(c) /\ ~CompactThrows(c) /\ ~Fails(c)
      BY <2>1 DEF BatchReturns, CompactThrows, Fails, Reject, StepThrows,
         ErrorAfterEffect, Timeout, Finish, TypeInv, TypeOK
    <3> QED BY <2>2, <2>3, <3>1, <3>2
            DEF Proceed, Resume, PackerWorks, SkipItem, SendStep, MarkIngested,
               CachedPack, SendSample, RememberPack, TakePrompt, FlushReturns,
               SnapshotAndSample, CompactReturns, PackerStep, SaveGraph,
               PackerSample, PackerFlush, HasItem, AtLookup, At
  <2>5. ~LooksNonempty(Sess(c)) /\ file[Sess(c)] \in {"whole", "absent"}
    BY <2>4 DEF RewriteTranscript, Empties, FrozenInv, Frozen, At
  <2>6. SessionOK(Sess(c))
    BY <2>1 DEF FenceInv
  <2>7. CASE file[Sess(c)] = "whole"
    BY <2>5, <2>6, <2>7, BehindMsgs DEF SessionOK, FenceOK, Backed, LooksNonempty
  <2>8. CASE file[Sess(c)] = "absent"
    BY <2>6, <2>8 DEF SessionOK, FileOK
  <2> QED BY <2>5, <2>7, <2>8
<1>4. Spec => [][Keeping]_vars
  BY <1>1, <1>2, <1>3, Typed, FenceAlways, PTL DEF Spec
<1> QED BY <1>4 DEF CompactKeepsMemory

=============================================================================
