----------------------------- MODULE EngineHost -----------------------------
(***************************************************************************)
(* The engine host of the compressor plugin: the calls OpenClaw makes      *)
(* (bootstrap, ingest, ingestBatch, assemble, compact) and the operator's   *)
(* (flush, profile, purge), over one packer, with the state they share for  *)
(* each session:                                                            *)
(*   - the ingest fence, table ingested_messages of the session's           *)
(*     meta.sqlite (meta-store.ts);                                         *)
(*   - the packer's working graph and the graph.json it is saved to         *)
(*     (ts-engine/handle.ts, engine/.../handle.py);                         *)
(*   - the pack cache in RAM (pack-cache.ts).                               *)
(* A call is a JavaScript async function: it runs without interruption from *)
(* one await to the next, and other calls run in between.  One action below *)
(* is one such stretch, or one stretch of the packer's own work.  graph.json*)
(* is rewritten in place, so a save is two steps with a torn file between.  *)
(*                                                                         *)
(* Data.  A message is its number in the session's transcript.  A graph is  *)
(* the number of times each message was stepped into it.  A pack is the set *)
(* of messages its graph held, whether it has any text, and its size in     *)
(* tokens: the whole budget, as when the graph has more than fits.          *)
(***************************************************************************)
EXTENDS Integers, FiniteSets

CONSTANTS
  Sessions,      \* graph roots (ids.ts graphRoot)
  Calls,         \* host calls that can be in flight together
  Length,           \* messages in a transcript: bounds logged
  HostId,        \* [1..Length -> id the host gives, or NoId]
  Body,          \* [1..Length -> role and content]
  Skipped,       \* heartbeats, bystanders, compaction notices
  Queries,       \* prompts; two different ones are below the Jaccard threshold
  Budgets,       \* values of config.forwardBudget and of tokenBudget
  NoId, NoPack, NoCall,
  Impl,          \* config.engineImpl: "sidecar" or "ts"
  Serial,        \* TRUE: the host awaits one call of a session before the next
  Ops,           \* the operations the host and the operator use
  Faults,        \* what may go wrong
  MaxCalls       \* bounds the calls begun

Msgs == 1..Length
AllOps == {"ingest", "batch", "assemble", "bootstrap", "compact", "flush",
           "profile", "purge", "trim"}
AllFaults == {"reject", "error", "timeout", "evict", "crash", "reload"}

ASSUME EngineAssumption ==
  /\ Length \in Nat /\ MaxCalls \in Nat
  /\ Skipped \subseteq Msgs
  /\ Budgets \subseteq Nat /\ Budgets # {} /\ Queries # {}
  /\ Impl \in {"sidecar", "ts"} /\ Serial \in BOOLEAN
  /\ Ops \subseteq AllOps /\ Faults \subseteq AllFaults

-----------------------------------------------------------------------------
(* Identity of a message in the fence: the host's id, else a hash of role,  *)
(* content and its index in the array it was passed in.                     *)
Key(m, i) == IF HostId[m] # NoId THEN <<"id", HostId[m]>>
                                 ELSE <<"hash", Body[m], i>>
Keys == {Key(m, i) : m \in Msgs, i \in 0..Length}

Graph == [Msgs -> Nat]
NoGraph == [m \in Msgs |-> 0]
Pack == [seen : SUBSET Msgs, text : BOOLEAN, skip : BOOLEAN, tokens : Nat]
Remembered == [query : Queries, pack : Pack]

VARIABLES
  logged,        \* messages of the transcript the host has so far
  trimmed,       \* leading ones compaction took out of the visible transcript
  begun,         \* calls begun, at most MaxCalls
  call,          \* the call each slot of Calls is running
  fence,         \* ingested_messages, as the open connection sees it
  meta,          \* the MetaStore: closed, open, or open with its file unlinked
  live,          \* a handle is in memory in the packer
  mem,           \* the graph of that handle
  file,          \* graph.json: absent, blank, torn or whole
  saved,         \* what graph.json holds when it is whole
  injected,      \* inject_history.json has a row
  spanned,       \* a .spans.json file is there
  cache,         \* the remembered pack
  forward,       \* config.forwardBudget
  packerUp,      \* the packer accepts requests
  \* history, read by properties only
  intact,        \* no purge, no restart over a torn or forgotten graph so far
  unsure         \* messages with a step whose outcome the host never learned

vars == <<logged, trimmed, begun, call, fence, meta, live, mem, file, saved,
          injected, spanned, cache, forward, packerUp, intact, unsure>>
transcript == <<logged, trimmed>>
disk == <<file, saved, injected, spanned>>
history == <<intact, unsure>>

PCs == {"ingest", "step", "save", "reply", "sample", "sampled",
        "flush", "flushing", "flushed", "rewritten", "returned"}
CallState ==
  [pc : PCs, op : Ops, s : Sessions, next : Nat, last : Nat,
   base : Nat, query : Queries, limit : Nat, pack : Pack]
ASSUME NoCallAssumption == NoCall \notin CallState

TypeOK ==
  /\ logged \in [Sessions -> Nat] /\ trimmed \in [Sessions -> Nat]
  /\ \A s \in Sessions : trimmed[s] <= logged[s] /\ logged[s] <= Length
  /\ begun \in Nat
  /\ call \in [Calls -> CallState \cup {NoCall}]
  /\ fence \in [Sessions -> SUBSET Keys]
  /\ meta \in [Sessions -> {"closed", "open", "unlinked"}]
  /\ live \in [Sessions -> BOOLEAN]
  /\ mem \in [Sessions -> Graph] /\ saved \in [Sessions -> Graph]
  /\ file \in [Sessions -> {"absent", "blank", "torn", "whole"}]
  /\ injected \in [Sessions -> BOOLEAN] /\ spanned \in [Sessions -> BOOLEAN]
  /\ cache \in [Sessions -> Remembered \cup {NoPack}]
  /\ forward \in Budgets /\ packerUp \in BOOLEAN
  /\ intact \in [Sessions -> BOOLEAN]
  /\ unsure \in [Sessions -> SUBSET Msgs]

-----------------------------------------------------------------------------
(* Helpers. *)
EmptyPack == [seen |-> {}, text |-> FALSE, skip |-> FALSE, tokens |-> 0]

At(c, pcs) == call[c] # NoCall /\ call[c].pc \in pcs
Sess(c) == call[c].s
Item(c) == call[c].next
ItemKey(c) == Key(call[c].next, call[c].next - call[c].base)
Finish(c) == [call EXCEPT ![c] = NoCall]
Goto(c, pc) == [call EXCEPT ![c].pc = pc]

Active(s) == {c \in Calls : call[c] # NoCall /\ call[c].s = s}

\* The packer does one thing at a time: TsPacker runs to its end inside the call,
\* the sidecar client's mutex sends a request once the last one is settled.
PackerFree == \A c \in Calls : ~At(c, {"save", "flushing"})
\* The host's thread is free.  TsPacker keeps it from the call to the answer.
ThreadFree ==
  Impl = "ts" => \A c \in Calls : ~At(c, {"step", "save", "sample", "flush",
                                          "flushing"})

\* What a handle starts from.  TsPacker: CtxGraph.tryLoad, empty unless the file
\* parses.  claw_cli._get_handle passes no graph: the handle starts empty.
Loaded(s) == IF Impl = "ts" /\ file[s] = "whole" THEN saved[s] ELSE NoGraph
Working(s) == IF live[s] THEN mem[s] ELSE Loaded(s)

\* graphLooksNonempty: nodes in the file, or text in it that does not parse.
LooksNonempty(s) == \/ file[s] = "torn"
                    \/ file[s] = "whole" /\ \E m \in Msgs : saved[s][m] > 0
\* The nodes a pack could be made of.
Held(g) == {m \in Msgs : g[m] > 0}
MinOf(a, b) == IF a < b THEN a ELSE b

\* The handles die.  A graph.json left behind half-written, or one the next handle
\* will not read, harms the session; so does nothing else.
Harmed(s) == \/ file[s] \in {"blank", "torn"}
             \/ Impl = "sidecar" /\ live[s]
HandlesDie ==
  /\ live' = [s \in Sessions |-> FALSE]
  /\ intact' = [s \in Sessions |-> intact[s] /\ ~Harmed(s)]

-----------------------------------------------------------------------------
Init ==
  /\ logged = [s \in Sessions |-> 0] /\ trimmed = [s \in Sessions |-> 0]
  /\ begun = 0
  /\ call = [c \in Calls |-> NoCall]
  /\ fence = [s \in Sessions |-> {}]
  /\ meta = [s \in Sessions |-> "closed"]
  /\ live = [s \in Sessions |-> FALSE]
  /\ mem = [s \in Sessions |-> NoGraph] /\ saved = [s \in Sessions |-> NoGraph]
  /\ file = [s \in Sessions |-> "absent"]
  /\ injected = [s \in Sessions |-> FALSE] /\ spanned = [s \in Sessions |-> FALSE]
  /\ cache = [s \in Sessions |-> NoPack]
  /\ forward \in Budgets /\ packerUp = TRUE
  /\ intact = [s \in Sessions |-> TRUE]
  /\ unsure = [s \in Sessions |-> {}]

-----------------------------------------------------------------------------
(* The host. *)

\* The gateway appends a message to the session's transcript.
HostLogs(s) ==
  /\ logged[s] < Length
  /\ logged' = [logged EXCEPT ![s] = @ + 1]
  /\ UNCHANGED <<trimmed, begun, call, fence, meta, live, mem, disk, cache,
                 forward, packerUp, history>>

\* The visible transcript loses its oldest message.
HostTrims(s) ==
  /\ "trim" \in Ops /\ trimmed[s] < logged[s]
  /\ trimmed' = [trimmed EXCEPT ![s] = @ + 1]
  /\ UNCHANGED <<logged, begun, call, fence, meta, live, mem, disk, cache,
                 forward, packerUp, history>>

\* A call begins: makeCtx opens the session's MetaStore; the operator's flush goes
\* to the packer directly, and waits for nobody.
Begin(c, s, op, pc, first, last, q, limit) ==
  /\ op \in Ops /\ call[c] = NoCall /\ begun < MaxCalls
  /\ Serial /\ op # "flush" => \A d \in Active(s) : call[d].op = "flush"
  /\ begun' = begun + 1
  /\ call' = [call EXCEPT ![c] =
                [pc |-> pc, op |-> op, s |-> s, next |-> first, last |-> last,
                 base |-> first, query |-> q, limit |-> limit,
                 pack |-> EmptyPack]]
  /\ meta' = [meta EXCEPT ![s] = IF @ = "closed" /\ op # "flush" THEN "open" ELSE @]
  /\ UNCHANGED <<transcript, fence, live, mem, disk, cache, forward, packerUp,
                 history>>

\* host.ingest: one message, index 0.
Ingest(c, s, m) ==
  /\ m \in (trimmed[s] + 1)..logged[s]
  /\ \E q \in Queries : Begin(c, s, "ingest", "ingest", m, m, q, 0)

\* host.ingestBatch: the newest messages, their indices counted from the first.
IngestBatch(c, s, m) ==
  /\ m \in (trimmed[s] + 1)..logged[s]
  /\ \E q \in Queries : Begin(c, s, "batch", "ingest", m, logged[s], q, 0)

\* host.assemble: the whole visible transcript.
Assemble(c, s, q, limit) ==
  Begin(c, s, "assemble", "ingest", trimmed[s] + 1, logged[s], q, limit)

\* host.bootstrap: recovery by ingestBatch, only when graph.json looks empty.
Bootstrap(c, s) ==
  /\ trimmed[s] < logged[s] /\ ~LooksNonempty(s)
  /\ \E q \in Queries :
       Begin(c, s, "bootstrap", "ingest", trimmed[s] + 1, logged[s], q, 0)

Compact(c, s, q) == Begin(c, s, "compact", "flush", 1, 0, q, 0)
ForceFlush(c, s) == \E q \in Queries : Begin(c, s, "flush", "flush", 1, 0, q, 0)

-----------------------------------------------------------------------------
(* The ingest loop (ingest.ts), shared by ingest, ingestBatch, assemble and  *)
(* bootstrap.                                                               *)
HasItem(c) == At(c, {"ingest"}) /\ call[c].next <= call[c].last

\* A heartbeat, bystander or notice, or alreadyIngested.
SkipItem(c) ==
  /\ HasItem(c)
  /\ Item(c) \in Skipped \/ ItemKey(c) \in fence[Sess(c)]
  /\ call' = [call EXCEPT ![c].next = @ + 1]
  /\ UNCHANGED <<transcript, begun, fence, meta, live, mem, disk, cache,
                 forward, packerUp, history>>

\* Mutant: the row is written before the step is awaited.
MarksFirst(c) ==
  /\ HasItem(c)
  /\ Item(c) \notin Skipped /\ ItemKey(c) \notin fence[Sess(c)]
  /\ fence' = [fence EXCEPT ![Sess(c)] = @ \cup {ItemKey(c)}]
  /\ call' = Goto(c, "step")
  /\ UNCHANGED <<transcript, begun, meta, live, mem, disk, cache,
                 forward, packerUp, history>>

\* Not fenced: packer.step is called and awaited.
SendStep(c) ==
  /\ HasItem(c)
  /\ Item(c) \notin Skipped /\ ItemKey(c) \notin fence[Sess(c)]
  /\ call' = Goto(c, "step")
  /\ UNCHANGED <<transcript, begun, fence, meta, live, mem, disk, cache,
                 forward, packerUp, history>>

\* The packer ingests the turn into its graph.
Stepped(c) == [mem EXCEPT ![Sess(c)] =
                 [Working(Sess(c)) EXCEPT ![Item(c)] = @ + 1]]

\* It does, and opens graph.json for writing.
PackerStep(c) ==
  /\ At(c, {"step"}) /\ packerUp /\ PackerFree
  /\ mem' = Stepped(c)
  /\ live' = [live EXCEPT ![Sess(c)] = TRUE]
  /\ \E f \in {"blank", "torn"} : file' = [file EXCEPT ![Sess(c)] = f]
  /\ call' = Goto(c, "save")
  /\ UNCHANGED <<transcript, begun, fence, meta, saved, injected, spanned, cache,
                 forward, packerUp, intact, unsure>>

\* The write ends; a purge in between unlinked the file it went to.  A step leaves
\* its spans beside it.
SaveGraph(c, from, to) ==
  LET s == Sess(c) IN
  /\ At(c, {from})
  /\ IF file[s] = "absent" THEN UNCHANGED <<file, saved>>
     ELSE /\ file' = [file EXCEPT ![s] = "whole"]
          /\ saved' = [saved EXCEPT ![s] = mem[s]]
  /\ spanned' = [spanned EXCEPT ![s] = @ \/ from = "save"]
  /\ call' = Goto(c, to)
  /\ UNCHANGED <<transcript, begun, fence, meta, live, mem, injected, cache,
                 forward, packerUp, history>>

\* Mutants: the recovery batch does not write rows; the cache is not invalidated.
RecoversUnmarked(c) ==
  /\ At(c, {"reply"})
  /\ fence' = IF call[c].op = "bootstrap" THEN fence
              ELSE [fence EXCEPT ![Sess(c)] = @ \cup {ItemKey(c)}]
  /\ cache' = [cache EXCEPT ![Sess(c)] = NoPack]
  /\ call' = [call EXCEPT ![c].pc = "ingest", ![c].next = @ + 1]
  /\ UNCHANGED <<transcript, begun, meta, live, mem, disk, forward, packerUp,
                 history>>
KeepsCache(c) ==
  /\ At(c, {"reply"})
  /\ fence' = [fence EXCEPT ![Sess(c)] = @ \cup {ItemKey(c)}]
  /\ call' = [call EXCEPT ![c].pc = "ingest", ![c].next = @ + 1]
  /\ UNCHANGED <<transcript, begun, meta, live, mem, disk, cache, forward,
                 packerUp, history>>

\* The step is answered: markIngested, then invalidatePackCache.
MarkIngested(c) ==
  /\ At(c, {"reply"})
  /\ fence' = [fence EXCEPT ![Sess(c)] = @ \cup {ItemKey(c)}]
  /\ cache' = [cache EXCEPT ![Sess(c)] = NoPack]
  /\ call' = [call EXCEPT ![c].pc = "ingest", ![c].next = @ + 1]
  /\ UNCHANGED <<transcript, begun, meta, live, mem, disk, forward, packerUp,
                 history>>

\* ingest, ingestBatch and bootstrap resolve.
BatchReturns(c) ==
  /\ At(c, {"ingest"}) /\ call[c].next > call[c].last
  /\ call[c].op \in {"ingest", "batch", "bootstrap"}
  /\ call' = Finish(c)
  /\ UNCHANGED <<transcript, begun, fence, meta, live, mem, disk, cache,
                 forward, packerUp, history>>

-----------------------------------------------------------------------------
(* assemble, after its batch (assemble.ts, pack-cache.ts). *)
\* Mutant: the batch ends one message early.
EndsEarly(c) ==
  At(c, {"ingest"}) /\ call[c].op = "assemble" /\ call[c].next >= call[c].last
AtLookup(c) ==
  At(c, {"ingest"}) /\ call[c].op = "assemble" /\ call[c].next > call[c].last
Hit(c) == /\ cache[Sess(c)] # NoPack
          /\ cache[Sess(c)].query = call[c].query

\* Mutant: the cache entry is returned in place of its pack.
ReturnsEntry(c) ==
  /\ AtLookup(c) /\ Hit(c)
  /\ call' = [call EXCEPT ![c].pc = "returned",
                          ![c].pack = cache[Sess(c)],
                          ![c].limit = MinOf(forward, @)]
  /\ UNCHANGED <<transcript, begun, fence, meta, live, mem, disk, cache,
                 forward, packerUp, history>>

\* tryPackCacheSkip hits: the pack is what was remembered, whatever its budget.
CachedPack(c) ==
  /\ AtLookup(c) /\ Hit(c)
  /\ call' = [call EXCEPT ![c].pc = "returned",
                          ![c].pack = cache[Sess(c)].pack,
                          ![c].limit = MinOf(forward, @)]
  /\ UNCHANGED <<transcript, begun, fence, meta, live, mem, disk, cache,
                 forward, packerUp, history>>

\* It misses: packer.sample is called with the pack budget.
SendSample(c) ==
  /\ AtLookup(c) /\ ~Hit(c)
  /\ call' = [call EXCEPT ![c].pc = "sample", ![c].limit = MinOf(forward, @)]
  /\ UNCHANGED <<transcript, begun, fence, meta, live, mem, disk, cache,
                 forward, packerUp, history>>

\* The packer packs its graph and, with matrixSpanReadout on, the spans on disk.
\* Once something was injected it may answer "skip" with no text: too little of it
\* is new.
PackOf(c, skip, text) ==
  [seen |-> IF skip THEN {} ELSE Held(Working(Sess(c))), text |-> text,
   skip |-> skip, tokens |-> IF text THEN call[c].limit ELSE 0]

PackerSample(c) ==
  LET s == Sess(c) IN
  /\ At(c, {"sample"}) /\ packerUp /\ PackerFree
  /\ mem' = [mem EXCEPT ![s] = Working(s)]
  /\ live' = [live EXCEPT ![s] = TRUE]
  /\ \E skip, text \in BOOLEAN :
       /\ skip => injected[s] /\ ~text
       /\ ~skip /\ Held(Working(s)) # {} => text
       /\ ~skip /\ Held(Working(s)) = {} /\ text => spanned[s]
       /\ call' = [call EXCEPT ![c].pc = "sampled",
                               ![c].pack = PackOf(c, skip, text)]
       /\ injected' = [injected EXCEPT ![s] = @ \/ text]
  /\ UNCHANGED <<transcript, begun, fence, meta, file, saved, spanned, cache,
                 forward, packerUp, history>>

\* assemble resumes: rememberPack, then the result.
RememberPack(c) ==
  /\ At(c, {"sampled"}) /\ call[c].op = "assemble"
  /\ cache' = IF call[c].pack.skip THEN cache
              ELSE [cache EXCEPT ![Sess(c)] =
                      [query |-> call[c].query, pack |-> call[c].pack]]
  /\ call' = Goto(c, "returned")
  /\ UNCHANGED <<transcript, begun, fence, meta, live, mem, disk, forward,
                 packerUp, history>>

\* The host takes the prompt.
TakePrompt(c) ==
  /\ At(c, {"returned"})
  /\ call' = Finish(c)
  /\ UNCHANGED <<transcript, begun, fence, meta, live, mem, disk, cache,
                 forward, packerUp, history>>

-----------------------------------------------------------------------------
(* compact (compact.ts) and the operator's flush (manage.ts forceFlush). *)
PackerFlush(c) ==
  LET s == Sess(c) IN
  /\ At(c, {"flush"}) /\ packerUp /\ PackerFree
  /\ mem' = [mem EXCEPT ![s] = Working(s)]
  /\ live' = [live EXCEPT ![s] = TRUE]
  /\ \E f \in {"blank", "torn"} : file' = [file EXCEPT ![s] = f]
  /\ call' = Goto(c, "flushing")
  /\ UNCHANGED <<transcript, begun, fence, meta, saved, injected, spanned,
                 cache, forward, packerUp, history>>

FlushReturns(c) ==
  /\ At(c, {"flushed"}) /\ call[c].op = "flush"
  /\ cache' = [cache EXCEPT ![Sess(c)] = NoPack]
  /\ call' = Finish(c)
  /\ UNCHANGED <<transcript, begun, fence, meta, live, mem, disk, forward,
                 packerUp, history>>

\* freezePrecompactSnapshot copies files aside, then the sample is requested.
SnapshotAndSample(c) ==
  /\ At(c, {"flushed"}) /\ call[c].op = "compact"
  /\ call' = [call EXCEPT ![c].pc = "sample", ![c].limit = forward]
  /\ UNCHANGED <<transcript, begun, fence, meta, live, mem, disk, cache,
                 forward, packerUp, history>>

EmptyEntry(c) == ~call[c].pack.text

\* Mutant: an empty checkpoint is as good as any.
RewritesAnyway(c) ==
  /\ At(c, {"sampled"}) /\ call[c].op = "compact"
  /\ \E t \in trimmed[Sess(c)]..logged[Sess(c)] :
       trimmed' = [trimmed EXCEPT ![Sess(c)] = t]
  /\ call' = Goto(c, "rewritten")
  /\ UNCHANGED <<logged, begun, fence, meta, live, mem, disk, cache, forward,
                 packerUp, history>>

\* The checkpoint replaces messages of the transcript; none, without the hook.
RewriteTranscript(c) ==
  LET s == Sess(c) IN
  /\ At(c, {"sampled"}) /\ call[c].op = "compact"
  /\ ~(EmptyEntry(c) /\ LooksNonempty(s))
  /\ \E t \in trimmed[s]..logged[s] : trimmed' = [trimmed EXCEPT ![s] = t]
  /\ call' = Goto(c, "rewritten")
  /\ UNCHANGED <<logged, begun, fence, meta, live, mem, disk, cache, forward,
                 packerUp, history>>

\* CompactError: an empty entry over a graph that looks nonempty.
CompactThrows(c) ==
  /\ At(c, {"sampled"}) /\ call[c].op = "compact"
  /\ EmptyEntry(c) /\ LooksNonempty(Sess(c))
  /\ call' = Finish(c)
  /\ UNCHANGED <<transcript, begun, fence, meta, live, mem, disk, cache,
                 forward, packerUp, history>>

CompactReturns(c) ==
  /\ At(c, {"rewritten"})
  /\ cache' = [cache EXCEPT ![Sess(c)] = NoPack]
  /\ call' = Finish(c)
  /\ UNCHANGED <<transcript, begun, fence, meta, live, mem, disk, forward,
                 packerUp, history>>

-----------------------------------------------------------------------------
(* The operator: synchronous handlers (manage.ts). *)

\* switchProfile changes the one config, and forgets the named session's pack.
SwitchProfile(s, b) ==
  /\ "profile" \in Ops /\ b # forward
  /\ forward' = b
  /\ cache' = [cache EXCEPT ![s] = NoPack]
  /\ UNCHANGED <<transcript, begun, call, fence, meta, live, mem, disk,
                 packerUp, history>>

\* purgeSession removes the directory: graph.json, meta.sqlite, history and spans.
\* An open connection and a live handle keep what they have.
Purge(s) ==
  /\ "purge" \in Ops
  /\ file[s] # "absent" \/ meta[s] = "open" \/ fence[s] # {}
  /\ meta' = [meta EXCEPT ![s] = IF @ = "closed" THEN @ ELSE "unlinked"]
  /\ fence' = [fence EXCEPT ![s] = IF meta[s] = "closed" THEN {} ELSE @]
  /\ file' = [file EXCEPT ![s] = "absent"]
  /\ saved' = [saved EXCEPT ![s] = NoGraph]
  /\ injected' = [injected EXCEPT ![s] = FALSE]
  /\ spanned' = [spanned EXCEPT ![s] = FALSE]
  /\ cache' = [cache EXCEPT ![s] = NoPack]
  /\ intact' = [intact EXCEPT ![s] = FALSE]
  /\ UNCHANGED <<transcript, begun, call, live, mem, forward, packerUp, unsure>>

-----------------------------------------------------------------------------
(* What goes wrong. *)
\* A step was applied and its acknowledgement never reaches markIngested.
Unacked(c) == IF At(c, {"save", "reply"}) THEN {Item(c)} ELSE {}

\* Mutants: a failed step is marked too; a request to a dead packer is not failed.
MarksRejected(c) ==
  /\ At(c, {"step", "sample", "flush"})
  /\ "reject" \in Faults \/ ~packerUp
  /\ call' = Finish(c)
  /\ fence' = IF At(c, {"step"})
              THEN [fence EXCEPT ![Sess(c)] = @ \cup {ItemKey(c)}] ELSE fence
  /\ UNCHANGED <<transcript, begun, meta, live, mem, disk, cache, forward,
                 packerUp, history>>
HangsWhenDead(c) ==
  /\ At(c, {"step", "sample", "flush"}) /\ packerUp
  /\ "reject" \in Faults
  /\ call' = Finish(c)
  /\ UNCHANGED <<transcript, begun, fence, meta, live, mem, disk, cache,
                 forward, packerUp, history>>

\* The request is answered with an error, or there is no packer to send it to.
Reject(c) ==
  /\ At(c, {"step", "sample", "flush"})
  /\ "reject" \in Faults \/ ~packerUp
  /\ call' = Finish(c)
  /\ UNCHANGED <<transcript, begun, fence, meta, live, mem, disk, cache,
                 forward, packerUp, history>>

\* The graph has the turn, but graph.json could not be opened.
StepThrows(c) ==
  LET s == Sess(c) IN
  /\ "error" \in Faults /\ At(c, {"step"}) /\ packerUp /\ PackerFree
  /\ mem' = Stepped(c)
  /\ live' = [live EXCEPT ![s] = TRUE]
  /\ unsure' = [unsure EXCEPT ![s] = @ \cup {Item(c)}]
  /\ call' = Finish(c)
  /\ UNCHANGED <<transcript, begun, fence, meta, disk, cache, forward, packerUp,
                 intact>>

\* The packer throws while it writes graph.json, or after that (the state row, the
\* spans, the versioned copy).
ErrorAfterEffect(c) ==
  /\ "error" \in Faults
  /\ At(c, {"save", "reply", "flushing", "flushed"})
  /\ unsure' = [unsure EXCEPT ![Sess(c)] = @ \cup Unacked(c)]
  /\ call' = Finish(c)
  /\ UNCHANGED <<transcript, begun, fence, meta, live, mem, disk, cache,
                 forward, packerUp, intact>>

\* A request times out, and the client kills the sidecar, whatever it is doing.  A
\* sidecar that died by itself is noticed the same way.
Timeout(c) ==
  /\ "timeout" \in Faults /\ Impl = "sidecar" /\ packerUp
  /\ \/ At(c, {"save", "flushing"})
     \/ PackerFree /\ At(c, {"step", "reply", "sample", "sampled", "flush",
                            "flushed"})
  /\ packerUp' = FALSE
  /\ HandlesDie
  /\ unsure' = [unsure EXCEPT ![Sess(c)] = @ \cup Unacked(c)]
  /\ call' = Finish(c)
  /\ UNCHANGED <<transcript, begun, fence, meta, mem, disk, cache, forward>>

\* Another session takes the last of the sidecar's 64 places: _get_handle flushes
\* the oldest handle and drops it.
EvictHandle(s) ==
  /\ "evict" \in Faults /\ Impl = "sidecar" /\ packerUp /\ PackerFree
  /\ live[s]
  /\ live' = [live EXCEPT ![s] = FALSE]
  /\ file' = [file EXCEPT ![s] = "whole"]
  /\ saved' = [saved EXCEPT ![s] = mem[s]]
  /\ intact' = [intact EXCEPT ![s] = FALSE]
  /\ UNCHANGED <<transcript, begun, call, fence, meta, mem, injected, spanned,
                 cache, forward, packerUp, unsure>>

\* All calls in flight are gone; a new host reads its config anew and opens the files
\* there are.
Restart ==
  /\ call' = [c \in Calls |-> NoCall]
  /\ HandlesDie
  /\ fence' = [s \in Sessions |-> IF meta[s] = "unlinked" THEN {} ELSE fence[s]]
  /\ meta' = [s \in Sessions |-> "closed"]
  /\ packerUp' = TRUE
  /\ unsure' = [s \in Sessions |->
                  unsure[s] \cup UNION {Unacked(c) : c \in Active(s)}]
  /\ forward' \in Budgets
  /\ UNCHANGED <<transcript, begun, mem, disk>>

\* The gateway process dies and is started again.
Crash == /\ "crash" \in Faults
         /\ Restart
         /\ cache' = [s \in Sessions |-> NoPack]

\* dispose and a new factory call in one process: the module's cache stays.
Reload == /\ "reload" \in Faults
          /\ Restart
          /\ UNCHANGED cache

-----------------------------------------------------------------------------
Operator == \E s \in Sessions :
              Purge(s) \/ \E b \in Budgets : SwitchProfile(s, b)

Host ==
  \/ \E s \in Sessions : HostLogs(s) \/ HostTrims(s)
  \/ \E c \in Calls, s \in Sessions :
       \/ \E m \in Msgs : Ingest(c, s, m) \/ IngestBatch(c, s, m)
       \/ \E q \in Queries, b \in Budgets : Assemble(c, s, q, b)
       \/ Bootstrap(c, s)
       \/ \E q \in Queries : Compact(c, s, q)
       \/ ForceFlush(c, s)

\* A call's continuation, on the host's thread.
Resume(c) ==
  \/ SkipItem(c) \/ SendStep(c) \/ MarkIngested(c) \/ BatchReturns(c)
  \/ CachedPack(c) \/ SendSample(c) \/ RememberPack(c) \/ TakePrompt(c)
  \/ FlushReturns(c) \/ SnapshotAndSample(c) \/ RewriteTranscript(c)
  \/ CompactThrows(c) \/ CompactReturns(c)

PackerWorks(c) ==
  \/ PackerStep(c) \/ SaveGraph(c, "save", "reply")
  \/ PackerSample(c)
  \/ PackerFlush(c) \/ SaveGraph(c, "flushing", "flushed")

Fails(c) == Reject(c) \/ StepThrows(c) \/ ErrorAfterEffect(c) \/ Timeout(c)

Proceed(c) == (ThreadFree /\ Resume(c)) \/ PackerWorks(c) \/ Fails(c)

Next ==
  \/ ThreadFree /\ (Operator \/ Host \/ Reload)
  \/ \E c \in Calls : Proceed(c)
  \/ \E s \in Sessions : EvictHandle(s)
  \/ Crash

Spec == Init /\ [][Next]_vars

\* A promise's continuation runs, the packer works, and a request without an
\* answer is failed by its timer.
FairSpec == Spec /\ \A c \in Calls : WF_vars(Proceed(c))

-----------------------------------------------------------------------------
(* What the host promises.                                                  *)

\* The host numbers its messages.
HostNames == /\ \A m \in Msgs : HostId[m] # NoId
             /\ \A m, n \in Msgs : HostId[m] = HostId[n] => m = n

\* The messages a fence row may stand for.
Behind(k) == {m \in Msgs : \E i \in 0..Length : Key(m, i) = k}
\* A message is in the graph the packer works with, and in the one on disk.
Backed(s, m) == /\ Working(s)[m] > 0
                /\ file[s] = "whole" => saved[s][m] > 0

\* The fence never runs ahead of the graph.  alreadyIngested makes every later batch
\* pass a message by for good, so a row may be written only once the graph holds the
\* message in memory and in graph.json (ingest.ts awaits the step before it marks).
FenceBacked ==
  \A s \in Sessions : intact[s] =>
    \A k \in fence[s] : \E m \in Behind(k) : Backed(s, m)

\* The same without the allowance for restarts: what the fence says was ingested is
\* in the graph a bootstrapped session works with (SPECS.md: bootstrap loads the
\* graph from disk).
FenceInGraph ==
  \A s \in Sessions : \A k \in fence[s] :
    \E m \in Behind(k) : Working(s)[m] > 0

\* Ingest once: no message is stepped twice into a graph, unless a step was applied
\* and its answer lost, so that the retry could not know (ingest.ts, the fence).
IngestOnce ==
  \A s \in Sessions : intact[s] =>
    \A m \in Msgs \ unsure[s] : Working(s)[m] <= 1

\* A remembered pack is not older than the fence: every message ingested since was
\* followed by invalidatePackCache, so that a cache hit never hides one (pack-cache.ts).
CachedPackSeesFence ==
  \A s \in Sessions : (intact[s] /\ cache[s] # NoPack) =>
    \A k \in fence[s] : Behind(k) \cap cache[s].pack.seen # {}

\* assemble is the prompt: what it returns, sampled or cached, was packed from a graph
\* that held every message it was given, those its own batch ingested and those the
\* fence made it pass by (assemble.ts); a "skip" of the packer says there is no news.
AssembleCoversMessages ==
  \A c \in Calls : At(c, {"returned"}) =>
    LET k == call[c] IN
    (intact[k.s] /\ ~k.pack.skip) => ((k.base..k.last) \ Skipped) \subseteq k.pack.seen

\* The pack of a prompt fits the budget of this prompt, the smaller of forwardBudget
\* and the host's tokenBudget (assemble.ts packBudget).
PackWithinBudget ==
  \A c \in Calls : At(c, {"returned"}) => call[c].pack.tokens <= call[c].limit

\* A compaction that goes through has a checkpoint to put in the place of the messages
\* it takes, or there was nothing to remember (compact.ts CompactError).
Empties(c) == At(c, {"sampled"}) /\ call[c].op = "compact" /\ EmptyEntry(c)
Rewrites(c) == call'[c] # NoCall /\ call'[c].pc = "rewritten"
CompactKeepsMemory ==
  [][\A c \in Calls : (Empties(c) /\ Rewrites(c) /\ intact[Sess(c)])
                        => fence[Sess(c)] = {}]_vars

\* Recovery recovers: a bootstrap that found no graph leaves one that holds the
\* messages it was given, those that rows of the fence made it pass by included
\* (engine.ts bootstrap, recovered: true).  Not asked of a session that was purged, or
\* whose graph.json a crash tore.
BootstrapRecovers ==
  [][\A c \in Calls :
       (At(c, {"ingest"}) /\ call[c].op = "bootstrap" /\ call'[c] = NoCall
          /\ call[c].next > call[c].last /\ intact[Sess(c)])
       => \A m \in (call[c].base..call[c].last) \ Skipped :
             Working(Sess(c))[m] > 0]_vars

\* Every call is answered: by its result, by the packer's error, by its timeout.
EveryCallEnds == \A c \in Calls : (call[c] # NoCall) ~> (call[c] = NoCall)
=============================================================================
