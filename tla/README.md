# OPENCLAW-comPREssOR: specifications and proofs

TLA+ models of the conversation compressor plugin for OpenClaw and of its Python
packer, checked with TLC and, where that is possible, proved with TLAPS. Paths below
are relative to the repository root (`src/engine.ts` is the TypeScript plugin,
`engine/src/chat_compressor/` the Python packer; the latter's files are named without
the directory). The repository holds the packer twice, byte for byte. A module is mapped to
one of the copies: those about the host's sidecar and what it keeps (EngineHost,
SidecarClient, ClawCli, StateDir, CtxGraph) to the published package
(`.clawhub-stage/package/`), the others (HookCli, HotSet, Pack, Forward, Reading, Memory)
to `engine/`.

1. [The system](#1-the-system)
2. [Modules and the code they stand for](#2-modules-and-the-code-they-stand-for)
3. [Runs](#3-runs)
4. [Proofs](#4-proofs)
5. [What the code does against what is said of it](#5-what-the-code-does-against-what-is-said-of-it)
6. [What is not modelled, and why](#6-what-is-not-modelled-and-why)
7. [What is left](#7-what-is-left)

## 1. The system

The plugin is a *context engine* of an OpenClaw gateway. It reads each message of
a session once, keeps what it learned in a graph, and builds each prompt from a
compressed pack of that graph and a verbatim tail of the newest messages.

```
 gateway ──calls──► engine host ──port──► packer ──► graph.json, spans, history
                     │      │              ├ TsPacker, in the host's process
   operator ─────────┘      │              └ sidecar client ──stdio──► Python sidecar
                            ├ ingest fence (meta.sqlite)
                            ├ pack cache (RAM, one per process)
                            └ telemetry tracker (its own store)
```

| Component | State | Operations | What makes it correct |
|---|---|---|---|
| **Engine host** `src/engine.ts` | `started`, one `MetaStore` per session | bootstrap, ingest, ingestBatch, assemble, compact, commitTurn, afterTurn, subagent hooks, dispose | every call ends; the session's state agrees over every interleaving of calls |
| **Ingest and fence** `src/ingest.ts`, `src/meta-store.ts` | `ingested_messages`, `turn_commits` | look up, step, mark, invalidate the cache | a row only for a message the graph holds; no message stepped twice |
| **Assemble, pack cache, tail** `src/assemble.ts`, `src/pack-cache.ts` | one remembered pack per session | ingest the transcript, look up, sample, remember, cut the tail | no prompt from a pack that lacks its messages; budget kept; no tool call parted from its result |
| **Compact** `src/compact.ts` | (none of its own) | flush, freeze, sample, rewrite the transcript | nothing is taken from the transcript without a checkpoint in its place |
| **Operator** `src/manage.ts`, `src/cli.ts` | the configuration in use | profile, force flush, compact, purge | a purge purges; a new profile takes effect |
| **TsPacker** `src/ts-engine/handle.ts`, `graph.ts` | handle and graph in memory, `graph.json` | step, sample, flush | what was acknowledged is on disk |
| **Sidecar client** `src/sidecar/client.ts` | `child`, `dead`, `bootstrapped`, the mutex | start, request, timers, exit handler, dispose | every request settled with its own answer; no process without an owner |
| **Python sidecar** `claw_cli.py` | 64 handles, their graphs, the process's budget | one request at a time: step, sample, flush, expand_spans | as TsPacker; an evicted handle is on disk; a request's budget is its own |
| **State directory** `handle.py`, `store.py` | `graph.json` and its copies, a blob per state, tables of agents, states and spans | step, flush_graph, save, load_latest | the states are an append-only log; `graph.json` holds every turn that has a state |
| **Cursor hooks** `hook_cli.py` | one process per event, over the state directory | prompt, response, compact, session start | the chat goes on whatever fails; what is answered is saved |
| **Context graph** `ts-engine/graph.ts`, `graph.py` | turns, facts, open items, edges | ingestTurn, supersede, prune, hot set | an item's status follows its history; limits kept |
| **Pack** `ts-engine/pack.ts`, `pack.py` | inject history | budget split, dedup, skip | budget kept; nothing left out as injected that was not |
| **Chunks and matrix** `chunks.py`, `compress.py` | rows, tags | cut, tag, append, pool | at most kMax rows, in order; shielded chunks outlive the rest |
| **Telemetry** `src/telemetry/` | queue, writer chain, sqlite | enqueue, drain, prune, close | nothing lost silently; nothing opened after close |
| **Subagents** `src/subagent.ts` | links in the parent's meta store | prepare, end, rollback | a child's results reach the parent once |
| **Plugin entry** `src/index.ts`, `src/api.ts` | the hosts of the process | factory, operator calls, dispose | operator actions reach the host they are meant for |

```
 Cursor ──an event──► hook process ──┐
                                     ├─ step / flush_graph ──► graph.json, snapshots, blobs,
 gateway ──a request──► claw_cli ────┘                         agents / states / spans
                          └ handles, least recently used first
```

The rest (configuration, identities, tool-result middleware, dashboard, CLI and doctor,
live models, the algebra of translation, benchmarks) keeps no state of its own that the
above depends on; `PROJECT.json` lists each.

**How they interact.** The host is JavaScript: a call runs without interruption
from one `await` to the next, and other calls of the same or another session run
in between. The gateway's contract does not say that it awaits a session's calls
one by one, so both cases are modelled (`Serial`). All calls of a session share
the fence, the graph, `graph.json` and the remembered pack. The host learns
what the packer did only from the answer, and the answer may be lost: a timeout
kills the sidecar, an error may be thrown after the graph was changed, the
process may die. `graph.json` is rewritten in place.

Under the sidecar and the hooks lies one state directory. A file there is truncated and
then written, a row is inserted by itself, and between any two of these accesses another
process may run, or this one may be killed. A hook starts from what is on disk; the
sidecar's handle starts from an empty graph, whatever is there. What one sample put forward is written to `inject_history.json`, and the next
sample leaves it out.

**What is hard here.** The fence makes a skipped message a message lost for good,
so the order of step, save and mark matters in every interleaving. The same
message comes by three roads (ingest, ingestBatch, the transcript of assemble)
and must be recognised on each. The cache is read before one `await` and written
after another. A restart brings back a fence and a graph that were written at
different times, and with the sidecar the graph is not read back at all. A purge
runs between the steps of calls in flight. The sidecar client kills, restarts and
listens in callbacks whose order is the operating system's. Two hooks of a
conversation both read the latest state and both save the next. Whether a line was
shown, and so may be left out, depends on a pack that is cut after its lines were
chosen. `PROJECT.json`, "hazards", has each of these at its line.

## 2. Modules and the code they stand for

### EngineHost (composes host, fence, cache, packer, disk)

One action is one stretch of a call between two awaits, or one stretch of the
packer's work. `call[c]` is a call in flight, with its place in its batch
(`base..last`, `next`) and its program counter `pc`:

```
 ingest loop:   ingest ─SendStep─► step ─PackerStep─► save ─SaveGraph─► reply ─MarkIngested─► ingest ...
 assemble:      ... ingest ─CachedPack──────────────────────────► returned
                           ─SendSample─► sample ─PackerSample─► sampled ─RememberPack─► returned
 compact:       flush ─PackerFlush─► flushing ─SaveGraph─► flushed ─SnapshotAndSample─► sample ─► sampled
                                                           ─RewriteTranscript─► rewritten ─CompactReturns─►
```

| Model | Code |
|---|---|
| `fence[s]`, `Key` | table `ingested_messages`; `messageFence`: the host's id or a hash of role, content and index |
| `meta[s]` | the `MetaStore` of the session: closed, open, or open on an unlinked file |
| `live[s]`, `mem[s]` | a packer handle in memory and its graph |
| `file[s]`, `saved[s]` | `graph.json` (absent, blank or torn while it is written, whole) and what it holds |
| `Working(s)` | the graph the packer would work with now |
| `cache[s]` | `pack-cache.ts`; the query stands for everything within its Jaccard threshold |
| `SkipItem`, `SendStep`, `MarkIngested` | the loop of `ingest.ts`: classify, `alreadyIngested`, `packer.step`, `markIngested`, `invalidatePackCache` |
| `PackerStep`, `SaveGraph` | `handle.step`: ingest the turn, then write `graph.json` in two steps with a torn file between |
| `Timeout` | a request's timer: the client kills the sidecar; the handles die |
| `EvictHandle` | the 65th session: `_get_handle` flushes the oldest handle and drops it |
| `Crash`, `Reload` | the process dies; or `dispose` and a new factory call in a process that keeps its modules, and so the cache |

The graph is abstracted to the number of times each message was stepped into it,
a pack to the messages its graph held, whether it has text, and its size. The
packer's choice to answer "skip" or to have no text is free wherever the code may
make it. Two history variables are read by properties only: `intact[s]` (no
purge, no restart over a torn or forgotten graph so far) and `unsure[s]` (messages
stepped whose answer never came).

`ThreadFree` gives TsPacker its place: it runs inside the call, so the host does
nothing else from the call of a packer method to its answer. The sidecar works
while the host goes on.

### SidecarClient

The client of one host: `proc` (the processes it ever spawned), their `stdin` and
`out`, the client's `child`, `dead`, `bootstrapped`, the mutex as a `queue` and the
request that has the `turn`. Callbacks (`ReadLine`, `Timeout`, `Exit`, new calls)
run when no continuation is ready (`Quiet`): promise continuations run before the
next callback of the event loop. An answer may be split into lines by the reader
(`RespondSplit`: U+2028 and its kind are line ends to `readline`), so that a part
of it is left for a later request.

### CutTail

`cutTail` and `groupStartIndex` of `src/assemble.ts`, one action per iteration of
the loop, over every well-formed transcript. `Pair` and `Transcript` say which
result belongs to which call and what a host's transcript looks like, `LongestTail`
what the loop is for, without the loop.

### CtxGraph

`ingestTurn` and `prune` of `src/ts-engine/graph.ts` (Python's `graph.py` is the same),
of which EngineHost knows only what was stepped in. The call runs to its end
without interruption; what makes it hard is the long run, in which each list it finds
in a text meets the nodes that all earlier turns left.

| Model | Code |
|---|---|
| `nodes`, `edges` | `graph.nodes` in their order, and the `continues` and `supersedes` edges |
| `phase`, `Move` | the loops of `ingestTurn`, one after the other; an action is one iteration |
| `seen`, `doneKeys` | `seenDone` and its kind, which keep a list from naming a thing twice; what this turn says is done |
| `Labels`, `Part`, `Cut` | texts, "is a part of", and the form in which a text is a node's label |
| `ItemsCalled`, `ItemsLike`, `FactsCalled`, `FactsSaying`, `TopicsCalled` | `activeOpenItem`, `activeOpenItemFuzzy`, `activeFactLabel`, `activeFactSummary`, `activeTopic` |
| `Path`, `Heading`, `Identifier`, `Design`, `Topic`, `Done`, `Open` | the body of each loop: find, raise, supersede or insert |
| `PruneTurns`, `PruneFacts`, `PruneDurable` | the three loops of `prune`, one dropped node an action |
| `Reload` | a new handle: `fromDict` finds the last turn again, the handle's `turnIndex` starts at 0 |
| `clock` | the stamp of the turn (`nowIso`); `Monotone`: it never goes back |

What a text says is a free choice from `Found`, list by list, and so is its salience.
History variables: `said` (what the last turn that named an item said of it), `vault`
(identifiers named so far).

### StateDir and StateLog

`PersistentAgentHandle.step` and `flush_graph` (`handle.py`) with `StateStore.save`
(`store.py`), over the files and tables of a state directory. An action is one access.
`work[p]` is what process `p` has in hand, and `work[p].at` the access it does next:

```
 step:   prev ─ReadPrev─► graph ─TruncateGraph─► half ─WriteGraph─► (snap ─TruncateSnap─► half ─WriteSnap─►)
         blob ─TruncateBlob─► half ─WriteBlob─► agent ─SelectAgent─► (new agent ─InsertAgent─►)
         row ─InsertRow─► reload ─Reload─► spans ─WriteSpans─► done
 flush:  latest ─ReadLatest─► graph ─► half ─► (snapshot) ─► done
```

| Model | Code |
|---|---|
| `graph[a]`, `snaps[a, t]` | `graph.json` and the versioned copies: absent, torn, or whole with the turns it holds |
| `blobs[a, t]` | the file of a state's matrix |
| `rows` | the table of states: agent, `t`, the turn that wrote it, its parent, where its graph is |
| `agents`, `spans` | the tables of these names |
| `Latest(a)` | `load_latest`: a row of the greatest `t`, one of them if there are several |
| `Raises(p)` | an access that fails: the error goes to who called, what was done stays done |

The matrix is abstracted to the turns folded into it, a graph to the turns ingested.

`StateLog` is what the directory is for: for each agent a log of states that only grows,
each a set of turns with one more than the state before. `SavesAppend == Log!Spec` is the
refinement: `LogOf(a)` reads the log out of rows and blobs, `InsertRow` is the append,
every other access and every death a stutter.

### HookCli (composes hooks and state directory)

`hook_cli.py`: each event starts a process that runs `process_payload` to its end.
`Start`, then `LoadLatest`, `ReadGraph` and `LoadAgain` are `build_handle`; `Works` are
the accesses of StateDir; `Ingested` and `IngestRaised` what the handler of the event does
then; `Sampled`, `Composed` and `Snapshot` the reads behind it. `Kill` takes a process at
any of them. Whoever raises, the answer lets the chat go on (`FailsOpen`). `Serial` says that
Cursor waits for a hook before it starts the next of the conversation.

### ClawCli (composes request loop and state directory)

`claw_cli.py`: the loop over stdin. `Read` takes a request and checks it (`Rejected`,
`Accepted`); `FindHandle`, `NewHandle`, `Evict` and `Evicted` are `_get_handle`, with the
flush of the handle it drops as accesses of StateDir; `Step`, `Flush`, `Worked` and `Last`
are the commands. A raise (`AccessRaises`, `RequestRaises`) is answered with an error and the loop
goes on; `Dies` is the end of the process, after which the handles start anew. `env`
is the budget in the process's environment, which a request sets and gives back.

### HotSet, Pack, Forward

What a conversation is told. `HotSet` is `hot_set` and `typed_projection` of `graph.py`:
ranks, quotas by bucket, the identifiers that push other facts out. `Pack` is
`pack_forward` of `pack.py`: the hot piece, typed lines and chunks each with their cap,
lines left out as known, the cut at the budget, the choice to say nothing. Both are
operators. `Forward` is the state: `sample_text` (`vocab_bridge.py`), the adaptive budget and
`inject_history.json` over the turns of a conversation.

An item has a number, a kind, a length, a salience. A line is a form of an item (in the hot
set, typed, as a chunk, a part of a block of code, cut), with its length, so that two lines
that read the same are the same line. `given`, `stale` and `lost` are history variables:
which whole lines the packs behind the rows held, which open items were done since the last
row, whether the graph was lost since.

### Reading, Memory

What a text leaves behind. `Reading` is how it is read: `chunk_text` (`chunks.py`) from the
heads and the body to the selection, and the scans of `graph.py` for deferred items,
designs, outcomes, identifiers, headings and mentions of paths. A message is a sequence of
lines of a few kinds, each with its number of words. `Memory` takes message after message:
tags, `compress` and `append_then_pool` (`compress.py`), and what `ingest_turn` makes of the
open items and the durable facts, to the `prune` in its end, which drops facts beyond
`MaxDurable`: identifiers last, before them what an open item names. Free choices are which
neighbours are most alike, which of two facts of one rank is dropped, and which designs and
outcomes a sentence says word for word (those are not durable). `Restart` is a process
that ends: the counts of mentions were in memory only.

### Companions

`MC*` modules give the constants of the runs. `EngineHost_proofs`, `SidecarClient_proofs`,
`CutTail_proofs`, `CtxGraph_proofs`, `Conversation_proofs`, `StateDir_proofs`,
`HookCli_proofs` and `ClawCli_proofs` hold the theorems; `StateDir_proofs` has the lemmas
on accesses that hooks and sidecar share, and `Conversation_proofs` is about Forward and Memory
both, as they share the lemmas on loops and on sets in order. `Listing` has the operators of
`HotSet` and `Reading` that put a set in order, take parts of a sequence and add up.
In each model, a definition commented `Mutant:` is a plausible wrong version of
the one that follows it and is used by no specification; `PROJECT.json`, "mutants",
says which property fails when it takes that definition's place.

## 3. Runs

`tlc -config X.cfg M`, a few seconds to three minutes each.

| Run | Module | Question | Answer |
|---|---|---|---|
| `serial_ts` | MCEngineHost | In-process packer, messages with ids, calls awaited: do the fence, graph, cache and prompts agree through errors, purges, trims, crashes and reloads? | yes |
| `overlap_sidecar` | MCEngineHost | Sidecar, messages without ids, two calls in flight: can the fence run ahead of the graph, or a call never end? | no |
| `sidecar_serial` | MCSidecarClient | Calls awaited: is a sidecar ever left without an owner? | no |
| `sidecar_overlap` | MCSidecarClient | Calls in flight together, split answers, deaths, disposes: does a call that succeeds have its own answer, and does every call end? | yes |
| `cut` | MCCutTail | Is the tail the longest one that parts no pair and fits? | yes |
| `graph` | MCCtxGraph | Turns of any content, prune at its limits, reloads: do items follow their last mention, can histories be followed, do identifiers outlive the rest, do the caps hold? | yes |
| `hooks_serial` | MCHookCli | Hooks awaited, two kills or raises: is the store an append-only log, does `graph.json` hold every saved turn, does every hook end? | yes |
| `hooks_overlap` | MCHookCli | Hooks of one conversation at once: can the lineage of states get a gap, or a prompt be answered whose turn was not saved? | no |
| `claw` | MCClawCli | More agents than handles, a fault, deaths of the process: is what was acknowledged or evicted on disk, does the oldest go first, does a budget stay with its request? | yes |
| `forward` | MCForward | Over turns, with history or graph lost: do packs fit, was everything left out shown whole, does a silent turn hide a change? | yes; yes; no |
| `memory` | MCMemory | Messages of any lines: do scans and chunks follow the structure, does pooling keep order and shielded rows, is what was said known? | yes |
| `v_restart` | MCEngineHost | a statement of the documentation that the code does not keep | section 5 |

**Properties of EngineHost.**
`FenceBacked`: a fence row stands for a message that is in the graph and on disk.
`IngestOnce`: no message is stepped twice, unless an answer was lost.
`CachedPackSeesFence`: a remembered pack is not older than the fence.
`AssembleCoversMessages`: a prompt is packed from a graph that held all the
messages it was given. `CompactKeepsMemory`: a compaction with an empty checkpoint
does not rewrite a transcript of which anything was ingested.
`BootstrapRecovers`: a bootstrap that found no graph leaves one with its messages.
`EveryCallEnds`.

**Properties of SidecarClient.** `SidecarOwned`, `OwnAnswer`, `EveryCallEnds`, and
`OneSidecar`, which fails. **Of CutTail.** `PairsKept`: no call is parted from its
result. `LongestTail`: no longer tail would do.

**Properties of CtxGraph.** `CapsKept`: after each turn the caps of prune hold.
`OneOpenItem`: no two open items have one name. `LastWordCounts`: an item whose name
overlaps with no other is open exactly if the last turn that named it opened it.
`SupersededOnce`: a superseded node has exactly one successor, later and of its kind;
no other node has any. `OneTopic`: no topic is active twice. `ChainUnbroken`: each turn
continues the one before it, across reloads and prunes. `VaultKept`: while no more
identifiers were named than durable facts are kept, all are there.

**Properties of HookCli.** `LineageWhole`: the parent of every state is a state of the same
agent, one step before. `AnsweredIsSaved`: a prompt that was answered with a context has its
state. `GraphHoldsStates`: no turn that has a state is missing in a whole `graph.json`.
`SavesAppend`, the refinement. `EveryHookAnswers`: a hook that is not killed ends with an
answer, whatever raises in it.

**Properties of ClawCli.** `StepIsSaved`: a step answered with ok has its state on disk.
`BudgetOfItsOwn`: a sample is made under its own request's budget, or that of the start.
`EvictedIsOnDisk`: what an evicted handle held is in `graph.json`, also turns of steps that
had raised. `LeastRecentFirst`: the handle evicted next is the one used least recently.

**Properties of Forward.** `PackFits`, `HotFits`: no pack and no hot set is longer than it may be.
`NothingSuppressedUnseen`: a line is left out as known only if one of the last packs held the
whole of it. `SkipHidesNoChange`: nothing is told only if no open item came or was done since
the last row.

**Properties of Memory.** `ScansAsStructured`: the scans, which walk line by line with flags,
find what a definition by headings and blank lines says. `ChunksCover`: each line is in one
chunk, unless there are too many; a block of code is never lost altogether. `RowsInOrder`: at
most kMax rows, earlier chunks in earlier rows. `ShieldedOutlive`: a shielded chunk of the last
message is merged only when every row is a shielded one of its own. `SaidIsKnown`: a path is a
durable fact only if it was once named outside code, or twice; prune holds its cap; and while
there is room for one more fact, every path named outside code is there, over any
restarts, and without a restart every path named twice.

**Bounds, and why they are enough.**
- *One session.* Sessions share the packer's turn (`PackerFree`), the host's thread, the
  configuration and the events that take all of them (`Timeout`, `Crash`, `Reload`);
  all else is indexed by session, and each property is about one. What another
  session can do to this one, a second call of the same session does as well
  (hold the packer, time out), and `EvictHandle` stands for the rest. The theorems
  are for any number of sessions.
- *Transcripts of 2 or 3 messages.* `serial_ts` has three, the second one of a kind
  ingest skips, so that a batch begins, skips and ends in different messages; the
  overlapping runs have two that say the same, so that only the index tells them
  apart.
- *Calls.* `serial_ts` begins three (one to ingest, one to remember or fail, one
  to be deceived), `overlap_sidecar` has two in flight. Two calls show every race
  of a pair; the theorem on `FenceBacked` is for any number of them.
- *Two queries and two budgets*: a cache hit, a miss, a changed budget.
- *Sidecars.* Three spawns awaited, two overlapping: a sidecar, its successor, and
  in the awaited run the successor's. Three calls, so that one has the mutex, one
  waits and one comes late. The theorem on `SidecarOwned` is for any number.
- *CutTail.* All transcripts of up to four messages over two call ids and the costs
  0, 1, 2, with budgets 0 to 3: a result, its call, another result between them and
  a message before; groups that just fit, that are too much, that cost nothing. Both
  properties are theorems, for transcripts of any length.
- *CtxGraph.* Up to three turns, six nodes, caps of 1 (prune drops from two nodes on) and
  stamps 0 and 1 (turns of one stamp, and of two). The texts: an item that names a path
  and a done mention that is a part of it; an item that overlaps with none, opened and
  closed over turns; two topics of which one subsumes the other; a long heading stored as
  what is a path; an identifier that is less salient than a decision. All
  eight properties are theorems, for any texts, caps and number of turns.

- *Hooks.* Three processes of one agent, of all four events: one that saves, one that is
  killed or raises, one that finds what is left; two faults, so that a torn file meets a
  second one. `Every = 2` (a versioned copy every second turn, 10 in the code) gives rows of both
  kinds. In the overlapping run two hooks race and a third comes after; it has prompt and
  compact, a step and a flush, which are the two ways to the directory. The four safety properties of
  both runs are theorems for any number of processes, turns and agents.
- *ClawCli.* Three agents and two handles (64 in the code), so that there is one to evict;
  four requests, so that an evicted agent comes back; a fault that may be in the eviction's
  flush or in the step. All four properties are theorems for any number.
- *Forward.* Five items, one of each kind that is treated differently (a task, a task too long
  for a line of the pack, a decision, a link, a block of code), five turns, limits that hold
  two lines and that hold nearly all. `DedupK = Keep = 2` lets a row leave the history while
  the item is still there; `Warm = 1` lets skips begin early; one loss of history or graph. All
  four properties are theorems, for any items, sizes, queries and limits.
- *Memory.* Thirteen kinds of lines, four said in all (in one message or in several),
  three chunks kept, two rows, two durable facts (48 in the code), one restart: more chunks than
  may be kept, a matrix that overflows by one and by more, a third fact that makes prune drop
  one. All five properties are theorems, for messages of any length and any limits; the last
  one while no message names more paths than a turn keeps (`PathCap`), which the one path of
  the run cannot.

In `serial_ts` the two queries are interchangeable (`QuerySymmetry`): they are compared
only with each other, and no property is a liveness property.

`CHECK_DEADLOCK FALSE` throughout: with the bounds on calls and messages used up, and
nobody in flight, a host has nothing left to do; cutTail has returned, the last hook has
ended, the requests and the lines are used up.

**Fairness.** In `EngineHost`, weak fairness of `Proceed(c)` for each call: a settled
promise's continuation runs, the packer finishes a save it began, and a request
that is not answered is failed by its timer or answered with an error; a request
behind another waits until that one has gone on, which fairness of the other call
gives. In `SidecarClient`, weak fairness of the continuations (microtasks), of the
request timer (`setTimeout`, cleared only when the request is settled) and of the
wait for an exit (bounded by `disposeMs`). Nothing is assumed of the sidecar: it may
read nothing, answer nothing and never die. In `HookCli`, weak fairness of `Proceed(p)`: a
hook that is not killed is a process of the operating system that waits for nothing but the
disk (`Serial` delays starts, which are not fair).

## 4. Proofs

| Theorem | States | Assumes |
|---|---|---|
| `EngineHost_proofs!TypeCorrect` | `Spec => []TypeOK` | |
| `EngineHost_proofs!FenceRowsBacked` | `Spec => []FenceBacked` | |
| `EngineHost_proofs!IngestedOnce` | `Spec => []IngestOnce` | `Serial`, `HostNames` |
| `EngineHost_proofs!CacheSeesFence` | `Spec => []CachedPackSeesFence` | `Serial` |
| `EngineHost_proofs!PromptsCoverMessages` | `Spec => []AssembleCoversMessages` | `Serial`, `HostNames` |
| `EngineHost_proofs!BootstrapKeepsAll` | `Spec => []BootstrapRecovers` | `Serial`, `HostNames` |
| `EngineHost_proofs!CompactionNeedsCheckpoint` | `Spec => []CompactKeepsMemory` | `Serial`, no operator's flush |
| `SidecarClient_proofs!ClientTypes` | `Spec => []TypeOK` | |
| `SidecarClient_proofs!NoneLeftBehind` | `Spec => []SidecarOwned` | `Serial` |
| `SidecarClient_proofs!AnswersAreOwn` | `Spec => []OwnAnswer` | |
| `CutTail_proofs!TailKeepsPairs` | `Spec => []PairsKept` | `~Parallel` |
| `CutTail_proofs!TailIsLongest` | `Spec => []LongestTail` | `~Parallel` |
| `CtxGraph_proofs!GraphTypes` | `Spec => []TypeOK` | |
| `CtxGraph_proofs!ItemsOpenOnce` | `Spec => []OneOpenItem` | |
| `CtxGraph_proofs!LastWordKept` | `Spec => []LastWordCounts` | |
| `CtxGraph_proofs!TopicsOnce` | `Spec => []OneTopic` | |
| `CtxGraph_proofs!CapsHold` | `Spec => []CapsKept` | |
| `CtxGraph_proofs!HistoryIsLinear` | `Spec => []SupersededOnce` | |
| `CtxGraph_proofs!ChainHolds` | `Spec => []ChainUnbroken` | (`Monotone`, in the property) |
| `CtxGraph_proofs!IdentifiersStay` | `Spec => []VaultKept` | |
| `Conversation_proofs!ForwardIsTyped` | `Spec => []ForwardTypes` | |
| `Conversation_proofs!PacksFit` | `Spec => []PackFits` | |
| `Conversation_proofs!HotSetsFit` | `Spec => []HotFits` | |
| `Conversation_proofs!LeftOutWasSeen` | `Spec => NothingSuppressedUnseen` | |
| `Conversation_proofs!SkippedHadNoChange` | `Spec => SkipHidesNoChange` | (the graph not lost, in the property) |
| `Conversation_proofs!RowsStayInOrder` | `MemorySpec => []RowsInOrder` | |
| `Conversation_proofs!ShieldsHold` | `MemorySpec => []ShieldedOutlive` | |
| `Conversation_proofs!ChunksCoverAlways` | `MemorySpec => []ChunksCover` | |
| `Conversation_proofs!ScansFindAll` | `MemorySpec => []ScansAsStructured` | |
| `Conversation_proofs!WhatIsSaidIsKnown` | `MemorySpec /\ []FewPaths => []SaidIsKnown` | `FewPaths`: no message names more than `PathCap` paths |
| `HookCli_proofs!HooksTyped` | `Spec => []HookTypes` | |
| `HookCli_proofs!LineageKept` | `Spec => []LineageWhole` | |
| `HookCli_proofs!AnswersAreSaved` | `Spec => []AnsweredIsSaved` | |
| `HookCli_proofs!GraphKept` | `Spec => []GraphHoldsStates` | (`Serial`, in the property) |
| `HookCli_proofs!StoreIsALog` | `Spec => SavesAppend` | `Serial` |
| `ClawCli_proofs!LoopTyped` | `Spec => []ClawTypes` | |
| `ClawCli_proofs!BudgetsApart` | `Spec => []BudgetOfItsOwn` | |
| `ClawCli_proofs!StepsAreSaved` | `Spec => []StepIsSaved` | |
| `ClawCli_proofs!OldestGoesFirst` | `Spec => []LeastRecentFirst` | |
| `ClawCli_proofs!EvictionKeeps` | `Spec => []EvictedIsOnDisk` | |

All rest on the named assumptions on constants of their modules (`EngineAssumption`,
`NoCallAssumption`, `ClientAssumption`, `NoTurnAssumption`, `CutAssumption`,
`GraphAssumption`, `NoTextAssumption`, `HotAssumption`, `PackAssumption`, `ForwardAssumption`,
`ReadingAssumption`, `MemoryAssumption`, `DirAssumption`, `HookAssumption`, `ClawAssumption`),
which say what kind of value each
constant is. `PackAssumption` says of a gist that it is not empty (`vocab_bridge.py` hands on no
other), `ForwardAssumption` that the history keeps as many rows as are looked back at (8 and 3
in the code), `ReadingAssumption` that a heading has a level above 0 (`^#{1,6}` in `graph.py` and
`chunks.py`), that what a heading is about only headings are about, and that each limit of a
message is at least 1. `FewPaths` is no assumption on constants
but a hypothesis on the conversation: `_path_facts` keeps the `PER_TURN_PATH_CAP` most salient
paths of a turn, and one that falls out of a longer list is known only if it is named again.

*TypeCorrect.* The type invariant alone does not say that a call at `step` has a
message to step. `CallsBounded` does: the next item is inside the batch, and the
batch inside the transcript.

*FenceRowsBacked.* A row is written when an answer arrives, so the graph must back
the message of every answer under way (`ReplyOK`), a save under way must be that of
a graph that holds its message, in a handle that is alive (`SaveOK`), and a file
that is not whole must have a live handle behind it, one that is absent an empty
fence (`FileOK`). `FenceInv` is the four together for each session that is still
`intact`; the delicate steps are the death of the handles, which clears `intact`
exactly where the file would betray the fence, and two saves by different calls.

*IngestedOnce.* A message in a graph must be fenced or on its way to the fence
(`KnownOK`), a step about to be applied must be of a message that is not fenced
(`FreshOK`), and no other call may be in the loop (`Alone`, from `Serial`). Without
`HostNames` the theorem is false (`v_idless`). Without `Serial` it is false too:
two calls with the same message both find no row, and both step it.

*CacheSeesFence.* The remembered pack is not the only one: a pack that is sampled and not
yet remembered must see the fence too. `PackInv` says it of both, which needs that no other
call ingests between the sample and the memory (`Alone`, from `Serial`); a mark empties the
cache, a crash loses it, and a reload, which keeps it, adds no row to the fence.
Without `Serial` it is false (`v_cache`, section 5).

*PromptsCoverMessages, BootstrapKeepsAll.* `CoverInv`: what a batch has passed is fenced, up to
its place, and to its end when the call samples; with `FenceInv` what is fenced is in the
graph, and with `PackInv` in a remembered pack. A bootstrap that found a graph has nothing
to show; one that found none runs the same loop over its transcript.

*CompactionNeedsCheckpoint.* `FrozenInv`: from the compaction's own flush to its sample,
`graph.json` stays whole or absent, so that the guard, which asks whether it is nonempty, tells
a session without a graph from one that has one. An operator's flush beside it breaks this
(section 5), hence the assumption that there is none.

*NoneLeftBehind.* While a sidecar runs, the host is started or a start waits for its
health check (`OwnedInv`), so that no second start replaces the child. Without
`Serial` it is false (`v_two_sidecars` is the first half of that).

*AnswersAreOwn.* A request is in the queue or has the turn, never both, and a call has at most one
(`OneRequest`). A line that matches the request in turn was written for it, so that a call that
was answered with success, and has gone on since, got its own (`AnswerInv`); a line left over is an
error to whoever listens. Nothing is assumed of the calls.

*TailKeepsPairs.* A group holds the call of every result in it (`GroupHoldsCall`) and
no pair reaches across its beginning (`GroupIsWhole`); the tail is a union of groups.
Without `~Parallel` it is false (`v_pairs`).

*TailIsLongest.* A cut inside a group parts the group's own pair (`GroupIsTight`), so a tail that
is whole and longer than the one returned holds the next group, which did not fit
(`Stopped`), and costs no less (`TokensAdd`). `Within`: what was collected fits, or is the newest
group alone, and then no whole tail is shorter. The sums are compared by way of `Prefix`, what
the first messages cost together; that there is such a function, and that `Tokens` is a
difference of two of its values, is shown by induction on a set of numbers (`Induct`).

*Forward: loops.* `FoldLeft` is the value, at the whole domain, of a function on the sets of places.
`FoldExists` builds that function for one place more from the one for the places before;
`FoldRuns` says that n steps lead to its value, and each loop is unrolled by it:
`TotalRuns` (sums), `EmitsFill` and `ForcesFill` (the hot set), `TakesGather` (the pack). What is
true of a step is then true of the loop. `Ranked`, which orders a finite set by counting
who comes before, is a sequence without gaps for every strict order (`AscendingSeq`, `ByRankSeq`).

*HotSetsFit.* `Filling`: `used` is the total of the lines put so far with their line ends, and at
most `HotMax`. A line dropped for an identifier takes its length with it (`DropFills`), and what does not
fit even then is not put.

*PacksFit.* A pack that is too long is cut at so many characters that the cut and its dots are
again within the budget, whichever line the cut is in (`TruncateFits`): the separators
that were not counted while the parts were chosen do not matter.

*LeftOutWasSeen, SkippedHadNoChange.* `ForwardInv`: `Shown`, what a row remembers was in its
pack whole, save for the line that was cut, and that one reads like no other line; `Marked`, when
an open item was done since the last row, the graph counts more nodes gone than the row does,
unless it was lost. A torn history is an empty one, of which both are true.

*RowsStayInOrder, ShieldsHold.* `MemoryInv`: chunks are numbered up to `made`, rows are in order
and not more than `KMax`. A step puts the rows of the new message behind the earlier ones, which
have lost their tags, and pools. `Pooling` is what pooling keeps: order (`InOrder`), no chunk from
nowhere (`Within`), a tag only on a row of one new chunk (`Tagged`), and for each new chunk that
is not alone any more, that no row with less of a shield is left (`Shielded`). It holds before
(`RowsBefore`), a merge keeps it since it takes two bare rows (`MergedPools`), an eviction since
the row picked has the least shield there is (`PickIs`, `EvictedPools`), and so each run of the
loop does (`PooledPools`). The invariant on tags is needed: of the rows alone one
cannot tell which was shielded.

*ScansFindAll.* Both scans are unrolled line by line (`DeferredRuns`, `DesignRuns`). After k lines,
the flags say what the structure says of line k + 1: the scan holds a level just when some deferred
heading above is not closed, and it is the level of the last such one; a bullet is taken when
that is so (`DeferredFound`, `DesignFound`). Places taken in rising order are the set
in order (`AscendingGrows`).

*ChunksCoverAlways.* `Parted`: chunks that hold just the lines of a set, each in one of
them. Merging keeps it of what is flushed and what is gathered together (`FlushParts`,
`PieceParts`, `MergedParts`), heads are chunks of their own (`HeadChunks`), and their lines are
apart. `SelectedIs` goes through the cases of the selection: evenly spaced places are at most
as many as are wanted (an injection into 0..remaining - 1),
and a block of code takes the last place if no place has one.

*WhatIsSaidIsKnown.* `Recalled`: without a restart the counts of the graph object are all there was
(`Heard`: with one they are at most that). The order by salience, ties broken, has a place for each path
(`RankedAll`), so a list within the cap is kept whole (`PathFactsAre`), and a path reaches two
mentions only in a message that names it. The facts stay finite, and a prune that leaves
fewer than `MaxDurable` has dropped none in this turn. A fact may have been dropped in an
earlier turn, but then the graph was full from there on: that the number of facts never falls
below the cap again is why the property needs no history of prunes.

*GraphTypes.* The code's `findIndex`, `shift` and backward loops pick the newest, the
first, the oldest or the least salient node of a set, `CHOOSE` in the model; each
choice must be shown to exist. `HasNewest`, `HasLeast` and `HasOldest` say so for every
nonempty set they are used on, from the well-foundedness of `<` on the naturals (a
minimal element of the places, then of the stamps, then of the indices).

*ItemsOpenOnce, TopicsOnce.* Inductive with `TypeOK`: the one action that adds such a
node has just looked for another, and the nodes an action supersedes or prunes only
leave the set.

*LastWordKept.* The invariant holds of each item name separately; what must be shown is that
a step about one name leaves the open items of an isolated name alone, also where it
completes an item that merely overlaps (`ItemsLike`).

*CapsHold.* The caps hold one by one: past the first loop of prune the turns are few enough,
past the second the facts, and the later loops touch neither. The invariant says
this of each phase.

*HistoryIsLinear.* Only active nodes are superseded, so the node has no successor yet, and
what was superseded never becomes active again.

*ChainHolds.* Prune drops the oldest turn by stamp and index, not by place. `InOrder`: while the
clock does not go back these agree, across reloads too, which begin the index at 0 again but at a
later stamp. `Stamped`: a turn of the present stamp has an index below `turnIndex`, so that the
next turn comes after all. `LastKnown`: the newest turn is active, as prune keeps at least one, so
that a reload finds it again.

*IdentifiersStay.* A text that is its own label and summary names at most one active fact
(`Unique`), so to each active identifier belongs another of the texts the turns named (`Named`).
When prune finds too many durable facts, the identifiers among them are no more than those texts
(`FS_Injection`), hence some durable fact is none, and prune prefers it. `There`: until then
each named identifier has its fact.

*HooksTyped, and StateDir's lemmas.* An access is well typed if its place fits the work it
belongs to (`Sound`: a flush takes a snapshot always, the accesses to blob and tables are a
step's). `Rest`: a hook that is not at its accesses has no work in hand.

*LineageKept.* A step knows its parent from before it writes; `PrevKnown` says the parent has a
row with the `t` before, from the read on. It stays true because rows are never removed, whoever
else saves meanwhile.

*AnswersAreSaved.* `AnswerOf`: in a prompt's hook, whoever is behind the row has the row.
That every raise ends in an empty answer is what makes it inductive.

*GraphKept.* With awaited hooks only one runs (`AloneInv`). `GraphOf(p)`: the graph in hand
holds every saved turn before it is written, the new turn after, and is what `graph.json` holds
once the row may be inserted. `GraphFiles`: a torn file is one that is being written.

*StoreIsALog.* `Dense`: the rows of an agent are numbered from 1 without a gap and each has a whole
blob. `Adding`: a step under way has the next number and the blob it is about to point at.
`InsertRow` is then `Log!Save`, and all else leaves `LogOf` alone. Torn blobs are harmless:
the next save of that `t` writes it again before its row comes.

*LoopTyped, BudgetsApart.* `Control`: where the loop is, what is in hand, and `env` is the
request's budget exactly while a sample is under way.

*StepsAreSaved, OldestGoesFirst, EvictionKeeps.* `SavedInv`: from the row on, the step's row is
there. `OrderInv`: handles are in the order of use, all used before the request in turn.
`EvictInv`: a handle that is held was not evicted since it was made, and the flush of one that
goes writes what it held; a raise in it ends in a handle that counts as lost.

**Model-checked only:** `EveryCallEnds` in both modules and `EveryHookAnswers` (liveness is out of the
prover's reach). What loops compute is proved by unrolling the fold, as above; that the model's
names of lines are what the regular expressions find is not for a prover.

## 5. What the code does against what is said of it

Found while writing the models, in which the code's behaviour stands as it is. The first
is a run of the project and quotes its source in `PROJECT.json`, "findings".

- **v_restart.** A new sidecar starts each handle from an empty graph while the fence and
  `graph.json` have the messages; the next save writes the empty graph over the file.

Each of these is shown by a configuration beside the runs, with `tlc -config <name>.cfg <module>`:

- **v_idless** (MCEngineHost). Without a host id, a message is known by role, content and
  *index in the array it came in*. `host.ingest` has index 0, assemble the transcript's: the
  message is stepped again.
- **v_cache** (MCEngineHost). assemble remembers its pack after an `await`; an ingest of another
  call in between invalidates the cache first, and the older pack is put in it after.
- **v_budget** (MCEngineHost). The cache is not asked for the budget: a pack made for a large
  one is returned to a prompt with a small one.
- **v_two_sidecars** (MCSidecarClient). Two first calls in flight together start a sidecar
  each, against "one sidecar per plugin factory".
- **v_pairs** (MCCutTail). When parallel calls are messages of their own, a result is kept with
  its call and another call's result without its call, against "never split a tool call from
  its result".

Seen in the models, and not kept as runs of their own: a purge
(`src/manage.ts` `purgeSession`, "Purge session state dir") leaves the packer's live
handle with all it held, and its next save writes it back; with
calls in flight together, two steps of one message (the row is looked up before the
`await` and written after); a `graph.json` torn by a crash looks nonempty to
bootstrap, so that nothing is recovered from the transcript though the packer
cannot read it; after a restart of the sidecar a compaction can go through with an
empty checkpoint, since its own flush has just written an empty graph over the one
the guard looks at; the exit handler of a sidecar that was told to end marks
the client dead after its successor was started; a done mention that merely
overlaps with an open item's name ("verified it" and an item with "it" in it)
completes that item, where docs/value.md says "Action items tracked until explicitly
resolved"; a long topic named again beside
one it subsumes may be active twice under its cut label, and a long identifier gets a
second node when it is named again; when the wall clock goes back, prune drops
the newest turn. The properties that pass except these cases by `intact`, `unsure`,
`Serial`, `Isolated`, `Whole`, `Plain` or `Monotone`, which is what those are for.

Seen in the models of the packer:

- An operator's flush that fails half way leaves `graph.json` blank. A compaction in flight takes
  that for a session without a graph, and with a sample that says "skip" rewrites the transcript
  with an empty checkpoint.
- A hook cuts its context to 8000 characters after the lines of the pack were recorded as shown
  (`hook_cli.py`): what is cut away is left out of the next packs as known.
- Mentions of a path are counted in the graph object and not saved: with a process per event, a
  path that is only named in code never becomes a fact.
- Overlapping hooks save two rows of one `t` over one blob, and `load_latest` picks either.
- An error after the row was committed makes the caller step the turn again: two states of one
  turn.
- The separators between the parts of a pack are not counted while parts are chosen, so that a
  pack may be cut where its parts seemed to fit; the floor of the adaptive budget (64 tokens) may
  exceed the limit itself; a block of code of several lines is never recognised as shown.
- `SPECS.md:442` names the file `inject-history.json`; the code writes `inject_history.json`.

## 6. What is not modelled, and why

- Within EngineHost: the start of the sidecar is folded into the calls (SidecarClient
  has it); `Reload` ends the calls in flight at once, where the code lets them run into a
  closed store; the limits at which the graph prunes are not reached; text, spans and
  scores are free choices; the write of the versioned copy and of the snapshot has
  no effect a property reads.
- Within SidecarClient: `error` events of stdin and of the child; the stderr log; the
  health check's content. A microtask's exact place within the microtask queue is not
  modelled, only that all of them run before the next callback.
- Within CutTail: the token estimate is additive over messages, as the plugin's own
  fallback is; a host's estimator that is not could make `used` differ from the
  tail's cost.
- Within CtxGraph: events, and the `contains` and `mentions` edges, which nothing reads back;
  the texts and regular expressions; limits on what is found in one turn, of which
  16 items is one; `window_text`, which reaches a pack only when nothing else does.
- Within StateDir: an insert of `sqlite` is atomic, and a lock waited for too long is an access
  that raises; what a span and a blob hold beyond the turns; the inject history is in Forward.
- Within HookCli: the fields of a payload beyond the text; log lines; the frozen graph that compact
  writes to a file nobody reads.
- Within ClawCli: the several ways to reject a request are one (`Rejected`); the content of
  samples and expanded spans.
- Within HotSet, Pack and Forward: what a query is about is a set of items, so that scores, stop
  words and hashes are data; estimate of tokens is the code's, of the lengths; the decoding of
  tokens out of a vector, which is off by default; the extractive fallback.
- Within Reading and Memory: regular expressions are the kinds of lines; embeddings and likeness;
  `GistHFProducer`, which loads a model when the environment says so (the embedding producer is
  modelled); facts that are not durable, which `CtxGraph` has; a line names one thing, and a heading
  is the name of no path; which fact of a rank prune drops (by salience, then by stamp) is left open.
- A `graph.json` that is torn or blank is modelled, but `BootstrapRecovers` (`intact`) and
  `GraphHoldsStates` except it: turns are lost then. The host loads an empty graph; a hook falls
  back on the file its latest state names, or on an empty graph.
- One host per state directory. `commitTurn`, `afterTurn` and the subagent hooks; telemetry. Their
  hazards (a row dropped when the queue is full, a drain after close that opens the store again,
  a subagent's end reported twice or written beside a live handle) can be read off the
  code one function at a time and do not meet the state above, except that the last of them
  writes the parent's `graph.json`.
- Not for TLC: configuration parsing, sanitising, regular expressions, embeddings, rendering,
  the algebra of the vocabulary projection and its adapter, live models of vendors,
  benchmarks, tool-result middleware, dashboard, CLI and doctor. They keep no state; where a
  model depends on their result, it is a constant or a free choice.

## 7. What is left

| Module | Code | Abstract specification, properties | Proofs |
|---|---|---|---|
| `Subagents` | `src/subagent.ts` with the parent's handle | a child's result reaches the parent's graph once and is not overwritten | |
| `Tracker` | `telemetry/tracker.ts` | every row is written, dropped and counted, or lost by an error: none silently; no store opened after close | the row count as an invariant |
| `TurnCommits` | `commitTurn`, `afterTurn`, `turn_commits` | a turn is committed once and after its messages | once per turn |
| `IngestLog` | abstract: a set of messages that grows by one atomic ingest | EngineHost, `Serial` and without faults, implements it with `Working` as the mapping | step-by-step refinement |
| several hosts | `src/index.ts`, two factories over one directory | no acknowledged turn is lost while no process dies | |
