# StrataGate in TLA+

StrataGate gives an agent a long-term memory.  Conversation turns are appended to an *open tail*; every N complete turns
of a thread are sealed into a *Block*; model calls derive the Block's summary layers (L0-L2) and *Event cards* from it; further
projections (knowledge graph, topics, elements) are derived from the Events.  A ready Block may replace the raw history in the
host's context, so a Block that claims to be ready and is not loses conversation.  Everything is kept in one SQLite database that
several processes open at once; each process works on an in-memory copy (a `StrataGate` instance) and commits optimistically.

This directory models that machinery in TLA+, checks it with TLC and proves what matters most with TLAPS.

## 1. Inventory

| Component | State it keeps | Operations | What is hard about it | What makes it correct | Modelled in |
|---|---|---|---|---|---|
| Block derivation (`packages/core/src/store.ts`, `sqlite.ts`) | summary and extraction jobs (status, attempts, retry time, lease), Block layers and status, the instance's copy and revision | `processBlock`, `extractEligibleBlock`, `withDerivationLease`, `recoverExpiredDerivations`, `reloadFromStorage`, `retryBlockSummary`, `retryEventExtraction` | model calls outside every transaction, two processes, late heartbeats, crashes, rejected commits, objects captured before an await | one worker per claim, bounded attempts, results durable exactly once, nothing forgotten | `Derivation`, `BlockPipeline` |
| Ingestion and open tail (`store.ts`, `src/runtime.ts`, `src/fold.ts`) | open tail, ingestion receipts, reserved user messages, per-session queue of turns | `reserveUserMessage`, `appendTurn`, `sealOpenTail`, `drain`, `flush`, `close` | conflicts and retries, reservations overtaking turns, several threads in one namespace, sealing apart from appending | no turn lost or doubled, order kept, every Block holds N whole turns | `Ingestion`, `TurnLog` |
| Background work index and worker (`background-work.ts`, `sqlite.ts`, `runtime.ts`) | due times, dirty keys with generations and cool-downs, timers | triggers, `rebuildBackgroundWorkIndex`, `dueBackgroundNamespaces`, `runBackgroundNamespace`, `wakeBackgroundWorker` | the rebuild computes between two transactions while writers go on; wake-ups that arrive during a run | work is found, the worker does not sleep on news | `WorkIndex` (and `Derivation` for the rule of a job) |
| Block timeline and surface (`blocks.ts`, `store.ts`, `runtime.ts`) | pointer and surface levels, anchors, requests, the native session and what was saved of it | `expandBlock`, `setBlockSurfaceLevels`, background run, request path, capacity repair | three writers of one session, saved at different times; user's choices against decay and capacity | a choice is not dropped, the surface settles | `SurfaceSync`, pointers also in `MemoryUse`, `RecordStore` |
| Graph projection (`graph.ts`, `store.ts`, `sqlite.ts`) | graph jobs with claim epoch, nodes, edges, policy | queue, claim, complete, fail, disable, backfill | disabling while a projection runs; provenance through merges | budgets kept, approved history settles, views show only what is proven | `GraphProjection`, `GraphRecords` |
| Memory topics (`topics.ts`, `src/topics.ts`, `metadata.ts`) | chapters, versions projected, jobs, bootstrap boundary, allowance | claim, complete, fail, split, synchronize | prose inherited from other chapters, two lanes, an allowance across processes | current prose, everything projected | `Topics` |
| Dreaming (`dreaming.ts`, `dreaming-session.ts`) | the run, its claim, batches, edits | start, step, pause, resume, terminate, apply | Agents of claims that ended, late answers of the projection | the directory is reserved to one claim | `Dreaming` |
| Events and usage (`events.ts`, `weights.ts`, `retrieval.ts`) | cards, links, weights, receipts | record use, pin, forget, restore, supersede | repeated receipts, links to cards that go | usage counted once, links resolve | `MemoryUse`, `EventPool` |
| Duplicate review (`event-duplicates.ts`, `event-duplicate-maintenance.ts`) | journal of pairs, lease, inverses | tick, merge, select, keep both, take over, undo | two transactions per choice, deaths between them | the journal says what happened to the cards | `DuplicateReview` over `EventPool` |
| External import (`external-memory.ts`, `store.ts`, `runtime.ts`) | import job, slices, candidates, decisions | create, analyse, retry, abandon, commit, undo | two hosts that die, late answers | each candidate its own answer, the analysis ends | `ExternalImport`, cards in `EventPool` |
| Storage and write sets (`sqlite.ts`, `storage-write-set.ts`) | tables, committed memory, full-text index | diff and save, single-row patches, load, validate, index repair | removal order under immediate foreign keys, stale rows, writers that do not know the index | reload equals memory, saves go through, a search misses nothing | `RecordStore`, `MemoryUse`, `RawIndex` |
| Model bridge (`llm.ts`, `extraction-batches.ts`) | routes, capabilities, ring of responses | structured call, splits, repeats | truncated replies, changed routes, lost leases | results cover what was sent and cite nothing else | `ModelCalls` |
| Semantic search (`embedding.ts`, `runtime.ts`) | vectors with fingerprints, cooldown | rank, sweep, clean up | cards rewritten during a call | no vector of an old text counts, every card gets one | `SemanticRecall` |
| Evidence and retrieval finalization (`retrieval-finalization.ts`, `retrieval.ts`, `tools.ts`) | batches of references, recovery of the turn | search, assess, record, stop listener | parallel calls, other listeners, recovery that opens new batches | a complete answer comes last, and soon | `EvidenceGate` |
| Settings (`runtime.ts`, `config.ts`) | turns of a Block in metadata, rows and instances | set, open, sync | namespaces opening during a change, failed changes | an accepted size is everywhere | `Settings` |
| WorkBuddy (`integrations/workbuddy`) | transcript, cursor, pending prompt, assessments | hooks, server, worker | hooks cut off anywhere, a late transcript file | a turn is stored once, with its own answer, and lost only if its Stop was | `WorkBuddy` |
| Elements (`elements.ts`) | cards, facts, jobs | claim, complete, fail | recovery on open | provenance | records only, in `RecordStore` |
| Profile (`profile.ts`, `sqlite.ts`, `runtime.ts`, `client.js`) | fields with their changes, what was maintained or failed, the page with its drafts | update by page and tool, maintenance, read, save, check | answers that come late, out of order or never; maintenance during an edit | no edit taken back, nothing overwritten unseen, no draft lost | `Profile` |
| Daily notes (`daily-notes.ts`) | a file, its backup, a queue by path | write | two runtimes, failures and deaths between read, backup and rename | each change is one whole write | `DailyNotes` |
| Web administration, client, clustering, scores | HTTP, prompts, rankings | | | | not modelled, but for the import and the profile page |

Components interact through the instance (`commitMutation` serialises every change of one process in a queue), through the
database (revision check and lease fence at commit, heartbeats that bypass the revision, dirty keys left by triggers), and through
callbacks in the process (work-changed listeners, timers).  `PROJECT.json` lists each component with its sources and the hazards
with the lines where they bite.

## 2. Modules

| Module | What it is |
|---|---|
| `Derivation` | the instances, the database, the jobs and the activations that work on them |
| `BlockPipeline` | what derivation promises: seal, summarize once, finish once; `Derivation` is shown to implement it |
| `DerivationProofs` | the inductive invariant of `Derivation` and the theorems |
| `ClaimProofs` | the invariant of the claims, on top of it, with the two theorems for punctual heartbeats; and the refinement of `BlockPipeline` by one process |
| `Ingestion` | host sessions, the drain queue, the mutation queue, the open tail, sealing and the background resumption |
| `TurnLog` | what ingestion promises: each complete turn recorded once, the N oldest sealed together; `Ingestion` implements it |
| `GraphProjection` | the jobs of the Knowledge Graph under a policy that changes |
| `GraphRecords` | nodes, edges and facts, merged and superseded, and the views of them |
| `Topics` | the memory-topic directory, its jobs and its allowance |
| `Dreaming` | extends `Topics` with the Agent that reserves the directory |
| `EventPool` | the cards of a namespace and the links between them |
| `DuplicateReview` | extends `EventPool` with the journal of duplicates |
| `ExternalImport` | one import job in two hosts |
| `MemoryUse` | several instances of one memory: uses, expansions, mutation queues, commits |
| `RecordStore` | how a memory becomes rows and is read back |
| `RawIndex` | the full-text index of raw messages |
| `WorkIndex` | the index of due work, its rebuild and the worker |
| `ModelCalls` | structured model calls and the slices of an extraction |
| `Settings` | the turns of a Block as a setting of the installation |
| `SemanticRecall` | vectors of the cards and the semantic lane of a search |
| `SurfaceSync` | the Blocks of one conversation as the model sees them |
| `EvidenceGate` | from a search to the answer that recorded it |
| `WorkBuddy` | hooks, transcript and server of the WorkBuddy plugin |
| `Profile` | the persistent profile between the page, the tool and the maintenance of the hosts |
| `DailyNotes` | a file of daily notes and the runtimes that write to it |
| `IngestionProofs` | the inductive invariants of `Ingestion` and its theorems |
| `ProfileProofs` | the same for `Profile`, `Settings` and `DailyNotes` |
| `MemoryUseProofs` | the same for `MemoryUse` and `SemanticRecall` |
| `ServiceProofs` | the same for `WorkIndex`, `RawIndex` and the bridge of `ModelCalls` |
| `HostProofs` | the same for `EvidenceGate`, `ExternalImport`, `EventPool`, `DuplicateReview` and `WorkBuddy` |
| `GraphProofs` | the same for `GraphRecords`, `Topics`, `Dreaming` and `GraphProjection` |
| `MCDerivation`, `MCIngestion` | instances of `Derivation` and of `Ingestion` |
| `MCGraph` | `GraphProjection`, `GraphRecords` and `Topics`, for safety |
| `MCDirectory` | starting states of the directory, used by the next two |
| `MCHost` | `Dreaming`, `EventPool`, `DuplicateReview`, `ExternalImport`, `SurfaceSync`, `WorkBuddy`, `EvidenceGate` |
| `MCMemory` | `RecordStore` and `MemoryUse` |
| `MCServices` | `ModelCalls`, `WorkIndex`, `RawIndex`, `Settings`, `Profile`, `DailyNotes` |
| `MCSettles` | `GraphProjection`, `Topics`, `ExternalImport`, `SemanticRecall`, with fairness |

`MCGraph` and the MC modules after it hold several components in one run: a behaviour chooses one of them at the start (`part`) and the
others rest in an initial state.  The states of such a run are the sum of the components' and not their product.  Components are composed
where they share state: `Dreaming` with `Topics`, `DuplicateReview` with `EventPool`.

### Derivation

*State.*  `db` is the durable namespace: per Block its status, whether L0-L2 are present (with the `shouldExtract` decision), the
number of extraction results committed, and one job per kind.  `mem[p]` is the copy in process p's instance, `fresh[p]` says whether
its revision is the durable one (the revision numbers themselves are not needed, only their equality).  `work[p][w]` is one
concurrent activation of `processBlock`: where it stands, the Block object it holds, and the identity of its claim.

*Objects.*  JavaScript activations hold references.  `restoreSnapshot` replaces every Block by a clone, so an activation that waited
through a rollback or a reload writes to an object that is no longer in the instance.  `attached` records this; a detached activation
keeps its own copy of the layers, while jobs are always looked up by id in the live map.

*Actions.*  `ClaimSummary`, `FinishSummary`, `FailSummary`, `PickSummarized`, `SkipExtraction`, `ClaimExtraction`,
`FinishExtraction`, `FailExtraction` are the stretches of `processBlock` and `extractEligibleBlock` between two awaits.  `Renew` is one
tick of the heartbeat, `Recover` is `recoverExpiredDerivations`, `Reload` is `reloadFromStorage`, `Seal`, `ManualRetry`, `OtherMutation`
and `RejectedMutation` are the other users of the instance, `Crash` and `Open` end and start a process, `Tick` is the wall clock.
Every commit goes through `CanCommit` (revision and the lease fence of `mergeDerivationLeases`), `Saved`, or `Rejected` with the
objects replaced.

*Abstractions.*  A lookup and the claim it leads to are one step (both are synchronous up to the queue; the wait in the queue is not
modelled for claims).  SQLite calls are synchronous, so a commit is atomic.  `updatedAt`, which identifies a claim with the attempt
number, is represented by attempts and a retry round.  Adjudicating duplicates is part of the extraction call.  `retryFailed` (force)
is not modelled.  A commit that finds nothing to claim is an `OtherMutation`.  Time is in ticks, the backoff is a table.

### Ingestion

*State.*  `host[t]` is the running turn of session t as `TurnFolder` sees it, `log[t]` the finished turns in the host's own log.
`pending[t]` and `batch[t]` are the finished turns that wait and those a drain has detached, with the drain's place in `appendTurn`.
`drains[t]` is the session's drain timer, the chain of drains that wait for each other (`drainTails`) and whether the last one left an error
(`drainErrors`); `flushing[p]` is a flush that waits for them.
`queue[p]` is the mutation queue of p's instance, whose entries (reserve, append, seal, reload) carry what was read before they
were queued.  `resume[p]` is a background resumption of unfinished work.  `db` is the durable open tail, the Blocks and the
receipts, `mem[p]` the copy in p's instance, `fresh[p]` says that its revision is the durable one, `space[p]` whether the runtime
has opened the namespace.  `lost` and `crashes` are history.

*Actions.*  `StartTurn`, `Say`, `EndTurn` are what the folder makes of host events; `Remember` is `recordAgentMemory` asking for
the user message of the running turn to be reserved.  `Flush` and `FlushSettled` are the rounds of `settleIngestion`.  `DrainBegin`, `AppendTurn` and `SealAfterAppend` are the stretches of `drain` and
`appendTurn` before the queue; `RunReserve`, `RunAppend`, `RunSeal` and `RunReload` are the queued halves.  `OpenSpace`,
`SealOnOpen` and `Opened` are `space()`, which seals full threads before it hands the instance out; `ResumeBegin` and `ResumeSeal` are
the worker's and the timers' `resumePendingWork`.  `Restart` ends a process and starts it again.

*Abstractions.*  The tail is kept per thread, because every rule about it (reservation, reply, sealing) looks at one thread; only the
numbering of Blocks crosses threads.  A message is its turn, role, the number of user messages joined in it (what the comparison with
a reservation sees of the text) and the instant its `createdAt` names.  A queued mutation and its commit are one step, because
SQLite calls are synchronous.  A turn without text of the user folds to nothing and is left out.  One resumption per instance
stands for the worker and the derivation timers; after a conflict it reloads and looks again.  Commits of other components only matter
as stale revisions, which two writers produce.  A timer that fires
while its session is drained joins the chain in the code and fires later in the model.  One flush at a time runs in a process, and it waits for
all drains of the process; backoff delays have no length.  Not modelled: an orderly `close`, `deferProcessing`, storage errors other than
conflicts and unique keys, and the processing that follows a seal (which `Derivation` models).

*Redundant checks.*  `sealOpenTail` compares the pending messages with those it read before it waited, and the database has a unique
key on the sequence number.  In the checked instances the second check alone already keeps Blocks whole: a change of the pending messages of a
thread needs a Block, and that Block takes the number.

### GraphProjection and GraphRecords

*State.*  `policy` is the settings row (enabled, paused, epoch, approved Events), which belongs to no namespace revision; `preview` is what
an administrator counted before approving.  `card` and `jobs` are durable, `current[p]` says that p holds the durable revision, `act` is
what each projection is doing, `paid` and `granted` are history.

*Actions.*  `Pass` is one `processNextGraphProjection` up to the model call (revoke what another epoch claimed, queue what is missing,
claim), `Call` the answer and its commit, `StartAdd`/`CommitAdd` an extraction whose Event is queued in a second step, `RetryGraph` the
manual retry, `RecoverGraph`, `ReloadGraph`, `OpenGraph`, `CrashGraph`, `ForgetEvent` what their names say, `Preview`, `EnableGraph`, `DisableGraph` the
administrator.  `Elapse` lets a lease or a backoff end.  `GraphRecords` keeps nodes and edges by normalized name: `ProposeNodes` and
`ProposeEdges` apply a projection (merge by name or alias, supersede facts and edges), `Demotions` changes what the Events are; the view is
computed from both.

*Abstractions.*  A process whose revision is stale gets nothing committed, so one durable copy and `current` replace the copies.  Values, types,
confidence and dates of facts are left out.  `Overlap` allows other work between the look for revoked jobs and the commit (section 4).

### Topics and Dreaming

*State.*  `ver[e]` is the fingerprint of Event e, `topics` the chapters with their members, the versions they were written from and what
the model was shown (`read`), `topicJobs` the jobs that count, `projected`, `rebuild` and `frozen` the ledgers, `used` the allowance of the window,
`hand[w]` a worker's attempt.  `dream` is the durable run, `claims[p]` the claims that code in process p still works under.

*Actions.*  `TopicPass` claims in the incremental lane, reserves a slot or claims history; `TopicAnswer` is success, failure or a split after a
cut reply; `Abandon` an attempt that dies; `EditEvent` a change of an Event with the synchronization that follows; `OpenTopics` freezes
the history.  `StartDream`, `Prepares` (the wait for a running attempt), `ReadEvent`, `ApplyEdit`, `FinishBatch`, `Suspend`, `PauseDream`, `ResumeDream`, `TerminateDream`,
`EndTask`, `DreamCrash` and `DreamLeaseEnds` are the controls and the tools of the Agent.

*Abstractions.*  Every operation is one commit on the durable directory; a stale copy is refused and tried again.  Section titles, overview text and
its repair, older generations, and token accounting are left out.  An answer of the projection may put an Event of its batch into several chapters and take Events of the chapters it was
shown along, `MaxSpread` places more than one per Event of the batch; it makes one new chapter at most.  An Agent of Dreaming is shown lists, search results and other chapters as well as the Events it reads to the
end: an edit may rest on all of that (`Glimpsed` goes into `read`) and depends only on the Events it read (`dep`), as in the code (section 4).

### EventPool, DuplicateReview, ExternalImport

*State.*  `cards` are the stored cards with their links (superseded by, supersedes, conflicts, merged from), `deciding` the recordings that
are out with the model, `undoable` the inverses the host keeps; `revived`, `strays` and `seen` (the cards there were before each undo of an import) are history.  The review adds `journal` (a table of its own), `lease` and `work[a]`,
the step of an operation an actor has reached.  `ExternalImport` has the durable `job`, `applied`, and per host process `run`, `admin`, `page` and `stale`.

*Actions.*  One per operation on cards (`RecordAgentEvent`, `Adjudicated`, `ReviewDuplicates`, `UndoReview`, `CommitImport`, `UndoImport`, `Pin`,
`ForgetEvent`, `RestoreEvent`).  A choice on a pair is `Prepare` (intent saved), `CommitReview` (cards), `RecordChoice` (journal), an undo
`BeginUndo`, `RestoreCards`, `Reopen`; the tick is `RecoverChoices`, `FirstScan`, `ScanAdditions`, `Compare`, `Opinion`.  An actor may die between any two.
The import's `RunStep` is one step of `scheduleExternalMemoryImport`, `GivesUp` the end of its write retries; the page polls (`Poll`), retries,
abandons, commits (`Apply` then `Complete`) and undoes (`RemoveImported` then `MarkUndone`).

*Abstractions.*  A card's text, times and weights are left out; what two cards say is a member of `Fact`.  The decision of an import names
cards that were stored together at some time (`FoundTogether`), now or before an import was undone: it may be stale when it is committed, and name cards that are gone, as in the code, where the commit is given the
revision of the moment (`runtime.ts:3123`) and no target is looked up again (`store.ts:1597`).  When the analysis was made is not kept apart.  MERGE and SUPERSEDE store the same links.

### MemoryUse, RecordStore, RawIndex

*State.*  `MemoryUse`: `db`, each instance's `view`, the calls that wait in its mutation queue (`line`).  `RecordStore`: `mem` (arrays and maps in order), `base` (the committed
copy that a save is compared with), `rows` (tables with positions), `inverse` of a merge.  `RawIndex`: the messages, the words of the index, the row that is
known to be a message's own (`meta`), the marks, and what each process knows of the full-text module (`fast`).

*Actions.*  `MemoryUse` has the stretches of a mutation before, in and after the queue (`Arrive`, `Skip`, `Commit`, `Resume`, `Refuse`), a read that moves a
pointer and a reload.  `RecordStore` has every mutation that moves, cites or removes a record; `ApplyMutation` runs `Statements` in the order
of `sqlite.ts` and rolls back when one is refused, `Patch` is the single-row path, `Reopen` loads and validates.  `RawIndex` has appends, saves of changed
and of all records, writes by a process or version without the module (`ForeignWrite`), the rebuild and the search that repairs first.

*Abstractions of `RecordStore`.*  Jobs, graph, topics, ingestion, import-job and response rows are left out; the source messages of a card are a set; a summary
and its extraction are one step; the compatibility of merged cards is not examined.  The decay rate is 1 instead of 0.3, so that two Blocks are
enough for a pointer to move.  Usage receipts are kept out of `ReloadIsSnapshot` (section 4).  In `RawIndex` a message has one word, and a search of
a namespace that was never saved is left out.

### WorkIndex, ModelCalls, Settings, SemanticRecall

*`WorkIndex`.*  `record` is when a namespace's jobs want to be woken and whether Events wait for the graph, `due` and `mark` are the two tables, `worker[p]`
the loop (its list, what it read, its rest, its news).  `Save` writes rows and times together; `DirectWrite` leaves a mark with a new
generation, as the triggers do; `ReadJobs` and `KeepTimes` are the two transactions of a rebuild; `ScheduleBackgroundWorker` is the end of a pass,
`PassEnds` one before it has listed anything, because no model is ready or a table cannot be read: the news it had waits for the next poll, 3 seconds at most.
*`ModelCalls`.*  `call[c]` is one structured call with its slices, `capability` what is known of a route, `ring` the raw responses the next save takes.
`Send`, `Receive`, `TooLarge`, `NoAnswer`, `NoAdapter`, `OffRejected`, `LoseLease` are the ways an attempt goes on.
*`Settings`.*  `setting`, `live`, `row`, `space`, `admin` are the five places of the value, `apply` the change that runs.  Loading and saving an
instance are separate steps, a save is accepted at the row's revision only.
*`SemanticRecall`.*  A text is the number of its version, a vector the text it was made from; `lane[a]` is a search between its awaits, `sweeps` the
requests in flight.

*Abstractions.*  A model's reply is a record (cut or not, holds the call, what text, what it cites).  In `WorkIndex` a namespace's jobs are summarized by their wake.  In `Settings` one host is
modelled.  The vector space of a query is left out of `SemanticRecall` (section 4); the decay rate as a setting takes the same steps as the Block size and is not
modelled apart.

### SurfaceSync, EvidenceGate, WorkBuddy

*`SurfaceSync`.*  `kept` is the memory's opinion of each Block, `native` the live session, `saved` what the session file has; `task` are the background run, the
request that assembles a prompt, and a user's pick, each with its place; `queue` and `saves` are commits and saves that wait.
*`EvidenceGate`.*  `batches`, `using`, `recorded`, and the host's `loop` as the listeners of the plugin see it; `recovery` and `steered` are the plugin's own state.
*`WorkBuddy`.*  `said` is what happened, `written` how much of it the transcript file shows, `prompt` and `cursor` are files, `stored` the memory, `op` an
operation that opens the memory, may conflict and tries again.

*Abstractions.*  The host's session, loop and file are external and modelled from how the plugin uses them.  Sizes of checkpoints grow by one with the level.
In WorkBuddy `missed` is history, the answered turns whose Stop never came or ended before its append.  A transcript does not shrink or move, each end of a turn is announced once (`StopsPerTurn`) and the hook of a prompt is not cut off before it saved it
(`PromptsReach`); section 4 says what happens otherwise.

### Profile, DailyNotes

*State of `Profile`.*  `profile`, `changes`, `basis`, `maintained` and `failed` are the tables; the revision of a field is the position of its last change.
`run[h]` is the profile host h has sent to the model.  The page has what it shows (`shown`), the editor and its drafts, the conflicts, what became of the
last save of each field (`result`), its reads under way (`gets`), its save (`saving`) and the saves it gave up that the server may still receive (`strays`).

*Actions.*  `UpdateProfileField` is the immediate transaction that page and tool share; `StartMaintenance`, `ApplyMaintenance`, `MaintenanceFails`, `PauseEnds` and `HostStops`
are `runProfileMaintenance` around its model call.  The page is opened, hidden, shown and closed (`OpenPage`, `HidePage`, `ShowPage`, `ClosePage`); it polls, edits, cancels,
reloads a field, saves and checks a save; a request is answered (`ServerReads`, `ServerSaves`, `StrayArrives`) apart from the arrival of its answer (`ReadArrives`, `SaveAnswered`),
and may fail or be lost (`ReadFails`, `SaveIsLost`).

*Abstractions of `Profile`.*  A text is what it says and how long it is, empty, short or long: maintenance may shorten it and keeps what it says.  The minutes of a pause and the days until
maintenance is due pass at any time (`PauseEnds`, `late`); the count of failures is left out, so that every failure pauses or not.  One page; the notices that fade after some seconds are left out.

*`DailyNotes`.*  `line[q]` are the writes that wait in the queue of a path, the first one under way: `Load` reads and works out the text, `KeepBackup` copies the old file, `Rename` puts the
new one in place, `WriteFails` and `ProcessDies` cut a write off.  The runtimes share a process, as the queue does (section 4 for two processes).  What an item says is a model value.

In `MCServices` a behaviour of these two is about the page (with the tool), about the maintenance of two hosts (with the tool), or about the notes.  Page and maintenance are not multiplied: to the page a
change by the maintenance is a change by somebody else, as one by the tool is, and maintenance does not look at the page.  `ProfileProofs` makes no such cut.

## 3. Runs

| Run | Instance | Checks | States |
|---|---|---|---|
| `shared` | `Derivation`: 2 processes, 1 activation each, 1 Block, 2 attempts, 5 ticks, 1 crash, throwing mutations allowed, punctual heartbeats | `RevisionDeterminesContent`, `CallsArePaid`, `OnlyTheHolderEndsAClaim` | 179,017 |
| `steady` | `Derivation`: 1 process, 2 activations, 3 attempts, 20 ticks, a manual retry, 2 crashes, no throwing mutation, fairness | `NoForgottenWork`, `PipelineSpec`, `SealedBlocksSettle` | 42,888 |
| `ingest_one` | `Ingestion`: 1 process, 1 session of 3 turns, N = 2, up to 2 user messages per turn, reservations, flushes, 1 restart | `NoTurnIsDropped`, `ImplementsTurnLog` | 451,976 |
| `ingest_two` | `Ingestion`: 2 processes, a session of 2 turns and one of 1, N = 1, 1 restart, no reservations | `StoredInOrder` | 553,730 |
| `ingest_live` | `Ingestion`: 2 processes with a session of 1 turn each, N = 1, fairness | `FinishedTurnsAreSealed` | 27,271 |
| `graph` | `GraphProjection` (2 processes and 1 Event, or 1 process and 2 Events; 2 attempts, 2 changes of policy, 1 crash), `GraphRecords` (2 Events, 2 names, 2 proposals), `Topics` (2 Events, 2 workers, 2 versions, 2 attempts, 1 split, 1 place more than one per Event in an answer) | `CallsWithinBudget`, `ViewIsProven`, `ProseIsCurrent` | 1,609,610 |
| `settles` | `GraphProjection`, `Topics`, `ExternalImport`, `SemanticRecall`, each with fairness | `ApprovedHistorySettles`, `TopicsSettle`, `ImportSettles`, `CardsGetVectors`, `LaneIsCurrent` | 35,642 |
| `host` | `Dreaming` (2 processes, 2 claims; answers of the projection as in `Topics` with `MaxSpread` 0), `EventPool` and `DuplicateReview` (4 cards, 4 operations, 2 facts in the pool by itself, 1 death), `ExternalImport` (2 hosts, 2 candidates, 2 clicks, 1 death), `SurfaceSync` (2 Blocks, 3 levels, 2 capacities, 2 events), `WorkBuddy` (2 turns, 1 cut, hooks that read 3 entries at most), `EvidenceGate` (3 batches, 2 calls, 2 answers) | `DirectoryIsReserved`, `OnlyImportsRevive`, `LinksResolve`, `JournalIsTrue`, `AnswersFitCandidates`, `ChoicesAreKept`, `SurfaceIsSettled`, `TurnsAreTrue`, `AnswersAreFinal` | 1,406,698 |
| `memory` | `RecordStore` (2 threads, 8 ids, 5 operations, 1 patch), `MemoryUse` (2 instances, 3 calls, 2 memories, 1 failed commit) | `ReloadIsSnapshot`, `SavesGoThrough`, `ReceiptCountsOnce`, `SameRevisionSameMemory` | 457,167 |
| `services` | `ModelCalls` (2 callers, a Block of 3 units, 2 attempts, depth 2), `WorkIndex` (2 namespaces, 1 host, 2 foreign writes), `RawIndex` (1 message, 2 words, 2 processes, 4 writes), `Settings` (2 namespaces, 1 change, 1 save, death or failure), `Profile` (2 fields, 1 of them maintained, 2 hosts; 3 changes with the page, the last one its own, 5 with the maintenance; 1 save given up and on its way), `DailyNotes` (2 runtimes, 2 items, 2 notes, 2 writes at a time) | `ResultsAreWhole`, `IndexIsHonest`, `NewsIsHeard`, `SearchMissesNothing`, `SettingsReachEverySpace`, `EditsOutlastMaintenance`, `PageKeepsUp`, `DraftsAreKept`, `WritesAreWhole` | 881,119 |
| `ingest_orphan` (violation) | a restart during a turn whose user message is reserved | `FinishedTurnsAreStored` | |
| `seals_collide` (violation) | an import between two Blocks is undone | `SealsGoThrough` | |

What the runs show, hazard by hazard, is in `PROJECT.json` (`hazards`, `runs`); each property carries a comment that states it and, where a
document or a comment of the code promises it, quotes that.  The type invariants (`TypeOK`, `GraphTypeOK`, `DreamTypeOK`,
`StoreTypeOK`, ...) are stated for readers and for work on a module; add one to a cfg to check it. Those of `Derivation`, `Profile`, `EvidenceGate`, `ExternalImport` and `GraphRecords` are theorems.

*Bounds of `Derivation`.*  `MaxClock`, `MaxRound` and `MaxCrash` bound the clock, the manual retries of one job and the crashes.  One Block is enough for
the derivation because Blocks share nothing but the revision, and `OtherMutation` produces every revision another Block could.  The
clock of each run is longer than a lease plus a backoff, so a claim can be lost, recovered, claimed again and lost again.  In `steady`
the horizon of 20 ticks is never reached: two crashes, three attempts per job and a manual retry use up fewer.  The lease is two ticks, so that a heartbeat
can be on time, late by one and missing.  Every run turns deadlock checking off, because the clocks and the budgets end and a system
in which everything is done may stop.

*Bounds of `Ingestion`.*  `MaxTurn` is the number of turns of each session, `MaxParts` the user messages in a turn, `MaxCrash` the restarts,
`MaxDrains` the drains of a session in the chain (one that runs and one that waits for it).
Three turns at N = 2 give a full Block, a turn behind it, and a batch in which some turns are committed and others are not; a
reservation may stand before, between or behind them.  With N = 1 every append seals, so two sessions meet in the conflicts of
appending and sealing, and a resumption that seals the other session's thread competes with a drain in the same queue for a number.
Reservations are off in `ingest_two` and `ingest_live`, and flushes in `ingest_live`, because of what the violations show: with
reservations order and progress do not hold, with flushes progress does not.

*Bounds of the projections.*  One Event moves through a job that is revoked, deferred, split and retried; two are needed for a batch to be
split and for a chapter to rest on another's Event.  Two changes of the policy are an off and an on under a running projection.  The allowance of one
call makes history wait.  With `MaxSpread = 1` an Event gets into two chapters, or one of an old chapter into a new one, from which a later answer inherits; `DirectoryIsReserved` asks only who writes, and is checked
without.  `MaxProposals = 2` gives a merge by alias of what another projection wrote.

*Bounds of cards, imports and storage.*  Four cards are two originals, what replaces or joins them and one more that an import brings; four operations
are a merge, an import over it and the undo of each.  Under review all cards say the same; a fact is then out with the model only when its equals are superseded.  The pool by itself has two facts for
its first three operations, so that a recording can be ambiguous beside current cards, and an import it resembles can be undone before the decision arrives; what other cards it starts with, and its fourth operation, are about one fact.  Two candidates let an answer come to the wrong one, two hosts repeat each other's calls.  Five operations of
`RecordStore` seal two Blocks with their Events and merge, project or import across them; the violation needs six.  Two instances and three calls give `MemoryUse` a
retry of a use that another instance has committed, with a call before it in the queue.

*Bounds of services and hosts.*  A Block of three units in two messages can be cut twice, once within a message.  Two writes that leave a mark are one
before and one during a rebuild; one more host would only repeat what `DirectWrite` does.  Four writes of a message are an append, a seal, a change and a
deletion by any mix of processes.  Two Blocks are enough for one to give way to the other; with two capacities a session can outgrow its model; two events leave the
interleavings of three writers, their commits and their saves.

*Bounds of the profile and the notes.*  Three changes are one that the page sees, one it does not, and a save between or after them; a field can be changed and changed back.  A save that was given up may arrive after the
next one was sent.  Five changes let an edit come between two results of the maintenance.  Two writes at a time are one under way and one that would read what it replaces.

*Symmetry* of processes, activations, Blocks, Events and workers of the directory, conversations, calls and instances is used for safety runs only.

*Fairness* (`LiveSpec`).  A started activation goes on: model calls end (`llm.ts` gives each a timeout) and the mutation queue is FIFO.
A worker run over the namespace happens, and recovery runs in it, only while the index says that the namespace is due (`CoreDue`),
because that is all that the background worker looks at; a host restarts after a crash.  Nothing is assumed about sessions, heartbeats,
reloads or users.  Time passes while a backoff or an orphaned lease has to run out.

*Fairness of `Ingestion`* (`FairSpec`).  A drain timer that is set fires, and the callback of a timer's drain sets it again while turns are
left; this is an effect of `AfterDrain` and not assumed.  The mutation queue is FIFO and each entry ends; a flush or a `space()` that began goes
on; the worker polls.  Nothing is assumed of users, of the end of a turn, of `memory_remember`, of new flushes or of restarts.

*Fairness of the projections* (`GraphFairness`, `TopicFairness`).  The worker runs a namespace while the index says it is due (`Due` is `backgroundWorkTimes` for
the graph), a pass that began goes on, calls end and time passes.  Strong fairness stands where passes of other work enable and disable a
step over and over: recovery and reload of a stale instance, and the claim of history, which needs a slot of the allowance.  Nothing is assumed of
administrators, retries by hand, crashes or new Events.

*Fairness of an import and of the semantic lane* (`ImportFairness`, `RecallFairness`).  A host that analyses a job goes on, finishes the second transaction of a
commit or an undo, and a page that is open polls.  A search that began goes on and is scored; a sweep is answered well at last and the cooldown
passes.  New searches are assumed as well: vectors are only computed when somebody searches.

## 4. What the violations show, and what else came up

The two violations that have a run:

* `ingest_orphan`: a restart between the reservation and the end of the turn leaves a user message without a reply in the tail.
  `completeOpenUserCount` counts the complete turns behind it, `pendingBlockMessages` stops at it.  With N complete turns the thread is
  full and cannot be sealed; `sealOpenTail` throws, and `space()`, which seals first, can no longer open the namespace.
* `seals_collide`: `sealOpenTail` numbers a Block by the count of Blocks (`store.ts:3582`), an import by the highest number.  After an import between two Blocks is
  undone the next seal takes a number that is in use, and the unique key refuses it; with two undone imports a seal can also get a number below an earlier one's.

The following were found with the same models.  Each has a constant that switches it on, or a property that fails without its exception; the passing
runs keep it off so that they show everything else.

*Derivation and ingestion*
* A throwing mutation during a summary (`RejectedMutations = TRUE` in an instance like `steady`, whose `PipelineSpec` then fails): `processBlock` writes the validated layers to the Block object it captured before the
  model call.  If any mutation of the same instance throws meanwhile, the objects are replaced, and the summary job is committed as succeeded without its layers.
* A late heartbeat (`Punctual = FALSE`, `OnlyTheHolderEndsAClaim` fails): `recoverExpiredDerivations` decides before it waits for its turn in the queue, and the fence
  compares with the lease as the instance knows it at commit time.  A heartbeat that fires late but before the commit refreshes both, and the recovery ends a claim that is alive.
* A crash in a manual retry (`InterruptedRetry`, `store.ts:895`): the job is reset in one commit and claimed in another; cut off in between it reads failed
  without a retry time, and only the user can try again.  `NoForgottenWork` and `SealedBlocksSettle` except exactly this state.
* With reservations (`Remembers = TRUE`): a second user message after a reservation makes `appendTurn` throw on every retry and holds the session's queue
  (`FinishedTurnsAreStored`); a reservation that is committed while earlier turns wait for their drain puts the history out of order (`StoredInOrder`).
* With flushes (`Flushes = TRUE` in `ingest_live` with two sessions of one process): a flush clears the timers and drains at once; when such a drain fails the turns are put back without a timer.
* A reserved message keeps the time at which it was asked, and `sealedSurfaceSeqs` looks for the times at which turns ended: such a Block is retired and its native turns stay.  The database index counts reserved
  messages as turns (`sqlite.ts:2089`), so the worker may be woken with nothing to seal.

*Graph and topics*
* `Overlap = TRUE`: other work of a process gets in between `prepareGraphWork`'s look for revoked jobs and its commit.  Two activations of one process then find the same job revoked and both replace it
  (two workers, three changes of policy), and `CallsWithinBudget` fails.
* `MaxGraphRetry = 1`: `retryGraphProjection` gives a revoked record another error but leaves its claim epoch (`store.ts:945`), although the comment at 929 calls the old record an audit trail.  The next pass takes it for a job
  that has just been revoked and replaces it, beside its retry and the replacement it already has; `CallsWithinBudget` fails with one process, one Event and three changes of policy, without `Overlap`.  `graph` therefore allows
  no manual retry.
* An Event that is approved and then forgotten keeps `prepareGraphWork` looking for work (`store.ts:3409`).
* An Agent of Dreaming is shown lists, search results, Blocks, nodes and the overviews of other chapters (`src/dreaming.ts:40-112`), and what it writes may repeat any of that; the chapter depends only on the Events it has
  read to the end (`dreaming.ts:438`).  When an Event that it only glimpsed is forgotten, the chapter is not redacted: `ProseIsCurrent` fails under `DreamSpec` and is stated and proved for the projection only.
* A node that was stored without `metadataProvenance` (before there was any) shows its name and aliases without a source (`graph.ts:70`, `197`; `store.ts:3313`).  `GraphRecords` starts empty and has only nodes with
  provenance, so `ViewIsProven` says nothing about such nodes.

*Cards, journal and import*
* Undoing an import, and a stale SUPERSEDE of an import, bring back an original that was merged into another card (`store.ts:1690`, `3150`), although `restoreEvent` refuses exactly that
  (`store.ts:2470`): `OnlyImportsRevive` says that nothing else does, and `MergedOriginalsStayArchived` fails.  Afterwards `validateReferences` can throw at the merged card's sources, and
  the namespace does not open (`store.ts:4215`).  A superseded card can also lose its successor with an undone import (against the comment at `store.ts:2528`).
* A decision about a recording that arrives after the import of its target was undone: `applyAgentEventDecision` sees that the target is not current any more (`store.ts:2896`) and marks a conflict instead, and
  `writeAgentEvent` writes the conflict (`store.ts:3028`) with the card that is gone.  No later undo scrubs it.
* An import decided before another one was undone: import A is committed, B is analysed against A's card, A is undone, B is committed.  The commit passes the revision of the moment (`runtime.ts:3123`), so the comparison with the
  revision of the preview (`store.ts:1587`) never refuses; the targets are kept as they were decided (`store.ts:1597-1610`), and a target that is not found is only skipped when it would be marked (`store.ts:3148`).  B's card
  then names A's as replaced, or as in conflict.  `LinksResolve` keeps both kinds of strays apart (`strays`) and says that there is no other link to a card that is gone; without the exception TLC finds the
  import in three steps.
* Two hosts that commit one import at the same time may each store it (`ImportedOnce` fails): the cards and the status are two transactions.  A late
  `failExternalMemoryImportJob` turns a ready or committed job to failed, and a retry of it stays in processing; with `PersistErrors = TRUE` or two hosts `ImportSettles`
  fails, which is why the liveness run has one host.
* The usage receipts of an undone import are scrubbed in memory but stored with ON CONFLICT DO NOTHING (`sqlite.ts:2007`), so the stored ones keep removed ids
  (against `docs/EXTERNAL_MEMORY_IMPORT.zh-CN.md:97`); `ReloadIsSnapshot` leaves receipts out.
* On load an element's sources come from passive Events only (`sqlite.ts:1090`), in memory from both pools; elements are modelled with Event ids only.
* Two calls that record the use of one batch side by side reinforce twice (`runtime.ts:1371` reads the status before the await, `1473` names the receipt by call; against `docs/DSH.md:111`).
* `persist` takes `committedMetadata` after its await (`store.ts:4092`): pointers that moved in between count as committed and are not written until they move again.
* `JournalIsTrue` is stated for one pair (two cards at the start); with more, a pair can be joined through another pair's choice.

*Services and hosts*
* `ControlIsCut = TRUE`: the graph policy is changed in one transaction and the schedule rebuilt in another (`runtime.ts:499`).  A process that dies in between leaves an index that says there is nothing
  to do, and `IndexIsHonest` fails until any other write marks the namespace.
* `Retries = TRUE` with `MaxSets = 2`: a change of the Block size that meets a conflict cannot be rolled back (`restoreSnapshot` throws, `store.ts:4097`), the instance keeps the new size at the old
  revision, and repeating the change returns early as a success (`store.ts:723`) while the row keeps the old size (against `docs/DSH.md:279`).  A second host with
  another value in memory rewrites a row when it opens it.
* `RepairsFail = TRUE`: a failed commit of a repair on the request's path is remembered by nobody, and `SurfaceIsSettled` fails.  A failure that marks the surface dirty does not count as a new mark,
  so a run in flight clears it.  A repair can complete a user's request whose own commit failed, while it stores only the levels of repaired Blocks: this is why `ChoicesAreKept` says "unless upkeep is still due".
* `StopsPerTurn = 2` or `PromptsReach = FALSE` in `WorkBuddy`: a second end of a turn, or a prompt whose hook was cut off before it saved it, gives a turn the answer of another (`TurnsAreTrue` fails).
* A Stop of WorkBuddy that is cut off, or gives up after its conflicts, before its append loses its turn: the next Stop reads the transcript from the old cursor, but folds its own turn only and moves the cursor past both
  (`hook.ts:87-104`, `transcript.ts:69-87`; against `integrations/workbuddy/README.md:3`, "`Stop` incrementally ingests the transcript into L5").  `TurnsAreTrue` keeps these turns in `missed` and says that no other is
  lost; without the exception it fails with one cut and two turns.
* In the model bridge the ring of responses is shared by all namespaces; summaries, projections and the external extractor accept a cut reply whose call is
  complete; the decider of an import is not checked for Event ids that were not supplied.
* The semantic lane reads the configured model after it has awaited the query's vector (`runtime.ts:1632`), and rows carry the model but not the endpoint, so vectors of two spaces can be
  compared (against `embedding.ts:32` and `runtime.ts:3236`).
* The queue of daily notes belongs to a process (`daily-notes.ts:8`), and the file is not locked: two processes that write at once each read, back up and rename, and one loses the other's item.
  `WritesAreWhole` is stated for the runtimes of one process, which is what the comment at `daily-notes.ts:37` promises.
* While a mutation of a whole snapshot is written, the instance's own copy is changed already, and is put back if the write fails (`store.ts:4042`): a read in between sees what is not stored yet.  In `MemoryUse` the copy
  follows its commit on every path.  What is stored is the same, and `ReceiptCountsOnce` is about that; `SameRevisionSameMemory` is about an instance between its mutations.
* An append indexes messages of the open tail although a repair indexes only those of Blocks, which is harmless; a search of a namespace that was never saved fails a foreign key and switches the index off for the process.

## 5. Proofs

TLAPS proves the following for every value of the constants that the modules' assumptions allow, so without the bounds of section 3.  Each invariant below was first
checked by TLC on the instances of section 3, then proved inductive: it holds initially, every action keeps it, and it implies the property.

### Derivation (`DerivationProofs`, `ClaimProofs`)

* `TypeCorrect`: `Spec => []TypeOK` (so attempts never exceed `MaxAttempts`);
* `RevisionCoherence`: `Spec => []RevisionDeterminesContent`;
* `BudgetRespected`: `Spec => []CallsArePaid`;
* `Readiness`: `Spec => ReadyIsFinal`, also where mutations throw and `PipelineSpec`, which would imply it, fails.

The invariant `IInv` adds three facts to the properties: a ready Block has its layers, in the database and in every copy
(`ReadyHasLayers`), a job that does not exist has no attempts, and an activation that is not idle has a Block (`ActiveWork`).  The proof
is in three layers.  `Sound(s)` says what a store must satisfy to be committed; one lemma shows that a commit of a sound store by a
process at the durable revision preserves the invariant, another that a rejected one does; then each action is shown to commit only
sound stores.  `ReadyIsFinal` follows because a commit needs the durable revision, at which the writer's copy agrees with the
database, and no action of the code takes a Block out of `ready`.  All four hold for late heartbeats too, which `shared` leaves out so that one run can check the claims as well.

About claims, for punctual heartbeats and with everything else the model has (crashes, stale copies, throwing mutations, recovery, manual retries):

* `ClaimsAreExclusive`: `Punctual => (Spec => [](ClaimsHeld /\ OneHolder))`;
* `HolderEndsClaim`: `Punctual => (Spec => OnlyTheHolderEndsAClaim)`.

That `Punctual` is a hypothesis is no weakness of the proof: section 4 describes the late heartbeat with which the property is false.  `ClaimInv` says that every activation at work has the unexpired claim of
its own job in the database (`ClaimsHeld`) and that no two have the same one (`OneHolder`), also in the moment between a rejected commit and the failure it reports.  To keep the second, a job that ends must
stay ended: `Written` says that layers are there exactly when a summary has succeeded and that an extraction has run only over layers that ask for it, `Grows` that no stale copy knows of a summary
that the database has not, and `RoutedFits` that an activation which skips the extraction on the word of an orphaned Block is not mistaken, so that it ends nobody's claim.  `SameDbKeeps`, `QuietCommitKeeps` and `CommitKeeps` are the three
ways an action can go: it leaves the database alone, it commits and touches no job that is held, or it commits about the one job it holds or claims.  The recovery is the second kind: what it sweeps has run out by
the lease its copy knows, and the fence of the commit refuses it when the lease in the database has moved on (`SweptGood`).

One process by itself does what `BlockPipeline` promises.  `Alone(p)` says that p is the only process, that heartbeats are punctual and that no mutation throws, which is the setting of the run `steady`, for any
number of activations, Blocks, attempts, retries and crashes:

* `DerivationIsAPipeline`: `Alone(p)` implies `Spec => PipelineSpec`;
* `NoWorkIsForgotten`: `Alone(p)` implies `Spec => []NoForgottenWork`.

Without any one of the three the refinement fails, as TLC shows.  Of two processes one can have a commit refused and reload while its activation is out with the model, and what that activation returns goes to an object nobody
stores: Events are committed without the readiness that should come with them.  A mutation that throws replaces the objects in the same way, and after a late heartbeat two activations summarize one Block.  Work is
forgotten with a second process and with throwing mutations; late heartbeats are excluded there because the proof goes through the claims.  `SoleInv` adds to the invariants above that the copy is the database
(`Current`), that every activation holds an object of the copy (`Objects`), and what a Block's jobs may look like at each of its stages (`Settled`): before it is ready it has no cards and its extraction has neither succeeded nor been
skipped, and its summary is one that somebody will look at again (`Awake`).  With one process no commit is refused (`NothingRefused`, which needs the claims of `ClaimInv`: the recovery takes no claim that is held), so every action is a
stutter or one step of the pipeline: `SealMoves` seals, `FinishSummaryMoves` summarizes, and `FinishExtractionMoves` and `SkipExtractionMoves` finish.  `CoreWake` is then defined for every Block that has attempts left.

### Ingestion (`IngestionProofs`)

* `TurnsAreNotDropped`: `Spec => []NoTurnIsDropped`, with reservations, flushes and restarts;
* `HistoryStaysInOrder`: `Remembers = FALSE` implies `Spec => []StoredInOrder`.

That a turn is held or stored is not inductive by itself, because two places decide what a drain does with its batch.  `TurnInv` adds: receipts are never forgotten, and a copy at the
durable revision knows all of them (`ReceiptsKept`); the operation a drain has in the mutation queue is the only one of its session, stands in the queue of the session's process and is about the *first* turn of the
batch (`QueuesFit`), so what `RunAppend` reports as known or stored is the turn that `Completed` removes; and a batch that goes on to seal has the receipt of its first turn in the database (`BatchesFit`), so a
seal that succeeds may complete it.  Three lemmas (`TurnedKeeps`, `GiveBackKeeps`, `CompletedKeeps`) say what each outcome does to the turns that are held, `SavedKeeps`, `LoadedKeeps` and `UnsavedKeeps` what
a commit does to the receipts, `PushKeeps`, `DoneKeeps` and `DoneThenKeeps` what the queue keeps; an action is one of each.

For the order of the history, `OrderInv` relates what is stored to what still waits.  The database and every copy are in order, each of their messages belongs to a turn they have the receipt of, and a copy at the durable
revision equals the database (`StoresFit`).  The *line* of a session, its batch and behind it its pending turns, is in order too, its turns are over, and one that is not stored yet comes after everything that is
(`LinesFit`); so the turn a drain appends is the newest of its thread and belongs at the end (`TurnFits`).  A drain only keeps the line or takes its head away, however often turns are put back (`LineMoves`), a turn that ends goes
to its end, and a seal moves the beginning of the tail into a Block (`BlockBegins`, `BlockFits`).  An append that found its message reserved is one whose turn is stored already (`OpsFit`); that is what fails with reservations
(section 4), and the reason for the hypothesis.  The model drops the messages of a sealed Block from the beginning of the tail, where the code filters their ids out: ids are unique, and the mutation has just compared the two.

### Full-text index, work index and model bridge (`ServiceProofs`)

* `SearchesAreComplete`: `RawSpec => []SearchMissesNothing`;
* `WorkersHear`: `IndexSpec => []NewsIsHeard`;
* `TheIndexIsHonest`: `~ControlIsCut` implies `IndexSpec => []IndexIsHonest`.

`RawInv` adds that a process whose module works has put the triggers up, that a namespace that was never saved has no messages, and that an index which counts as complete in a file with triggers
finds every sealed message that has no mark (`Covers`).  `Effect` says in one formula what each operation on the index may do to a row; appends, saves, repairs and foreign writes are shown to have it.

`NewsIsHeard` follows from what a worker keeps from step to step (`Heard`).  For the honesty of the index the keys a pass has taken carry the generation of their mark (`KeysOK`), and what it has read is still
what the record says unless the mark has a newer generation (`ReadOK`); so a pass that clears a mark writes times that are true.  `ControlIsCut` is the death of a process between the two transactions of
a change of the graph policy (section 4): the code does not exclude it, and with it the property is false.  It is a constant for that reason, and a hypothesis of this theorem only.

* `ResultsStayWhole`: `BridgeSpec => []ResultsAreWhole`.

An extraction divides its Block and reads the slices one after the other, and divides again what a limit cut.  `ReadingFits` says what it has in hand: the slices it has still to read follow each other up to the last unit
(`Joined`), what was read follows each other from the first unit on and was not cut (`ReadOn`), and the next slice begins where the reading stopped (`SlicesFit`).  A slice that is divided leaves a row of slices joined
(`CutsStayJoined`), one that was read moves from the one row to the other (`ReadingsStayJoined`), and only an extraction with nothing left to read is done.  `ReplyFits` is about the tasks that are not divided:
what was accepted was not cut where that matters, and cites what was supplied.

### Profile (`ProfileProofs`)

* `ProfileTypes`: `ProfileSpec => []ProfileTypeOK`;
* `EditsSurvive`: `ProfileSpec => []EditsOutlastMaintenance`;
* `PageIsUpToDate`, `DraftsStay`: `ProfileSpec` implies `PageKeepsUp` and `DraftsAreKept`.

`ProfileInv` has a part about the tables and one about the page.  In the tables the last change of a field holds its text, and its last edit says what its text says (`LastIsCurrent`, `LastEditSpeaks`): the
comparison of the whole input is what makes the second survive a result of the maintenance.  On the page at most one request is under way, and the editor and the drafts agree (`PageShape`); every answer that may still be shown
was stored and is not older than what is shown (`AnswersAreStored`), which is why the page aborts its reads when a save begins; nothing is edited or given up that the page has not shown (`EditsAreSeen`); and a check
asks for the save of which nothing is known, while the draft keeps its base (`ChecksAreAsked`), which is why typing is possible and starting over is not.

### Settings and daily notes (`ProfileProofs`)

* `SettingsReach`: `Retries = FALSE` implies `SettingsSpec => []SettingsReachEverySpace`;
* `NotesAreWhole`: `NotesSpec => WritesAreWhole`.

`SettingsInv` says, while nothing has failed, where a change stands (`ChangeGoesOn`): what it has visited has its size, in the record and in an instance that is open; and what an instance knows of its record
(`RowsHonest`): at the record's revision it has the record's size or is about to save the host's, and one of a session has the host's size only where the record has it.  With `Retries` the property is false (section 4), so the hypothesis is needed.  `NotesInv` says that from the moment a write has
read the file until it renames, the file is what it read and the backup is that too (`HeadHasRead`), because every other write waits behind it (`OthersWait`).

### Memory in use (`MemoryUseProofs`)

* `UsesAreCounted`: `UseSpec => []ReceiptCountsOnce`;
* `CopiesAgree`: `UseSpec => []SameRevisionSameMemory`.

`UseInv` adds where a call and a copy stand.  A call waits at one place of one queue, and only the one that holds the queue has committed (`LineOK`).  A copy is never ahead of the database and
agrees with it at the stored revision; one that has still to follow its own commit is behind, and will agree when it does, unless somebody has committed after it (`ViewOK`).  The second part is what a commit that patches
single rows has to earn: `WrittenFollows` says that the patched rows and the operation done again on the copy give the same.  A receipt that is not in the store counts one use of each memory
it names (`DoneCounts`), and one that is there makes no commit.  The pointer is left out of the agreement: reading the context lets it decay in the copy alone.

* `SemanticLaneIsCurrent`: `RecallSpec => []LaneIsCurrent`.

`RecallInv` says that a stored vector has the hash of the text it was made from, or none (`VectorsOK`), that there is one for a card and a model, and that a request asks for a card once (`SweepsOK`), so a vector that
arrives late is stored under the text it was computed from and not under the one the card has by then.

### Answers, imports and cards (`HostProofs`)

* `EvidenceIsTyped`, `AnswersStayFinal`: `EvidenceSpec` implies `[]EvidenceTypeOK` and `[]AnswersAreFinal`;
* `ImportIsTyped`, `AnswersFit`: `ImportSpec` implies `[]ImportTypeOK` and `[]AnswersFitCandidates`.

`EvidenceInv` says what a recovery means at each place of the host's loop.  A phase `answer-complete` belongs to a message that was complete and is still the last, and a step of a cleanup begins
with batches to close, which nothing closes before tools run again (`RecoveryOK`, `UsesOK`); so a turn that stops in another phase with every batch closed has had an attempt at its answer.  The two bounds are
sums (`SteeredOK`): while a cleanup lasts, the times it sent the turn back and the stops it has left make the batches it first found and one; and the times an answer was asked for again stay below the attempts at it, which `MaxAnswers`
bounds.

`ImportInv` relates the job to the runs that two transactions apart decide about it.  Only a job without candidates waits for a recovery (`JobOK`), so a new list of candidates never meets a decision
about the old one: a run that decides has the list of the job and a place in it (`RunsOK`).  Every step leaves the list, replaces it where there was none, or adds the decision that is next
(`Moves`).

* `LinksAlwaysResolve`: `PoolSpec => []LinksResolve`.

The undo of a review is what makes it hard: it puts old records back, with links that were redirected since.  `LinksInv` says of every inverse that a link it would put back is in the records the review left, or leads to one of them
(`InverseKept`); the undo compares exactly these with the pool first, and what is in the pool names what is in the pool (`PoolLinks`), strays excepted: what a late decision names although it is gone (section 4).  `ReviewedCard` is what the three kinds of review have in common.

* `OnlyImportsEverRevive`: `PoolSpec => []OnlyImportsRevive`.

Undoing the review of a merge brings back what this merge archived; the property is that this was the *last* merge which held it down.  `ReviveInv` therefore follows the merges backwards.  Every original a card has was given to it by a
review whose inverse is still there, unless an import brought it back (`AllGiven`); each review has a stamp of its own, and its cards were only edited since (`Stamped`, `Apart`, `Ahead`), so that what a later
review found of a card is what an earlier one left, or a later version of it (`Chained`); and what a later review would bring back was no original of a card that an earlier one changed (`Parted`).
`NoneIsLeft` draws the conclusion: were there another card with the same original, then a last review would have given it, and that review rules it out.

* `JournalStaysTrue`: `FirstCards = 2` implies `ReviewSpec => []JournalIsTrue`.

A choice is three transactions, and the worker or the user may die between any two, be overtaken when a lease ends, or find the journal rescanned.  `ReviewInv` says, as long as no other write changed the cards, that the two cards are
either as before any choice (`Untouched`) or one stands for the other (`StandsFor`).  An inverse that was saved is whole (`InverseTrue`): it leads back to untouched cards, to the ones there are now if no choice was committed.
If one card stands for the other, the journal has the inverse, and says so or has the intent that recovery completes it from (`TogetherTrue`); untouched cards are called handled only while an intent or an undo is open (`ApartTrue`).
Only who holds the lease is at a step on the pair (`WorkOK`), and each step knows what the ones before it left (`StepTrue`).
The hypothesis is needed: with more cards a pair can be joined through another pair's choice (section 4).

* `TurnsStayTrue`: `PromptsReach = TRUE` and `StopsPerTurn` of 0 or 1 imply `BuddySpec => []TurnsAreTrue`.

`BuddyInv` has a part for each of the three files.  In the transcript prompts are numbered upwards, an answer follows its prompt, and at most the last answer has not been written yet (`Transcript`); a hook carries the
turn that has just ended (`InHand`); and what is stored joins a prompt with its answer, is stored once, and is older than the turn in hand until its hook stores that (`Ledger`).  Every answered turn is in the memory or missed,
except the one in hand (`Accounted`), and nothing stored reaches beyond the prompt of that one; so a receipt that names where the delta of a hook begins and ends is never mistaken for an older turn's.
The hypotheses are about the host: every prompt's hook saves the prompt, and a turn ends at most once.  Without either the property is false (section 4).

### Graph records, topics, Dreaming and projection (`GraphProofs`)

* `RecordsAreTyped`, `ViewsAreProven`: `RecordsSpec` implies `[]RecordsTypeOK` and `[]ViewIsProven`.

The invariant is about every node, shown or not: each source of its name, of an alias and of a fact was given for just that (`Proven`).  `MetadataIsProven` is the heart of it, for a proposal that
merges into a node of another name; `FactIsProven` says that a fact which is retired keeps its sources.  Views are then proven because they only leave out.

* `ChaptersAreCurrent`: `TopicSpec => []ProseIsCurrent`;
* `TheDirectoryIsReserved`: `DreamSpec => DirectoryIsReserved`.

A chapter records less than it was written from: a model that was shown older chapters may repeat what they say.  The proof therefore speaks of two sets of versions, what the prose of a chapter rests on (`read`) and what
the chapter is said to depend on (`dep`).  `TopicsInv` is about the second: in every chapter it is as the Events are (`TopicFits`), because a synchronization redacts exactly what is no longer current, whatever the commit did
before.  `BackedInv` is about the first: in a valid chapter `dep` covers `read` (`Backed`).  A running job's dependencies cover its own Events and those of every valid chapter it was shown (`JobFits`,
`Informed`), so an answer inherits nothing its job does not name, however it spreads Events over chapters (`WrittenFits`, `WrittenIsBacked`).

Dreaming keeps the first invariant and not the second, since its Agents are shown more than their edits depend on (`EditedFits`; section 4).  `DreamInv` adds the run to `TopicsInv`: while a run has the directory, the claim
in its record is the one a user granted last (`Granted`), so code that passes the fence works under that claim (`HolderWasGranted`).  Everything else leaves the chapters alone: every chapter, valid or not, depends on what
is current, so a synchronization without a new answer or a changed Event finds nothing to redact (`IdleSyncChangesNothing`), and an answer is not accepted (`ChaptersRest`).

* `CallsStayWithinBudget`: `Overlap = FALSE` and `MaxGraphRetry = 0` imply `GraphSpec => []CallsWithinBudget`.

`BudgetInv` follows an Event from job to job.  Jobs that may call the model again share no Event (`Apart`) and have counted every call about theirs (`Counted`), and an Event the model was asked about has a job, so
nothing queues it afresh (`Accounted`).  A job that gave up with attempts left was revoked, in an epoch that is over (`BatchFits`): a late failure, which looks for the epoch of the claim alone, cannot wake it beside its replacement.
What a pass found revoked is still so when its commit is taken (`ActFits`), because whatever could change it either makes the copy stale or raises the epoch; that is where `Overlap = FALSE` is needed.  The job of before the
name provenance rule is revived only while nobody has asked about its Events (`Untouched`).  Revocation, queueing and the split of a claim each have a lemma that jobs fit before and after (`RevokeFits`, `QueueFits`,
`CutsFit`).  Both hypotheses are needed (section 4).

### Only model-checked

Liveness and fairness are out of TLAPS's reach and stay with TLC: `SealedBlocksSettle`, the liveness of ingestion and the four properties of `settles`.  The refinement
of `TurnLog` is about `SelectSeq` and `FlattenSeq`, recursive definitions whose results need induction over sequences.  `ChoicesAreKept`, `SurfaceIsSettled`,
`ReloadIsSnapshot` and `SavesGoThrough` are about folds over levels and tables, recursive too, and model-checked only.

## 6. Not modelled

* *Persistent profile and daily notes*: the wording of maintenance and its prompt, reading and searching notes, and the snapshots a session gets of both.
* *Web administration and client*: HTTP and rendering over the operations of the store; only the import page with its routes is in `ExternalImport`, and the profile page in `Profile`.
* *Prompts, parsing, scores, clustering, overview text*: their wording and arithmetic carry no state of their own.
* *Schema migrations and snapshot import*: run once, before a namespace is used.
* *Within modelled components*: `retryFailed`, an orderly `close`, `deferProcessing`, the repair of topic overviews, graph search and export, the jobs of the element projection, the WorkBuddy MCP server, and a
  transcript that shrinks or moves.

## 7. What a continuation would add

1. Proofs: what a surface and a save owe their users (`SurfaceSync`, `RecordStore`).
2. The exact conflict paths of `Settings` for two hosts, and a second space of vectors in `SemanticRecall`.
3. A second process for the daily notes, once the file is locked, and the migrations.
