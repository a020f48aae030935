# TLA+ models of bstream's Forkable and FileSource

This directory holds TLA+ models of the two concurrent or stateful cores of the repository:

- `Forkable` — `ProcessBlock`, the queries `BlocksFromFinal` and `BlocksFromCursor`, and its read/write lock (`src/forkable/proto/sf/bstream/forkable/v1/forkable.proto`, which holds the Go source of forkable.go from line 31 on).
- `FileSource` (`src/filesource.go`).

The TLC runs check them. Each module's header comment says which code it models. `PROJECT.json` lists, per definition, the source lines it translates (`map`), the runs, the mutants and the findings.

## 1. The system

### Parts and how they interact

```
 block store ──FileSource──▶ handler ── (a Forkable) ──▶ consumer handler
   bundles      run loop, reader/preprocess/output          New / Undo /
   of 100       goroutines per file, launchSink             Irreversible / Stalled
```

- **FileSource** streams historical blocks from the bundle files of an object store. It has these goroutines:
  - **`run`**: finds the next bundle (`FileExists`) and retries every `retryDelay` while the bundle is missing. It pushes the bundle on `fileStream` (capacity 1) and spawns the bundle's reader. It stops advancing past `stopBlockNum`.
  - **`streamIncomingFile` / `streamReader`** (one per file): opens the object and reads the blocks. It skips blocks below `startBlockNum` and blocks the gator refuses. It starts one `preprocess` goroutine per kept block and queues that block's result channel on `preprocessed` (capacity `preprocessorThreadCount`).
  - **output goroutine** (one per file): takes the queued result channels in order, waits for each result, and hands it over the file's unbuffered `blocks` channel.
  - **`launchSink`**: takes files from `fileStream` in order, ranges over each file's `blocks`, and calls `handler.ProcessBlock`.

  A shutter (`terminating`) is tripped by the first error or by the caller. Every select has a case for it, except launchSink's `range`.
- **Forkable** is the usual handler. `ProcessBlock` runs under the Forkable's write lock. It adds the block to the **ForkDB** (a block DAG with a LIB), recomputes the longest chain, and calls the consumer handler:
  - **Undo** for blocks of the abandoned branch.
  - **New** for redone blocks and for new blocks of the longest chain.
  - **Irreversible** for the blocks between the old LIB and the LIB the last sent block asserts.
  - **Stalled** for the forked-off blocks at those heights.

  It then moves the LIB and purges the DB.

  Other goroutines query the Forkable under its read lock. `BlocksFromFinal(blk)` lists the chain from `blk` to the last block sent. `BlocksFromCursor(cursor)` gives a resuming consumer the steps from its cursor to the head: Undo for a forked cursor's branch, then Irreversible/New along the chain.
- **ForkDB** and **CursorResolverHandler** are not in `src/`. ForkDB's operators are modelled from spec section 4.1. CursorResolverHandler is external.

### Inventory

| Component | State | Operations | Hard behaviour |
|---|---|---|---|
| Forkable | `forkDB` (links, LIB), `sentAsNew` marks, `lastBlockSent`, `lastLIBSeen`, `lastLongestChain`, `consecutiveUnlinkableBlocks`, `ensureBlockFlowed` | `ProcessBlock` (8 exit paths), `BlocksFromFinal`, `BlocksFromCursor` (read-only) | blocks in any order with replays, forks and switches back, the first LIB, hold-until-LIB, unlinkable flood, purge; queries from a stale cursor; recursive read locking against the writer |
| ForkDB | links, nums, LIB | AddLink, SetLIB, BlockInCurrentChain, ReversibleSegment, CompleteSegment, ChainSwitchSegments, HasNewIrreversibleSegment, MoveLIB, PurgeBeforeLIB | walks over missing parents, LCA across a purged LIB |
| FileSource | base, delay, `fileStream`, per file: reader position, `preprocessed`, results, output state; sink state; shutter | run loop, open/read/skip/enqueue/EOF, preprocess, output take/result/send, sink take/check/handle | parallel preprocess with ordered output, two files in flight, late bundles, failures of every call, shutdown of every goroutine |
| lookupBlockIndex | none (pure) | one call per bundle | start/stop sentinels, skipping unindexed bundles |

## 2. Modules

| Module | Models | Notes |
|---|---|---|
| `ForkDB.tla` | ForkDB operators over a set of ids (`spec_modelled`) | Pure operators. The DB is a set of ids over fixed `Parent` and `Num`. `Walk` is RECURSIVE and its depth is bounded by the DB size, which is spec 4.1's cycle guard. |
| `Forkable.tla` | `Forkable.ProcessBlock`, `BlocksFromFinal`, `BlocksFromCursor` and their helpers | One action per exit path of `ProcessBlock`. `stream` is the history of handler calls. The queries are operators over the state. |
| `ForkableLock.tla` | the Forkable's `sync.RWMutex`: ProcessBlock's `Lock` and the queries' `RLock`, one per `BlocksFromCursor` frame | data left out; the cfg `MCForkableLock.cfg` instantiates it directly |
| `MCForkable.tla` | the fork tree TLC explores | 9 blocks: chain b1..b5, fork c3..c5 off b2, a self-parented bx |
| `FileSource.tla` | `FileSource.run`, `streamIncomingFile`, `streamReader` and its output goroutine, `preprocess`, `launchSink` | one action per goroutine step between channel operations |
| `LookupBlockIndex.tla` | `FileSource.lookupBlockIndex` | RECURSIVE operators for its two loops (`collect`, `scan`), and `Listed`, spec 4.5's account of a bundle's list written over sets, from which FileSource's reference stream is built |
| `AbstractForkable.tla` | what a Forkable promises its handler (spec 4.2 and 8) | the consumer's chain, the final chain and the stalled set; one `Deliver` per ProcessBlock call; `Forkable` implements it under a refinement mapping |
| `AbstractFileSource.tla` | what a FileSource promises its handler | the stream handed over one block at a time, all of it unless stopped; `FileSource` implements it under a refinement mapping |

### Forkable.tla

- **State.**
  - `links` and `libRef` are the ForkDB.
  - `sentAsNew` holds the ids whose ForkDB node is marked.
  - `lastBlockSent`, `lastLIBSeen`, `lastLongestChain`, `consecutiveUnlinkableBlocks` and `ensureBlockFlowed` are the Forkable fields of the same names.
  - `stream` is every `handler.ProcessBlock` call: step, block, head, and the LIB of its cursor.
  - `calls` bounds the upstream (`MaxCalls`), and `failed` records a returned error. The source shuts down on an error, so the model stops there.
- **Atomicity.** One ProcessBlock call is one step, because the whole call runs under `p.Lock()`.
- **Actions.** The call is split by its exit: `ProcessBlockInvalid`, `Ignored` (below the LIB, or already in the DB), `InitialLIB`, `SetLIBSelf`, `Held`, `Unlinkable`, `NoEmit` and `Emit`. Each action's guard is the conjunction of the conditions of the earlier returns.
- **Inputs.** Upstream may send any block of the tree, any number of times, in any order. Each block asserts a fixed LIB number (`LibNum`).
- **Interpretations of the spec.**
  - **IdWalk.** `ChainSwitchSegments` walks ids, and the first missing parent id counts. After a resume the LIB is not in the DB, yet two branches still meet at its id.
  - **Fail-closed walk.** `ReversibleSegment` returns nothing when the walk hits a missing parent before reaching the LIB, or when there is no LIB.
  - **Stalled range.** The stalled blocks are the DB nodes numbered in `(old LIB, new LIB]` that are not on the irreversible segment.
- **Start.** `InitialLIBs` is the set of `lib_ref`s New may be given; with `IncludeInitialLIB` a LIB not in the DB is a resumed Forkable (spec scenario 1).
- **Refinement.** `AF == INSTANCE AbstractForkable WITH chain <- ConsumerChain, final <- FinalBlocks, stalled <- StalledBlocks`:
  - `ConsumerChain` folds `Follow` over `stream` (New pushes, Undo pops);
  - `FinalBlocks` is the blocks of the Irreversible steps, in order;
  - `StalledBlocks` is the set of Stalled blocks.

  Each ProcessBlock call, with all the handler calls it makes, is one abstract `Deliver`; the paths that call nothing are stuttering steps. `Deliver` says: some of the consumer's newest blocks are rolled back, none of them final; the new chain is linked and pushes no block already reported stalled; the final chain only grows, stays linked and lies below the consumer's head; newly stalled blocks are off the consumer's chain. `ImplementsAbstractForkable == AF!Spec` is checked as a PROPERTY. It replaces three separate stream invariants (Irreversible steps form a chain, never undone, Stalled off the chain) with one statement over the whole call.
- **Queries.** `BlocksFromFinal(blk)` and `BlocksFromCursor(c)` are operators (the queries change no state). `CompleteSegment` (ForkDB) walks from `lastBlockSent` to the LIB. `BlocksFromCursor` is RECURSIVE like the Go function: `catchUp` is the fast path for a cursor whose block and LIB are on the segment, `undoWalk` the loop that undoes a forked cursor's branch, and the recursive call continues from the junction. Its outcomes are a list (`Returned`), nil (`NilOut`) and the nil-pointer panic of `lastBlockSent.AsRef()` (`PanicOut`).

### ForkableLock.tla

- **State.** `qpc[q]` is where each query goroutine is (idle, inside `RLock`, holding), `want[q]` how many `BlocksFromCursor` frames its call enters (1 for `BlocksFromFinal` or a cursor on the chain, 2 for a forked one), `frames[q]` how many hold a read lock, and `wpc` where ProcessBlock is.
- **Go's RWMutex.** A pending `Lock` makes every later `RLock` wait (`QueryRLock` needs `wpc = "idle"`); `Lock` returns once the readers it found are gone (`WriterAcquire`); `Unlock` grants the waiting readers (`WriterUnlock`). All deferred `RUnlock`s run when the innermost frame returns (`QueryReturn`).

### FileSource.tla

- **Data.** A block is its number. Each bundle file holds the `BundleSize` blocks from its base. `published` is the set of bundles the store holds: it starts as any prefix and grows in order (`Publish`, the merger writing files). `Failures` says which calls may fail.
- **State.** There is one program counter per goroutine:
  - `mpc` for `run`;
  - `rpc[f]` for the reader of file f;
  - `opc[f]` for its output goroutine;
  - `spc` for `launchSink`.
- **Channels.**
  - `fileStream` and `preprocessed[f]` are sequences bounded by their capacities.
  - `working[f]` holds the preprocess goroutines running.
  - `ready[f]` holds the results waiting in their capacity-1 `out` channels.
  - The unbuffered `blocks` channel is a joint step of the output goroutine and the sink (`OutputSend`).
- **Selects.** Every Go select with a `Terminating()` case is a pair of actions, and both are enabled when both cases are ready, as in Go, with one exception: the reader's enqueue (`ReaderEnqueue`, lines 396-400) also requires that the shutter has not tripped, so the model never enqueues a block after a shutdown, where Go may still take the send when `preprocessed` has room. The block enqueued in Go is then either dropped by the output goroutine's own Terminating case or never read, so no property tells the two apart; the restriction only removes states.
- **Read errors.** `rpc[f]` is `"read"` while the reader reads. `ReaderEOF` closes `preprocessed` on io.EOF (to `"drain"`, waiting for the output goroutine) and on any other Read error (to `"failed"`, not waiting, lines 366-369). `ReaderFailed` is the error reaching the goroutine `run` spawned, which shuts the source down (lines 259-263): the output goroutine and the sink keep running in between.
- **launchSink's check.** launchSink checks `IsTerminating` and then calls the handler. These are two steps (`SinkCheck`, `SinkProcessBlock`), so a shutdown can land between them.
- **Block indexer.** `BlockIndexer` and `Index` configure it. `RunLookup` is the top of `run`'s loop: it calls `LB!lookupBlockIndex(base)` (the `LookupBlockIndex` module), fails on an index error or misuse, moves `base` to the bundle found, and enters `mpc = "spin"` when the scan never returns. `filteredBlocks` is stored but never read by the reader (filesource.go line 248), so the index only skips whole bundles; the reference stream keeps the blocks of the bundles whose list is not empty. `prevLastBlockRead` is always nil, because `streamIncomingFile` passes nil.
- **Refinement.** `AFS == INSTANCE AbstractFileSource WITH Stream <- ExpectedStream, handled <- delivered, stopped <- terminating`. `ImplementsAbstractFileSource == AFS!Spec` is checked as a PROPERTY: every handler call appends the next block of the reference stream, and, under the fairness below, the whole stream is delivered unless the shutter trips.

### LookupBlockIndex.tla

- `collect(in, blocks, out)` is the inner `for _, blk := range blocks` loop: skip below start, put start ahead of a first block above it in the first call, replace the first block at or past stop by stop and end.
- `scan(in, b)` is the outer loop, one bundle per call: return a non-empty list, else the start/stop sentinels of the bundle, else the next bundle. Past `MaxBase` the index holds nothing, so the result is `Spin`: the Go loop never returns.
- `Listed(b)` is spec 4.5's list of bundle b, over sets; FileSource's `ExpectedStream` keeps the blocks of the bundles whose list is non-empty, so `ImplementsAbstractFileSource` in filesource_index compares the code's scan with it.

## 3. Runs

Forkable runs use `MCForkable` with `MaxCalls = 10` and `UnlinkableLimit = 2`, which stands in for the code's 20 so the flood path is reached. All are on the 9-block tree. `InitialLIBs = {NoBlock, b2}` with `IncludeInitialLIB`, so each run covers a fresh Forkable and one resumed at b2, which is not in the DB.

| Run | Options | Properties | Result |
|---|---|---|---|
| forkable_default | none | TypeOK, StreamFollowsChain, ImplementsAbstractForkable, ResumeFromNewCursor, FinalReplayMatchesStream | pass (42 453 states) |
| forkable_options | hold-until-LIB, ensure-all-trigger, `ensureBlockFlows = c4`, 1 kept block | StreamFollowsChain, ImplementsAbstractForkable, ResumeFromNewCursor, FinalReplayMatchesStream | pass (9 104) |
| forkable_first_lib | fresh start only | IrreversibleAfterNew | violation |
| forkable_stalled_cursor | fresh start only | CursorWellFormed | violation |
| forkable_undo_cursor | as forkable_default | ResumeFromUndoCursor | violation |
| forkable_query_deadlock | `ForkableLock`, one query goroutine, recursion depth up to 2 | QueriesReturn | violation |

The Forkable properties:

- **StreamFollowsChain.** A consumer that pushes on New and pops on Undo always holds one chain. Every New is a child of its head, and every Undo pops exactly its head.
- **ImplementsAbstractForkable.** Every ProcessBlock call is a step of `AbstractForkable`: no final block is ever rolled back, the final blocks form one gapless chain below the consumer's head, and a stalled block is off the consumer's chain when reported and is never pushed afterwards.
- **ResumeFromNewCursor.** In every state, for every New step sent so far: replaying `BlocksFromCursor` of its cursor onto the chain the consumer held right after that step (New pushes, Undo pops its head, Irreversible keeps) is a valid replay that ends at `lastBlockSent`. A nil answer is allowed (the source then fails the resume). It relates the current DB to an earlier point of the stream, across chain switches, LIB moves and purges.
- **ResumeFromUndoCursor.** The same for the cursors of Undo steps.
- **FinalReplayMatchesStream.** For every block on the consumer's chain, `BlocksFromFinal` is either nil or exactly the consumer's chain from that block on, and labels NewIrreversible exactly the blocks the stream sent as Irreversible.
- **QueriesReturn** (ForkableLock). Every query that calls `RLock` eventually returns, under fair scheduling.

FileSource runs use `FileSource` directly, with the constants in the cfg.

| Run | Bounds | Properties | Result |
|---|---|---|---|
| filesource_pipeline | 3 bundles × 2 blocks, start 1, gator drops 4, 2 threads, no failures | DeliveredIsPrefix, PreprocessGoroutinesBounded | pass (about 1.1 M states) |
| filesource_index | 3 bundles, indexer holding 0 and 5, no stop, 1 thread, index and OpenObject may fail | ImplementsAbstractFileSource | pass (81 189) |
| filesource_failures | 2 bundles, stop block 2, 1 thread, every call but OpenObject may fail, caller may stop | TypeOK, ShutdownQuiesces | pass (117 844) |
| filesource_read_error | 2 bundles, start 1, only Read may fail | DeliveredIsPrefix | violation |
| filesource_open_failure | OpenObject may fail | ShutdownQuiesces | violation |
| filesource_index_spin | indexer holding nothing, no stop | ShutdownQuiesces | violation |

The FileSource properties:

- **DeliveredIsPrefix.** What the handler got is a prefix of a reference stream: every block from the start through the end of the stop block's bundle that the gator passes and, with an indexer, whose bundle has a non-empty index list, in ascending order. This one property covers ordering, no duplicates and no gaps. It holds in filesource_pipeline and is violated in filesource_read_error.
- **PreprocessGoroutinesBounded.** At most two files have preprocess goroutines running, each with at most threads+1.
- **ImplementsAbstractFileSource.** FileSource implements AbstractFileSource: each handler call is the next block of the reference stream, and the whole stream is eventually delivered unless the shutter trips.
- **ShutdownQuiesces.** After the shutter trips, every goroutine returns. In filesource_failures this includes `run` waiting for the caller after it pushed the stop block's bundle (line 268).

**Why the bounds are enough.**

- **Forkable.** The tree has the following features, and 10 calls are enough to fork, switch back, move the LIB twice and purge:
  - a fork at b2;
  - a fork branch that becomes longer (c5 above b4), and one that is shorter;
  - blocks asserting LIBs that land on either branch;
  - a LIB that is found below the first block;
  - an invalid block;
  - a resume start at b2, so that cursors below, at and above the LIB are queried after the LIB moved.
- **ForkableLock.** One query goroutine and the writer are the fewest for the deadlock; depth 2 is one recursive call. With `MaxDepth = 1` (no recursion) `QueriesReturn` holds.
- **FileSource.**
  - Three bundles are the fewest in which `fileStream`'s capacity matters: with room for two files, three readers run at once.
  - Two preprocess threads let two results finish out of order within one file.
  - A start inside the first bundle, and a gator drop, exercise both skip paths.
  - The failure runs use two bundles, because every call failing multiplies the states. filesource_failures sets stop block 2, so `run` also reaches its stop path.
  - The index run's index {0, 5} over bundles 0, 2, 4 gives one bundle read for the start sentinel, one skipped, one read for an indexed block, and a scan that runs past the last bundle.

**Deadlock.**

- **Forkable cfgs** say `CHECK_DEADLOCK FALSE`: upstream sends at most `MaxCalls` blocks, and an error stops the source. `MCForkableLock.cfg` says it too: clients and upstream may stop calling, and the deadlock it looks for is a liveness violation of `QueriesReturn`.
- **FileSource cfgs** say it too: the caller can always stop the source until it is stopped, and after that the source stops once every goroutine has returned. Whether every goroutine does return is `ShutdownQuiesces`.

**Mutants.** `PROJECT.json` `mutants` lists, for every property of every passing run, a plausible bug of the mapped code that TLC finds. Each one is an operator defined just before the definition it replaces. Examples:

- redoing unsent blocks;
- a resume that sends the cursor's own block again as New;
- an off-by-one in the reversible segment or the stalled range;
- a result taken out of order;
- a `fileStream` of capacity 2;
- an enqueue past `preprocessed`'s capacity;
- the index scan skipping the start/stop sentinels;
- an output goroutine waiting for a result without the Terminating case.

## 4. Fairness

FileSource's `Spec` has weak fairness (needed by the liveness half of `ImplementsAbstractFileSource` and by `ShutdownQuiesces`) on every goroutine step. Go's scheduler eventually runs every runnable goroutine, and a select with several ready cases chooses among them at random, so a continuously enabled case is eventually taken. `Publish` is weakly fair as an assumption about the environment: the merger eventually writes each bundle. `CallerShutdown` has no fairness, because the caller may never stop the source.

Forkable's spec has no fairness: its properties are all safety properties, and `AbstractForkable` has none either (it promises nothing about upstream sending blocks).

ForkableLock's `Spec` has weak fairness on `QueryRLock`, `QueryReturn`, `WriterAcquire` and `WriterUnlock`: these are steps of goroutines already inside a call, which Go's scheduler runs once they can proceed (`QueryReturn` stands for the query's finite computation, `WriterUnlock` for ProcessBlock's). `QueryStart` and `WriterLock` have none: clients and upstream need not call.

AbstractFileSource owes delivery only while it runs (`WF_vars(~stopped /\ Deliver)`): after the shutter trips, the code stops delivering.

## 5. Findings

1. **Irreversible without New** (forkable.go line 457, run forkable_first_lib). When SetLIB first finds a LIB below the incoming block, that LIB block is appended to the irreversible segment. It is sent as Irreversible although it was never sent as New. Trace: c4, then c5, which asserts LIB 4; the handler gets New(c5), then Irreversible(c4).
2. **Stalled cursor with LIB above the block** (line 690, run forkable_stalled_cursor). Stalled cursors take `lastLIBSeen` after it has moved to the new LIB. This contradicts the cursor invariant of spec section 3 and the comment at line 111.
3. **BlocksFromCursor loses a block for an Undo cursor** (forkable.go line 151, run forkable_undo_cursor). The fast path ignores `cursor.Step`. Trace from the resume start at b2: New b3; c4 switches the chain (Undo b3, New c3, New c4); b5 switches back (Undo c4, c3; New b3, b4, b5). Querying with the cursor of Undo(b3) takes the fast path, which sends New only above b3, so the consumer, which no longer holds b3, gets b4 on top of b2. The forked path (line 186) does handle an Undo cursor.
4. **Recursive read lock deadlocks with ProcessBlock** (line 197, run forkable_query_deadlock). On a forked cursor `BlocksFromCursor` calls itself while still holding the read lock. A `Lock` by ProcessBlock between the two calls waits for the outer read lock, and the inner `RLock` waits behind it: both goroutines block forever.
5. **launchSink leaks on an OpenObject failure** (lines 442 and 468). The file's `blocks` channel is never closed, and the sink's `range` has no termination case.
6. **run spins forever in lookupBlockIndex** (line 314, run filesource_index_spin). With an indexer and no stop block, the scan moves from bundle to bundle with no delay and no shutter check once the index holds nothing later, so run never returns after a shutdown.
7. **A read error lets the stream skip blocks** (filesource.go line 367, run filesource_read_error). On a Read error other than io.EOF, streamReader closes `preprocessed` and returns without waiting for its output goroutine; the source shuts down only when the goroutine `run` spawned gets the error (line 262). In between, the output goroutine closes the file's `blocks` channel and launchSink moves on to the next file. Trace: bundle 0 fails on its first Read, bundle 2 is read, and the handler gets block 2 without block 1. Spec section 5 promises a stream with no gaps.

Observations:

- **highestFileProcessedBlock is never set** (filesource.go line 477). It is updated only when already non-nil, and it starts nil. Nothing reads it, so no behaviour depends on it.
- **BlocksFromCursor panics before the first block after a resume** (line 142). With an initial LIB set, `HasLIB` holds and `lastBlockSent` is still nil, and `.AsRef()` dereferences it. The model has the outcome `PanicOut`; no run is spent on it.
- **Dead branches of the queries.** In every state TLC reached, the fast path of `BlocksFromCursor` never sends `Irreversible` (a cursor LIB on the complete segment is never below the ForkDB LIB), and `BlocksFromFinal`'s `lib = ref` clamp never fires. A cursor whose LIB is older than the ForkDB LIB always gets nil.
- More preprocess goroutines run than `preprocessorThreadCount` (line 329; spec section 5 says "up to"). The output goroutine holds one result beyond the queue, and two files are read at once. The bound that does hold, two files with threads+1 each, is `PreprocessGoroutinesBounded` in filesource_pipeline.

## 6. Not modelled, and why

- **Handler errors during a Forkable emission** (partial emission). `processBlocks`, `processNewBlocks` and `processIrreversibleSegment` return on the first handler error, so the call stops after some handler calls, with `sentAsNew` and `lastBlockSent` advanced only for the New calls that succeeded and the LIB not moved. The source shuts down on the error and the Forkable is discarded, so no later `ProcessBlock` sees that state; a consumer resumes through a new Forkable from its cursor, which `ResumeFromNewCursor` covers. An error outcome for each handler call of the emitting path was tried; it made the emitting action too expensive for TLC on the default tree, so the handler is taken to accept every call.
- **The composition FileSource ∘ Forkable.** FileSource hands over whole blocks in ascending order (`ImplementsAbstractFileSource`), and Forkable is checked against every order with replays and forks, a superset of what FileSource can deliver. A composed module would only narrow Forkable's inputs to one linear chain, and its state space (FileSource's goroutines times Forkable's DB) is beyond the run budget.
- **The handler re-entering the Forkable under its lock.** The handler is caller code outside the repository; `ForkableLock` models the queries from other goroutines.
- **The queries' data under concurrency.** `ForkableLock` abstracts the data away; in `Forkable` a query reads one state, which is what the read lock gives it when it does not deadlock.
- **ForkDB snapshots (proto schema), logging, tracing, `currentOpenFiles`** (a diagnostic counter) **and the factory constructors.** None of them changes the behaviour of the models.
- **CursorResolverHandler.** Not in this repository.

## 7. Plan

Done, in order of importance:

1. ForkDB operators.
2. Forkable.ProcessBlock with every option.
3. The FileSource pipeline with failures, shutdown and liveness.
4. `lookupBlockIndex` as RECURSIVE operators, composed into `run` and checked against spec 4.5 through the reference stream.
5. AbstractFileSource and the refinement of it by FileSource.
6. `BlocksFromFinal` / `BlocksFromCursor` as operators checked against the stream, and the read/write lock in `ForkableLock`.

7. `AbstractForkable` and the refinement of it by Forkable.

Not done, with the reasons under "Not modelled": handler errors mid-emission in Forkable, and the composition FileSource ∘ Forkable. The part of `filesource.go` not mapped (lines 1-166) is the option setters and constructors, which only fill fields the models take as constants.
