# Formal models of the libraries in this repository

This directory holds TLA+ models of libraries whose sources are collected in
`src/`, the TLC configurations that check them on small instances, and proofs
checked by TLAPS for every value of the constants. `PROJECT.json` is the
machine-readable index: components, runs, mutants, the map from definitions to
source lines, findings, hazards and theorems.

The repository is a collection of independent C++ libraries, so the project has
no single top-level specification. It takes those whose correctness rests on the
interleaving of threads, on crashes, or on long histories of small changes: what
unit tests hardly reach.

## 1. Inventory

| Library | Parts with state | What is hard about them | Status |
|---|---|---|---|
| disruptor-- | Sequencer, claim strategies, RingBuffer, SequenceBarrier | lock-free claims and publications, cached and non-atomic minima, wrap-around | modelled, proved |
| | blocking wait strategy | lost wakeups, timeouts | modelled |
| leveldb | DBImpl's writers and background thread | group commit, memtable switch, scheduling, errors, close | modelled, proved in part |
| | logs, MANIFEST, CURRENT, tables, DB::Open | crashes at any step, torn records, deletion of files in use | modelled |
| | levels: choice and merge of files, point reads, snapshots | dropping entries that a snapshot still sees, flushes in the middle of a compaction | modelled, proved |
| | LRUCache, TableCache, SkipList, log format, iterators | reference counts, readers without locks, block boundaries | not yet |
| | tables, blocks, filters, coding, Env | byte formats, system calls | not modelled |
| muduo | EventLoop, EventLoopThread | wakeups, functors queued while functors run, quit | modelled (channels and timers left out), proved |
| | ThreadPool (and the blocking queues of the same shape) | bounded queue with two conditions, stop | modelled, proved |
| | TimerQueue, Channel, Poller, TcpConnection and the like, AsyncLogging | callbacks that cancel themselves, life cycles across loops | not yet |
| | http, inspect, protobuf, protorpc | parsers and glue | not modelled |
| brpc | bthread: work-stealing queue | lock-free, one item taken by two threads | modelled, proved |
| | bthread: TaskGroup, TaskControl, ParkingLot | a worker that parks while a task is started | modelled (no sleeping, no butexes) |
| | bthread: butex, mutex, execution queue, id, timer thread | timeouts racing wakeups, versioned ids | not yet |
| | Socket, bvar, butil, json2pb, mcpack2pb, protocols | references, data structures, formats | not modelled |
| coost | scheduler, mutex, event, chan, wait group | hand-over between coroutines and threads | not yet |
| | log, mem, json, so, hash, ... | data structures, I/O | not modelled |
| cpp-tbox | event loop, thread pool, state machine, actions | run queues, cancellation, re-entrant callbacks | not yet |
| | network, mqtt, http, terminal, alarm, ... | I/O and glue | not modelled |
| netLink, CppFreeMock | sockets, run-time patching | single-threaded wrappers, machine code | not modelled |

Vendored code (`third_party`, `thirdparty`, `3rd-party`), examples, tests and
tools are not components. The hazards each part is exposed to, at the line
where they bite, are listed in `PROJECT.json` with the properties that cover
them.

## 2. disruptor--

Sources: `src/disruptor--/disruptor/`.

Publishers claim sequence numbers (`Claim`), fill the slots of the ring and
`Publish`; consumers wait at a barrier until the cursor, or the consumers they
depend on, have passed the sequence they want, read the slots and advance their
own `Sequence`. Publishers must not lap the slowest gating consumer.

**DisruptorSequencer** models `Sequencer`, both claim strategies, `RingBuffer`,
`SequenceBarrier` and the spinning wait strategies. Every load or store of an
atomic is a step; in particular `GetMinimumSequence` (`todo`, `minimum`) reads
one consumer per step, while others move. An event's content is the sequence it
was written for, so that "the right event" is visible in a slot.

| State | Code |
|---|---|
| `cursor`, `lastClaimed`, `lastConsumer` | `cursor_`, `last_claimed_sequence_`, `last_consumer_sequence_` |
| `ring`, `sequence`, `alerted` | `events_`, each consumer's `Sequence`, `alerted_` |
| `pc`, `next`, `delta`, `wrapPoint`, `todo`, `minimum`, `at`, ... | where a thread is, and its locals |

**BroadcastRing** is the abstract specification: a head, a tail per consumer,
batches published only if nobody is lapped, and consumption within what is
published and finished upstream. `ImplementsBroadcastRing` is the refinement
(`head <- cursor`, `tail <- sequence`).

**DisruptorBlocking** models `BlockingStrategy`: the unlocked look at the
cursor, the look under the mutex, the wait, the signal, timed waits and alerts.
`StrategyOf` says which strategy object each barrier waits on, and
`SequencerStrategy` which one the sequencer signals.

| Run | Question | Bounds |
|---|---|---|
| `disruptor_multi` | two publishers, two-stage pipeline: no slot is written while read or written by another, consumers read what was published, the inductive invariant, the cursor moves by whole claims, everything claimed is consumed, refinement | N = 2, batches of 1 and 2, 4 events: two laps, so that every slot is reused and claims straddle the wrap |
| `disruptor_single` | the single-threaded strategy, two parallel consumers and a third behind both; `HasAvailableCapacity` is a promise; an alerted barrier ends the wait, also behind a stage that has halted | N = 2, 3 events: a slot is reused and a claim of two straddles the wrap; one of the parallel consumers and the last one gate and are alerted |
| `disruptor_blocking` | no lost wakeup, timeouts and alerts lose nothing, every event arrives | two stages, 3 events, one shared strategy object |
| `disruptor_blocking_barrier` | the objects as `NewBarrier` makes them: **violated** | see findings |

Fairness: weak fairness of each thread inside a call (an operating system runs
its threads); publishers owe no new claims. For the blocking strategy strong
fairness of steps that need the mutex: it is free again and again, and
`std::recursive_mutex` has no thread wait for ever in practice. Neither
timeouts nor spurious wakeups are counted on for progress.

Not modelled: weak memory orders (the code uses acquire/release on every
sequence; the model is sequentially consistent), and calls before
`set_gating_sequences`.

## 3. LevelDB

Sources: `src/leveldb/db/`, `src/leveldb/util/env_posix.cc`.

Three modules look at one database from three sides. **LevelDBWrite** has its
threads, and counts files; **LevelDBRecovery** has its files and their crashes,
and one writer; **LevelDBCompaction** has keys and levels. They meet in their
interfaces: LevelDBWrite shows that groups reach the log one at a time, in order
and with unique numbers, which is why one writer suffices in LevelDBRecovery; it
shows that one background thread changes the version, which is why a flush is one
step in LevelDBCompaction.

**LevelDBWrite** has the threads of a `DBImpl`: callers of `Write` with their
`Writer` records in `writers_`, the background thread, callers of
`TEST_CompactRange` and `TEST_CompactMemTable`, and the destructor. A critical
section of `mutex_` is one step (or several during which `mutex_` names its
thread); what happens with the mutex released (log append, sync, memtable
insertion, table building, MANIFEST write, file deletion, the 1 ms delay) is a
step of its own. Any file operation may fail if `IOFails`. Sizes are numbers of
operations. A null batch is the size 0. A behaviour starts where `DB::Open` ends,
with `RecoveredFiles` files in level 0 and a background call scheduled if that is
enough for one; `Syncs` are the values of `options.sync` that callers use. The
destructor starts when no call is in progress, and none follows: that is the
contract of `delete db`, which the code does not check.

**LevelDBRecovery** has the files: logs and MANIFESTs as sequences of records
with a synced prefix and torn positions, tables with their entries, `CURRENT`;
the whole of `DB::Open` step by step; and, while the DB is open, writing,
switching memtables, flushing, merging with a flush nested in it, iterators that
pin a version, and deletion of obsolete files. A crash of the process or of the
machine may come between any two steps. After a machine crash a file keeps its
synced prefix and any part of the rest, possibly ending in a torn record.
Directory operations are durable at once (the directory is synced with every
MANIFEST; otherwise a journalled file system is assumed). History variables:
`acked` (acknowledged writes that no crash was allowed to lose), `durable`,
`exposed`, `behind`. A behaviour picks one of `Regimes`: the options, the faults
it may meet and its bounds.

**LevelDBCompaction** has the version as a function from levels to sets of
files, a file as the set of its entries, an entry as a key, a sequence number
and a deletion mark. `CompactMemTable` with `PickLevelForMemTableOutput`,
`PickCompaction` and `CompactRange` with `SetupOtherInputs` (boundary files,
expansion), trivial moves, the drop rule of `DoCompactionWork`, the cutting of
outputs, and `Get` with `FindFile` are taken from the code; what depends on
bytes (when an output is closed, whether inputs expand, whether grandparents
overlap too much, which file is next) is a choice, since values of any size
make each possible. A compaction is two steps, the choice of its inputs and
the installation of its outputs; writes, snapshots and flushes come in between,
as in the code. A behaviour picks one of `Workloads`. The history variable `gap`
records that a flush put a table between the inputs of a manual compaction (the
second finding); the properties hold up to that.

| Run | Question | Bounds |
|---|---|---|
| `leveldb_write` | one committer, unique sequence numbers, acknowledged is stored (and synced), after a background error every call without an outcome fails, no work forgotten, snapshots stable | three writers, one call each with 0, 1 or 2 operations, failing files, buffer of one entry: each commit fills it, so switches, stops and flushes all happen |
| `leveldb_close` | every `Write`, the manual compaction and the destructor return, nothing runs afterwards | two writers, a compactor, the destructor, failing files, and a recovered level 0 that is at its limit: the first writer in front meets the 1 ms delay and then the stop of `StopTrigger`, with the other one in the queue behind it and the compactor in its own wait, and an error can come to all of them. With `options.sync` always set, a failed sync is among the errors; the mixtures of sync and other batches are `leveldb_write`'s |
| `leveldb_recovery` | live files are never deleted; what is on disk is recoverable at every moment; `DB::Open` succeeds, numbers new writes apart, and loses only what lies behind a torn record | two writes; six regimes: no crash with file numbers to 8 (a flush inside a merge, iterators), one crash with numbers to 7, two with numbers to 6 (the second possibly inside `DB::Open`), one crash of the process after a flush inside a merge (`Nested`), all with failing tables, MANIFESTs and syncs; and failing log appends with process crashes, without and with `reuse_logs`. The first two also switch an empty memtable (`force`, `TEST_CompactMemTable`) |
| `leveldb_compaction` | levels are sorted, newer is on top, merging is invisible, reads are right, now and at snapshots | four levels; three keys and four puts (one key may be between the others), two keys with a deletion, two keys with a deletion and a snapshot; manual compactions of any range |
| `leveldb_manual_gap` | levels are sorted without exception: **violated** | three keys, four puts; see findings |

Bounds of recovery: two writes are enough for an older and a newer log, or one
log with a record behind another; three file generations are reached within the
bound on file numbers. Reopening is never blocked by a bound. Deadlock is not
checked: a DB with no callers left, or a history at its bounds, may stop.

Fairness (LevelDBWrite): strong fairness of each thread inside the DB. File
operations return, and a thread that asks for `mutex_` time and again gets it.
New calls are not assumed. The liveness properties hold up to `Crashed`: see the
null `manual_compaction_` in section 7.

Not modelled: `RepairDB`, the blocks of a log file, iterators' changes of
direction, `prev_log_number_` (always 0).

## 4. muduo

Sources: `src/muduo/muduo/net/EventLoop.cc`, `EventLoopThread.cc`,
`src/muduo/muduo/base/ThreadPool.cc`.

**MuduoEventLoop** has the loop's thread (construction, init callback,
publication of `loop_`, `loop()`: check, poll, handle, swap, run), the owner of
the `EventLoopThread` (`startLoop`, destructor) and other threads that call
`queueInLoop` and `quit`. Pushing a functor and writing to the eventfd are two
steps. Functors and I/O handlers may queue functors or quit. Functors are
numbered in queue order.

**MuduoThreadPool** has `run`, `take`, the workers and `stop`; the pool may have
been started with any number of the workers, also with none, when `run` executes
the task itself. A Condition is the
set of threads waiting on it; `notify` takes out any one of them, spurious
wakeups happen. A critical section is one step.

| Run | Question | Bounds |
|---|---|---|
| `muduo_loop` | functors run once and in order; the loop never sleeps on a functor; functors run, `quit` ends the loop and the destructor returns, all without poll's timeout | two threads, 4 functors, 2 I/O events: enough for a functor queued in each phase of the loop |
| `muduo_pool` | bound, order, no wait after `stop`; tasks begin, `run` and `stop` return | up to two workers, three callers for two places, 4 tasks: more waiters than places and than workers |

Fairness: weak fairness of every thread that is inside a call. The poll timeout
is deliberately not assumed: progress has to come from wakeups. For the pool,
strong fairness of a caller's step into the queue: the mutex and the Condition
give no turn order, so without it a caller could be overtaken for ever, which
the code does not exclude. `CallsReturn` is therefore a statement about
wakeups, not about starvation. Tasks end.

Functors queued before `loop()` begins (`early`) are excluded from the wakeup
properties: the code gives them none, and they wait for the first poll to
return. `EventLoop`'s memory after its destruction is taken to be accessible;
the comment in `EventLoopThread.cc` admits that a late `quit()` touches it.

## 5. bthread (brpc)

Sources: `src/brpc/src/bthread/`: `work_stealing_queue.h`, `task_group.cpp`,
`task_control.cpp`, `parking_lot.h`, `remote_task_queue.h`, `bthread.cpp`.

**BthreadQueue** has `push`, `pop` and `steal` of one `WorkStealingQueue` per
worker, with a step for each access to `_top`, `_bottom` or a slot that another
thread can see. `balance` counts pushes less hand-outs of each item.

**BthreadScheduler** has the workers (`run_main_task`, `wait_task`,
`steal_task`, `sched_to`), starting tasks from tasks and from other threads with
every flag (`start_background`, `start_foreground`, `ready_to_run`,
`ready_to_run_remote`, with and without signal, flushes), `yield`, the parking
lots and `stop_and_join`. `push`, `pop` and `steal` are one step each, on what
BthreadQueue shows. A lot's counter is only compared with a saved value, so a
saved state is `current` or `stale`.

**TaskPool** is what the scheduler implements (`ImplementsTaskPool`): a task is
with one worker at a time, begins from the ready ones, and does not come back
after its end.

`bthread_scheduler` is one run over both modules: each of `MCParts` picks the
queue or the scheduler, and bounds. The queue has capacity 2, three pushes and
five positions, so that slots are reused under a slow thief. The scheduler has
two workers in different lots and one other thread; up to 4 tasks, of which up
to two come from outside, with signals, without, or left to a flush; a yield; a
stop while workers search or sleep. It checks `QueueInvariant`, that nobody
sleeps on an announced task (`NoSleepOnTask`), the refinement, and that tasks end
and stopped workers leave (`TasksEndAndWorkersStop`).

Fairness: weak fairness of each worker's and each other thread's steps inside
the scheduler, of the ends of tasks, and of `stop()` once it has begun. Tasks
end and yield finitely often. `TasksEndAndWorkersStop` allows two ways of getting
stuck in `push_rq` on a full queue (`Settled`): all workers spin there; or one
does, and every task in its queue was made ready without a signal (`silent`, the
switch of a task that is about to quit), while the others sleep. In any other
case the spinning worker's flush has woken the others up, and they steal.

Not modelled: weak memory (the fences are there to exclude it), sleeping tasks
and interruption, butexes and join, stacks, workers added later.

## 6. What is proved

Eight modules, checked by tlapm. None of the safety properties is inductive as
it stands; for each component the table names the invariant that is.

| Module | Theorems | Inductive invariant |
|---|---|---|
| `DisruptorSequencerClaiming`, `DisruptorSequencerProofs` | `InvariantHolds`, `SlotsAreExclusive`, `ConsumersReadPublishedEvents`, `StagesStayInOrder`, `CacheIsLowerBound`, `CapacityIsKept`, `CursorMovesInOrder`, `SequencerImplementsRing` | `RingInvariant` |
| `MuduoProofs` | `BoundIsKept`, `OrderIsKept`, `NobodyWaitsAfterStop`; `FunctorsRunInOrder`, `LoopNeverSleepsOnFunctors` | `QueueTypes` and the properties themselves; `LoopInv` |
| `BthreadQueueProofs` | `WorkStealingIsExactlyOnce` | `QueueInvariant` |
| `LevelDBWriteProofs` | `CommitterIsAlone`, `WritesFailAfterError`; `NoWorkIsForgotten`, `DestructorWaits` | `QueueInv`; `BackgroundInv` |
| `LevelDBCompactionProofs` | `NewestIsKept`, `CompactionIsInvisible` | `CompactionInv` |
| `LevelDBLevelsProofs` | `LevelsStayInOrder`, `OnlyGapsMakeOverlaps`, `NewestStaysOnTop` | `gap \/ LevelsInv`, with `CompactionInv` |
| `LevelDBReadsProofs` | `ReadsStayRight` | `gap \/ ReadsInv`, with the two above |

**disruptor--**, for all finite or infinite sets of producers and consumers, any
dependency graph, N > 0, any batch sizes, both strategies. Assumptions: the
sets are disjoint, the single-threaded strategy has one producer, and every
consumer is gating or upstream of a gating one (`TopologyAssumption`, stated
without recursion through `Follows`). `NoWriteUnderReader` says nothing of a
publisher in the middle of its scan. `RingInvariant` adds what the scan knows
(`ScansAreLowerBounds`: sequences only grow, so a minimum of values read at
different times is a lower bound of all), that claims are disjoint intervals
above the cursor (`ClaimsAreDisjoint`), that publication is in turn
(`PublishesInTurn`), that an admitted publisher is within N of every consumer
(`AdmittedIsSafe`, through the order of the stages) and that unread and written
slots hold their events (`SlotsAreFilled`). TLC checks it in `disruptor_multi`;
the proof has one lemma per action. `SlotsDiffer` is the arithmetic core:
sequences less than N apart have different slots. The refinement
`SequencerImplementsRing` maps each step to a step of `BroadcastRing` or to a
stutter.

**muduo ThreadPool**, for any workers, of which any were started, callers and queue size: the bound, the
order (from two lemmas on moving an element from one sequence to the next) and
that nobody waits after `stop`.

**muduo EventLoop**, for any threads and any number of functors and events.
`Numbered` says where each functor is: those run come first, then those that
doPendingFunctors has swapped out, then those pending. `WakeupIsOwed` extends
`NoSleepOnPending` from the poll to every phase in which a pending functor is not
sure to be looked at: the eventfd is readable, or a thread is on its way to
write to it.

**bthread's queue**, for any workers, items and capacity. `QueueInvariant` says
of each stage of `push`, `pop` and `steal` what the thread's saved `t` and `b`
still mean: most of it is about a thief whose `t` is stale, and about an owner
that has lowered `_bottom` and not yet won the last item.

**LevelDB's writers**, for any writers, compactors, batches, sizes and triggers.
`QueueInv`: each writer is in the queue once, only the one in front makes room and
commits, its group is what the queue starts with, and whoever waits with its
batch uncommitted is in the queue. `WritesFailAfterError` is about steps: from a
state of `QueueInv` with a background error, each step leaves a call that is in no
group where it is, or ends it with the error (`FailsStep`, one case per action). A
group that was built before the error is all that may still commit, and its
members are the front of the queue.

**LevelDB's background thread**, for the same. `BackgroundInv`:
`background_compaction_scheduled_` is set exactly while the background thread has
a call to run or to end, and the destructor waits only after `shutting_down_`.

**LevelDB's levels**, for any integer keys, number of levels, workload and
snapshots. `DroppedIsNotMissed` is the argument about the drop rule, for readers
at `smallest_snapshot` or later; `CompactionInv` says that the readers of the DB
are such, though snapshots come and go while the compaction works. For the order
of the levels:

- a file's and a set of files' smallest and largest keys exist and are ends
  (`EndsOfFile`, `RangeOfFiles`); a minimal element of a finite set is found by
  counting, as there is no induction over data here (`MinimalElement`);
- the inputs of an automatic compaction leave no gap (`NoGap`): one file has none,
  and neither `GetOverlappingInputs` nor `AddBoundaryInputs` makes one
  (`OverlappingKeepsNoGap`, `BoundaryKeepsNoGap`);
- what they leave behind at the next level is on one side of them all
  (`RestIsAside`), and what they leave at their own level has no older entry of a
  key they take (`BoundaryIsOldest`: the reason for boundary files);
- `InputsAreChosenWell` puts this together for every pair that `SetupOtherInputs`
  may choose (`GoodInputs`);
- `LevelsInv` is inductive up to `gap`: the levels are sorted, newer is on top,
  and the inputs of a compaction that is being done *stay* good. The case that
  matters is a flush in between (`FlushStep`): a table that goes to the level of
  the outputs overlaps no input, so it lies on one side of them unless they have
  a gap, which only a manual compaction's can.

`ReadsStayRight` rests on this. `GetFindsNewest`: memtables and level-0 files are
stacked in the order in which they were filled (`Stacked`, which makes file numbers
an order of age, `LaterIsNewer`), `FindFile` finds the one file of a sorted level
that can hold the newest entry (`HitsFurtherDown`), and the first hit going down is
the newest of all. What is left is that nothing stored is lost that a reader needs
(`Readable`): `DropIsInvisible` for the entries that a compaction drops, together
with `BuriedInv`, that what a compaction takes for the base of a deleted key stays
so until it installs its outputs, whatever is flushed in between.

TLC checked these invariants on the instance of `leveldb_compaction` before
they were proved.

Only model-checked, and why:

- all liveness properties: fairness and ENABLED are outside the prover;
- `SequencesAreUnique`, `AcknowledgedIsStored` and `SnapshotsAreStable` of LevelDBWrite: the numbers
  in a group are a sum over its batches, a recursive function, and what it
  computes is an induction over data;
- DisruptorBlocking, LevelDBRecovery and BthreadScheduler (with its refinement of
  TaskPool): the invariants would be long, and TLC's instances already have
  the crashes and interleavings that matter.

## 7. Findings

Two runs end with a counterexample to what the repository says; the quotations
are in `PROJECT.json`.

1. `disruptor_blocking_barrier`: a `SequenceBarrier` blocks on its own
   `BlockingStrategy`, the sequencer signals another one; consumers sleep on.
2. `leveldb_manual_gap`: `DB::CompactRange` may merge files with keys between
   them; a memtable flushed meanwhile may go into that gap at the level of the
   outputs, which then overlap it, where `Version::Builder` asserts that files
   do not.

Other behaviour that the models contain and the properties are worded around:

- `TEST_CompactMemTable`'s null batch can be completed by another writer's group
  without any memtable switch (`db_impl.cc`, `BuildBatchGroup`); that call then
  forces nothing.
- A manual compaction whose caller gives up after a background error leaves
  `manual_compaction_` null for the background thread that is about to write to
  it. In LevelDBWrite that thread ends in the state `died` (`Crashed`).
- A synchronous write does not make earlier asynchronous writes durable once
  the log was switched in between. `doc/index.md:121-124` proposes a bulk load
  that relies on it. `OnlyTornFilesLose` counts as durable what was synced.
- After a log append that failed half way, later acknowledged writes lie behind
  a torn record and are lost by a process crash. With `reuse_logs` new records
  go behind a torn one too. `OnlyTornFilesLose` states the bound on the loss.
- An edit may be added to a MANIFEST behind a torn record (`behind`), and the next
  `DB::Open` then reports a corruption. With `reuse_logs`, `DB::Open` goes on with
  a MANIFEST that a machine crash left torn. Without it, the append of a flush
  nested in a merge fails half way and sets `bg_error_`, and the merge, which does
  not look at it, appends its own edit to the same `descriptor_log_`.
  `RecoverySucceeds` excepts both. In the second case `bg_error_` keeps
  `RemoveObsoleteFiles` from deleting anything, so `SequencesAreUnique` and
  `OnlyTornFilesLose` except only the first (`EditLost`).
- A `quit()` between the publication of `loop_` and the start of `loop()` is
  forgotten (the FIXME at `EventLoop.cc:97`), and `~EventLoopThread` then waits
  for ever. `QuitEndsLoop` is about loops that have begun.
- All workers of bthread may spin in `push_rq` on full queues with nobody left to
  steal; and one may spin while the others sleep, if its queue is full of tasks
  made ready without a signal. `TasksEndAndWorkersStop` excepts them.

## 8. Running

    tlc -config DisruptorMulti.cfg MCDisruptorSequencer
    tlc -config LevelDBRecovery.cfg MCLevelDBRecovery
    tlc -config MuduoThreadPool.cfg MuduoThreadPool
    tlapm DisruptorSequencerClaiming.tla       # and the other modules of section 6

`MC*` modules only give values to constants that a cfg cannot express
(functions, sets of records, symmetry sets); MCBthread also puts its two
specifications side by side. tlapm's translation to SMT slows down with the
number of obligations in a module, which is why the longer proofs are split in
two; the three on compaction take about ten minutes each, the others less. Operators
marked "Mutant" are deliberately wrong variants of the definition they stand
next to: `PROJECT.json` pairs each property with one that makes TLC find it
violated. They take part in no specification.
