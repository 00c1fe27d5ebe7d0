---------------------------- MODULE LevelDBWrite ----------------------------
(***************************************************************************)
(* The threads of a LevelDB DBImpl (leveldb/db/db_impl.cc): callers of     *)
(* Write, who queue up and let the one in front commit a group of batches; *)
(* the background thread, which flushes the immutable memtable and merges  *)
(* files; callers of TEST_CompactRange; and the destructor.                *)
(*                                                                         *)
(* What a thread does between acquiring and releasing mutex_ is one step,  *)
(* or a few steps during which mutex_ names the thread.  Whatever the code *)
(* does with mutex_ released (the log, the sync, the insertion into the    *)
(* memtable, building a table, writing the MANIFEST, the 1ms delay) is a   *)
(* step of its own that others interleave with.                            *)
(*                                                                         *)
(* A batch is the number of operations in it, its size is that number and  *)
(* an entry is one operation of a call with its sequence number.  Of the   *)
(* files only the number of level-0 files is kept; which keys they hold is *)
(* left out, and what survives a crash is LevelDBRecovery's.               *)
(***************************************************************************)
EXTENDS Integers, Sequences, FiniteSets

CONSTANTS
  Writers,        \* threads that call Write
  Compactors,     \* threads that call TEST_CompactRange
  Batches,        \* numbers of operations a batch may have; 0 stands for nullptr
  Syncs,          \* values of options.sync that callers use
  GroupGrowth, MaxGroup, \* 128 << 10 and 1 << 20 of BuildBatchGroup
  WriteBufferSize,\* options_.write_buffer_size, in entries
  CompactionTrigger, SlowdownTrigger, StopTrigger, \* config::kL0_...
  RecoveredFiles, \* level-0 files of the version that DB::Open recovered
  IOFails,        \* whether file operations may fail
  MaxCalls,       \* calls per thread (bound)
  MaxPieces,      \* pieces of a manual compaction (bound)
  Closer,         \* the thread that deletes the DB, or Nobody
  BG,             \* the background thread
  Nobody

ASSUME Distinct ==
  /\ Writers \cap Compactors = {}
  /\ {BG, Closer, Nobody} \cap (Writers \cup Compactors) = {}
  /\ BG \notin {Closer, Nobody}

ASSUME Sizes ==
  /\ Batches \subseteq Nat /\ Syncs \subseteq BOOLEAN
  /\ {GroupGrowth, MaxGroup, WriteBufferSize, CompactionTrigger, SlowdownTrigger,
      StopTrigger, RecoveredFiles, MaxCalls, MaxPieces} \subseteq Nat
  /\ 0 < CompactionTrigger
  /\ CompactionTrigger <= StopTrigger
  /\ IOFails \in BOOLEAN

Threads == Writers \cup Compactors \cup {BG, Closer}

VARIABLES
  mutex_,         \* the thread that is between two steps of one critical section
  pc,             \* where each thread is
  writers_,       \* the queue of writers
  call,           \* the Writer record of each writer, and the locals of its call
  group,          \* the writers whose batches the one in front is committing
  last_sequence,  \* versions_->LastSequence()
  log,            \* entries of the current log file
  logged,         \* history: all entries ever added to a log file
  synced,         \* history: entries that a Sync of their log file followed
  mem_, imm_,     \* entries of the memtables
  has_imm_,       \* whether imm_ is not nullptr
  tables,         \* entries in table files of the current version
  level0,         \* versions_->NumLevelFiles(0)
  scheduled,      \* background_compaction_scheduled_
  bg_error_,      \* whether a background error was recorded
  shutting_down_,
  merging,        \* locals of BackgroundCompaction, or Idle
  manual_compaction_, manual, \* the pointer, and the ManualCompaction of each caller
  returned        \* history: finished calls

queueVars == <<writers_, call, group, returned>>
dataVars == <<last_sequence, log, logged, synced, mem_, imm_, has_imm_, tables, level0>>
bgVars == <<scheduled, bg_error_, shutting_down_, merging>>
manualVars == <<manual_compaction_, manual>>
vars == <<mutex_, pc, queueVars, dataVars, bgVars, manualVars>>

Idle == [running |-> FALSE, manual |-> FALSE, inputs |-> 0]
NoCall == [n |-> 0, batch |-> 0, sync |-> FALSE, done |-> FALSE, ok |-> TRUE,
           force |-> FALSE, allow_delay |-> FALSE]
NoManual == [n |-> 0, done |-> FALSE, left |-> 0]

\* DB::Open ends with MaybeScheduleCompaction on the recovered version.
ScheduledByOpen == RecoveredFiles >= CompactionTrigger

Init ==
  /\ mutex_ = Nobody
  /\ pc = [t \in Threads |-> IF t = BG /\ ScheduledByOpen THEN "queued" ELSE "idle"]
  /\ writers_ = <<>>
  /\ call = [w \in Writers |-> NoCall]
  /\ group = <<>>
  /\ last_sequence = 0
  /\ log = {} /\ logged = {} /\ synced = {}
  /\ mem_ = {} /\ imm_ = {} /\ has_imm_ = FALSE /\ tables = {}
  /\ level0 = RecoveredFiles
  /\ scheduled = ScheduledByOpen /\ bg_error_ = FALSE /\ shutting_down_ = FALSE
  /\ merging = Idle
  /\ manual_compaction_ = Nobody
  /\ manual = [c \in Compactors |-> NoManual]
  /\ returned = {}

-----------------------------------------------------------------------------
(* The mutex and the condition variables.                                  *)

At(t, where) == pc[t] = where
AtLocked(t, where) == At(t, where) /\ mutex_ \in {Nobody, t}
Release == mutex_' = Nobody
Hold(t) == mutex_' = t

\* Mutant: only one kind of waiter is woken up.
SignalWriters(p) == [t \in Threads |-> IF p[t] = "room_wait" THEN "room" ELSE p[t]]

\* background_work_finished_signal_.SignalAll(): every waiter goes back to
\* the loop it waits in.
SignalAll(p) ==
  [t \in Threads |-> CASE p[t] = "room_wait" -> "room"
                       [] p[t] = "drain_wait" -> "drain"
                       [] p[t] = "manual_wait" -> "manual"
                       [] p[t] = "close_wait" -> "closing"
                       [] OTHER -> p[t]]

\* w.cv.Signal() for the writers in ws.
Signal(p, ws) ==
  [t \in Threads |-> IF t \in ws /\ p[t] = "wait" THEN "woken" ELSE p[t]]

\* MaybeScheduleCompaction, run on the new values of the variables: p is the
\* new pc and busy whether a compaction is already scheduled.
NeedsCompaction == level0' >= CompactionTrigger

MaybeScheduleCompaction(p, busy) ==
  LET schedule == /\ ~busy
                  /\ ~shutting_down_'
                  /\ ~bg_error_'
                  /\ has_imm_' \/ manual_compaction_' # Nobody \/ NeedsCompaction
  IN  /\ scheduled' = (busy \/ schedule)
      /\ pc' = IF schedule THEN [p EXCEPT ![BG] = "queued"] ELSE p

\* RecordBackgroundError when failed: sets bg_error_, and wakes up the
\* waiters if it was clear.  NextPc is the pc that results from p.
RecordBackgroundError(failed) == bg_error_' = (bg_error_ \/ failed)
AfterError(p, failed) == IF failed /\ ~bg_error_ THEN SignalAll(p) ELSE p

\* The outcomes of a file operation.
Outcomes == IF IOFails THEN BOOLEAN ELSE {TRUE}

-----------------------------------------------------------------------------
(* Write                                                                   *)

Front == Head(writers_)
Id(w) == <<w, call[w].n>>

\* A thread calls Write(options, updates).  It goes on to MakeRoomForWrite
\* without releasing the mutex when it is in front.
Write(w) ==
  /\ AtLocked(w, "idle") /\ call[w].n < MaxCalls /\ ~shutting_down_
  /\ \E b \in Batches : \E sync \in IF b = 0 THEN {FALSE} ELSE Syncs :
       call' = [call EXCEPT ![w] =
                  [n |-> @.n + 1, batch |-> b, sync |-> sync, done |-> FALSE,
                   ok |-> TRUE, force |-> (b = 0), allow_delay |-> (b # 0)]]
  /\ writers_' = Append(writers_, w)
  /\ IF writers_ = <<>> THEN Hold(w) /\ pc' = [pc EXCEPT ![w] = "room"]
                        ELSE Release /\ pc' = [pc EXCEPT ![w] = "wait"]
  /\ UNCHANGED <<group, returned, dataVars, bgVars, manualVars>>

\* Return from Write with a status.  TEST_CompactMemTable, the caller with a
\* nullptr batch, then waits for the flush.
AfterWrite(w, ok) == IF call[w].batch = 0 /\ ok THEN "drain" ELSE "idle"
Answer(w, ok) ==
  [id |-> Id(w), ok |-> ok, batch |-> call[w].batch, sync |-> call[w].sync]
Forget(c, w) == [c EXCEPT ![w] = [NoCall EXCEPT !.n = c[w].n]]
Returns(w, ok) == call[w].batch # 0 \/ ~ok
AfterReturn(c, w, ok) == IF Returns(w, ok) THEN Forget(c, w) ELSE c
ReturnedBy(w, ok) == IF Returns(w, ok) THEN {Answer(w, ok)} ELSE {}

\* Mutant: proceeds on any wakeup.
ProceedAlways(w) == TRUE

\* cv.Wait() returned.
MayProceed(w) == w = Front

Woken(w) ==
  /\ AtLocked(w, "woken")
  /\ \/ /\ call[w].done
        /\ pc' = [pc EXCEPT ![w] = AfterWrite(w, call[w].ok)]
        /\ returned' = returned \cup ReturnedBy(w, call[w].ok)
        /\ call' = AfterReturn(call, w, call[w].ok)
        /\ Release
     \/ /\ ~call[w].done /\ MayProceed(w)
        /\ pc' = [pc EXCEPT ![w] = "room"]
        /\ Hold(w)
        /\ UNCHANGED <<call, returned>>
     \/ /\ ~call[w].done /\ ~MayProceed(w)
        /\ pc' = [pc EXCEPT ![w] = "wait"]
        /\ Release
        /\ UNCHANGED <<call, returned>>
  /\ UNCHANGED <<writers_, group, dataVars, bgVars, manualVars>>

\* A condition variable may wake up its waiter for no reason.
SpuriousWakeup(w) ==
  /\ At(w, "wait")
  /\ pc' = [pc EXCEPT ![w] = "woken"]
  /\ UNCHANGED <<mutex_, queueVars, dataVars, bgVars, manualVars>>

RestAfter(n) == SubSeq(writers_, n + 1, Len(writers_))
NewFront(rest) == IF rest = <<>> THEN {} ELSE {Head(rest)}

\* The loop that pops the first n writers, w and those its group committed
\* for, tells them the status and wakes up the new front; w returns.  p is
\* the pc with the effects of this critical section so far.
Finish(p, w, n, ok) ==
  LET followers == {writers_[i] : i \in 2..n}
      rest == RestAfter(n)
      told == [v \in Writers |-> IF v \in followers
                                 THEN [call[v] EXCEPT !.done = TRUE, !.ok = ok]
                                 ELSE call[v]]
  IN  /\ writers_' = rest
      /\ call' = AfterReturn(told, w, ok)
      /\ returned' = returned \cup ReturnedBy(w, ok)
      /\ pc' = [Signal(p, followers \cup NewFront(rest)) EXCEPT ![w] = AfterWrite(w, ok)]
      /\ group' = <<>>
      /\ Release

\* Mutant: a sync write may join any group.
NeverStops(first, w) == FALSE

\* BuildBatchGroup: the writers after the first one join the group up to a
\* sync write, if the first is not one, or a batch that makes it too large.
\* BuildBatchGroup(n) says that its loop ends with the first n in the group.
StopsGroup(first, w) == call[w].sync /\ ~call[first].sync

GroupSize(n) ==
  LET size[i \in 0..n] == IF i = 0 THEN 0 ELSE size[i - 1] + call[writers_[i]].batch
  IN  size[n]

MaxSize ==
  IF call[Front].batch <= GroupGrowth THEN call[Front].batch + GroupGrowth ELSE MaxGroup

Joins(n) ==
  \A i \in 2..n : /\ ~StopsGroup(Front, writers_[i])
                  /\ call[writers_[i]].batch = 0 \/ GroupSize(i) <= MaxSize

BuildBatchGroup(n) == Joins(n) /\ \A m \in (n + 1)..Len(writers_) : ~Joins(m)

\* MakeRoomForWrite succeeded: build the group and release the mutex, or,
\* for a nullptr batch, finish at once.
HaveRoom(w) ==
  \/ /\ call[w].batch = 0
     /\ Finish(pc, w, 1, TRUE)
  \/ /\ call[w].batch # 0
     /\ \E n \in 1..Len(writers_) :
          BuildBatchGroup(n) /\ group' = SubSeq(writers_, 1, n)
     /\ pc' = [pc EXCEPT ![w] = "log"]
     /\ Release
     /\ UNCHANGED <<writers_, call, returned>>

\* Mutants: bg_error_ is not looked at; nor is imm_.
AcceptsWrites == FALSE
NeverInProgress == FALSE

\* One iteration of the loop of MakeRoomForWrite.
SlowDown(w) == call[w].allow_delay /\ level0 >= SlowdownTrigger
Room(w) == ~call[w].force /\ Cardinality(mem_) <= WriteBufferSize
RefusesWrites == bg_error_
FlushInProgress == has_imm_
Block(w) ==
  /\ pc' = [pc EXCEPT ![w] = "room_wait"]
  /\ Release
  /\ UNCHANGED <<queueVars, dataVars, bgVars, manualVars>>

YieldError(w) ==
  /\ Finish(pc, w, 1, FALSE)
  /\ UNCHANGED <<dataVars, bgVars, manualVars>>

DelayOnce(w) ==
  /\ pc' = [pc EXCEPT ![w] = "sleep"]
  /\ Release
  /\ UNCHANGED <<queueVars, dataVars, bgVars, manualVars>>

\* Switch to a new memtable and log file.  The new file may not open (the
\* call fails), the old one may fail to close (a background error).
NewLogFails(w) == IOFails /\ YieldError(w)

SwitchMemTable(w, closed) ==
  /\ imm_' = mem_ /\ has_imm_' = TRUE
  /\ mem_' = {} /\ log' = {}
  /\ call' = [call EXCEPT ![w].force = FALSE]
  /\ RecordBackgroundError(~closed)
  /\ UNCHANGED <<shutting_down_, manualVars, level0, last_sequence, logged, synced, tables>>
  /\ MaybeScheduleCompaction(AfterError(pc, ~closed), scheduled)
  /\ Hold(w)
  /\ UNCHANGED <<writers_, group, returned, merging>>

MakeRoomForWrite(w) ==
  /\ AtLocked(w, "room")
  /\ IF RefusesWrites THEN YieldError(w)
     ELSE IF SlowDown(w) THEN DelayOnce(w)
     ELSE IF Room(w) THEN HaveRoom(w) /\ UNCHANGED <<dataVars, bgVars, manualVars>>
     ELSE IF FlushInProgress THEN Block(w)
     ELSE IF level0 >= StopTrigger THEN Block(w)
     ELSE NewLogFails(w) \/ \E closed \in Outcomes : SwitchMemTable(w, closed)

WakeAfterDelay(w) ==
  /\ At(w, "sleep")
  /\ pc' = [pc EXCEPT ![w] = "room"]
  /\ call' = [call EXCEPT ![w].allow_delay = FALSE]
  /\ UNCHANGED <<mutex_, writers_, group, returned, dataVars, bgVars, manualVars>>

\* The group's entries: the operations of its batches in order, numbered
\* from LastSequence() + 1.
GroupOps == UNION {{i} \X (1..call[group[i]].batch) : i \in 1..Len(group)}
OpsUpTo(op) == {o \in GroupOps : o[1] < op[1] \/ (o[1] = op[1] /\ o[2] <= op[2])}
GroupEntries ==
  {[seq |-> last_sequence + Cardinality(OpsUpTo(op)), id |-> Id(group[op[1]])] : op \in GroupOps}

\* log_->AddRecord.  When it fails the record may be in the file or not.
AddRecord(w) ==
  /\ At(w, "log")
  /\ \/ /\ log' = log \cup GroupEntries
        /\ logged' = logged \cup GroupEntries
        /\ pc' = [pc EXCEPT ![w] = IF call[w].sync THEN "sync" ELSE "insert"]
     \/ /\ IOFails
        /\ \E written \in {{}, GroupEntries} :
             log' = log \cup written /\ logged' = logged \cup written
        /\ pc' = [pc EXCEPT ![w] = "failed"]
  /\ UNCHANGED <<mutex_, queueVars, last_sequence, synced, mem_, imm_, has_imm_, tables,
                 level0, bgVars, manualVars>>

\* logfile_->Sync().
SyncLog(w) ==
  /\ At(w, "sync")
  /\ \/ /\ synced' = synced \cup log
        /\ pc' = [pc EXCEPT ![w] = "insert"]
     \/ /\ IOFails
        /\ pc' = [pc EXCEPT ![w] = "sync_failed"]
        /\ UNCHANGED synced
  /\ UNCHANGED <<mutex_, queueVars, last_sequence, log, logged, mem_, imm_, has_imm_, tables,
                 level0, bgVars, manualVars>>

\* WriteBatchInternal::InsertInto(write_batch, mem_).
InsertInto(w) ==
  /\ At(w, "insert")
  /\ mem_' = mem_ \cup GroupEntries
  /\ pc' = [pc EXCEPT ![w] = "inserted"]
  /\ UNCHANGED <<mutex_, queueVars, last_sequence, log, logged, synced, imm_, has_imm_, tables,
                 level0, bgVars, manualVars>>

\* Mutant: a failed group leaves its numbers to the next one.
SetLastSequenceIfOk(ok) ==
  last_sequence' = last_sequence + (IF ok THEN Cardinality(GroupEntries) ELSE 0)

\* The end of Write: the sequence numbers are used up whatever the status.
SetLastSequence(ok) == last_sequence' = last_sequence + Cardinality(GroupEntries)

CommitGroup(w) ==
  /\ pc[w] \in {"inserted", "failed", "sync_failed"} /\ mutex_ = Nobody
  /\ LET ok == At(w, "inserted")
         syncError == At(w, "sync_failed")
     IN  /\ RecordBackgroundError(syncError)
         /\ SetLastSequence(ok)
         /\ Finish(AfterError(pc, syncError), w, Len(group), ok)
  /\ UNCHANGED <<log, logged, synced, mem_, imm_, has_imm_, tables, level0, scheduled,
                 shutting_down_, merging, manualVars>>

\* TEST_CompactMemTable after its Write: wait until the flush completes.
Drain(w) ==
  /\ AtLocked(w, "drain")
  /\ \/ /\ has_imm_ /\ ~bg_error_
        /\ pc' = [pc EXCEPT ![w] = "drain_wait"]
        /\ UNCHANGED <<call, returned>>
     \/ /\ ~has_imm_ \/ bg_error_
        /\ pc' = [pc EXCEPT ![w] = "idle"]
        /\ returned' = returned \cup {Answer(w, ~has_imm_)}
        /\ call' = Forget(call, w)
  /\ UNCHANGED <<mutex_, writers_, group, dataVars, bgVars, manualVars>>

WriterStep(w) ==
  \/ Woken(w) \/ MakeRoomForWrite(w) \/ WakeAfterDelay(w) \/ AddRecord(w)
  \/ SyncLog(w) \/ InsertInto(w) \/ CommitGroup(w) \/ Drain(w)

-----------------------------------------------------------------------------
(* The background thread                                                   *)

\* Mutant: does not look for more work.
EndCallForGood(p) == scheduled' = FALSE /\ pc' = [SignalAll(p) EXCEPT ![BG] = "idle"]

\* The end of BackgroundCall; p is the pc so far.
EndCall(p) ==
  MaybeScheduleCompaction([SignalAll(p) EXCEPT ![BG] = "idle"], FALSE)

\* The end of a manual compaction: *manual_compaction_ is updated through the
\* pointer as it is now.  The thread dies when that is nullptr.
EndManual(p, ok, done) ==
  /\ manual_compaction_' = Nobody
  /\ IF manual_compaction_ = Nobody
     THEN /\ pc' = [p EXCEPT ![BG] = "died"]
          /\ UNCHANGED <<manual, scheduled>>
     ELSE /\ manual' = [manual EXCEPT ![manual_compaction_] =
                          [@ EXCEPT !.done = done \/ ~ok, !.left = IF done THEN 0 ELSE @ - 1]]
          /\ EndCall(p)

\* BackgroundCompaction when there is no immutable memtable: a piece of the
\* manual compaction, or PickCompaction's choice, which moves a file to the
\* next level or merges the level-0 files.
StartMerge(isManual, inputs) ==
  /\ merging' = [running |-> TRUE, manual |-> isManual, inputs |-> inputs]
  /\ pc' = [pc EXCEPT ![BG] = "merge"]
  /\ UNCHANGED <<scheduled, manualVars>>

BackgroundCompaction ==
  \/ /\ manual_compaction_ # Nobody /\ manual[manual_compaction_].left = 0
     /\ UNCHANGED merging
     /\ EndManual(pc, TRUE, TRUE)
  \/ /\ manual_compaction_ # Nobody /\ manual[manual_compaction_].left > 0
     /\ \E inputs \in {0, level0} : StartMerge(TRUE, inputs)
  \/ /\ manual_compaction_ = Nobody /\ level0 >= CompactionTrigger
     /\ \/ StartMerge(FALSE, level0)
        \/ /\ pc' = [pc EXCEPT ![BG] = "move"]
           /\ UNCHANGED <<merging, scheduled, manualVars>>
  \/ /\ manual_compaction_ = Nobody /\ level0 < CompactionTrigger
     /\ UNCHANGED <<merging, manualVars>>
     /\ EndCall(pc)

BackgroundCall ==
  /\ AtLocked(BG, "queued")
  /\ \/ /\ shutting_down_ \/ bg_error_
        /\ UNCHANGED <<merging, bg_error_, shutting_down_, dataVars, manualVars>>
        /\ EndCall(pc)
     \/ /\ ~shutting_down_ /\ ~bg_error_ /\ has_imm_
        /\ pc' = [pc EXCEPT ![BG] = "build"]
        /\ UNCHANGED <<bgVars, dataVars, manualVars>>
     \/ /\ ~shutting_down_ /\ ~bg_error_ /\ ~has_imm_
        /\ UNCHANGED <<dataVars, bg_error_, shutting_down_>>
        /\ BackgroundCompaction
  /\ UNCHANGED <<mutex_, queueVars>>

\* CompactMemTable.  WriteLevel0Table builds the table with the mutex
\* released; the edit is then logged to the MANIFEST, released again.
AfterFlush(p) ==
  IF merging.running THEN pc' = [SignalAll(p) EXCEPT ![BG] = "merge"] /\ UNCHANGED scheduled
                     ELSE EndCall(p)

TableBuilt ==
  /\ AtLocked(BG, "build")
  /\ UNCHANGED <<mutex_, queueVars, dataVars, shutting_down_, merging, manualVars>>
  /\ \E built \in Outcomes :
       IF built /\ ~shutting_down_
       THEN /\ pc' = [pc EXCEPT ![BG] = "manifest"]
            /\ UNCHANGED <<scheduled, bg_error_>>
       ELSE RecordBackgroundError(TRUE) /\ AfterFlush(AfterError(pc, TRUE))

\* An empty memtable makes no file; PickLevelForMemTableOutput may put the
\* file below level 0.
FlushApplied ==
  /\ AtLocked(BG, "manifest")
  /\ UNCHANGED <<mutex_, queueVars, last_sequence, log, logged, synced, mem_, shutting_down_,
                 merging, manualVars>>
  /\ \/ /\ tables' = tables \cup imm_
        /\ imm_' = {} /\ has_imm_' = FALSE
        /\ \E n \in IF imm_ = {} THEN {0} ELSE {0, 1} : level0' = level0 + n
        /\ UNCHANGED bg_error_
        /\ IF bg_error_ THEN AfterFlush(pc)
           ELSE pc' = [pc EXCEPT ![BG] = "remove"] /\ UNCHANGED scheduled
     \/ /\ IOFails
        /\ UNCHANGED <<imm_, has_imm_, tables, level0>>
        /\ RecordBackgroundError(TRUE)
        /\ AfterFlush(AfterError(pc, TRUE))

\* RemoveObsoleteFiles deletes the files with the mutex released.
FilesRemoved ==
  /\ AtLocked(BG, "remove")
  /\ UNCHANGED <<mutex_, queueVars, dataVars, bg_error_, shutting_down_, merging, manualVars>>
  /\ AfterFlush(pc)

\* DoCompactionWork.  Between two keys it flushes an immutable memtable
\* first; at the end it installs the results with LogAndApply.
EndMerge(p, ok) ==
  /\ merging' = Idle
  /\ IF merging.manual THEN EndManual(p, ok, FALSE)
                       ELSE UNCHANGED manualVars /\ EndCall(p)

MergeYields ==
  /\ AtLocked(BG, "merge") /\ has_imm_ /\ ~shutting_down_
  /\ pc' = [pc EXCEPT ![BG] = "build"]
  /\ UNCHANGED <<mutex_, queueVars, dataVars, bgVars, manualVars>>

MergeDone ==
  /\ AtLocked(BG, "merge")
  /\ UNCHANGED <<mutex_, queueVars, dataVars, shutting_down_>>
  /\ \E written \in Outcomes :
       IF written /\ ~shutting_down_
       THEN /\ pc' = [pc EXCEPT ![BG] = "install"]
            /\ UNCHANGED <<scheduled, bg_error_, merging, manualVars>>
       ELSE RecordBackgroundError(TRUE) /\ EndMerge(AfterError(pc, TRUE), FALSE)

MergeInstalled ==
  /\ AtLocked(BG, "install")
  /\ UNCHANGED <<mutex_, queueVars, last_sequence, log, logged, synced, mem_, imm_, has_imm_,
                 tables, shutting_down_>>
  /\ \/ /\ level0' = level0 - merging.inputs
        /\ UNCHANGED bg_error_
        /\ IF bg_error_ THEN EndMerge(pc, TRUE)
           ELSE pc' = [pc EXCEPT ![BG] = "cleanup"] /\ UNCHANGED <<scheduled, merging, manualVars>>
     \/ /\ IOFails
        /\ UNCHANGED level0
        /\ RecordBackgroundError(TRUE)
        /\ EndMerge(AfterError(pc, TRUE), FALSE)

MergeCleanedUp ==
  /\ AtLocked(BG, "cleanup")
  /\ UNCHANGED <<mutex_, queueVars, dataVars, bg_error_, shutting_down_>>
  /\ EndMerge(pc, TRUE)

\* A trivial move only logs the edit.
FileMoved ==
  /\ AtLocked(BG, "move")
  /\ UNCHANGED <<mutex_, queueVars, last_sequence, log, logged, synced, mem_, imm_, has_imm_,
                 tables, shutting_down_, merging, manualVars>>
  /\ \E moved \in Outcomes :
       /\ level0' = IF moved THEN level0 - 1 ELSE level0
       /\ RecordBackgroundError(~moved)
       /\ EndCall(AfterError(pc, ~moved))

BackgroundStep ==
  \/ BackgroundCall \/ TableBuilt \/ FlushApplied \/ FilesRemoved
  \/ MergeYields \/ MergeDone \/ MergeInstalled \/ MergeCleanedUp \/ FileMoved

-----------------------------------------------------------------------------
(* TEST_CompactRange and the destructor                                    *)

TEST_CompactRange(c) ==
  /\ AtLocked(c, "idle") /\ manual[c].n < MaxCalls /\ ~shutting_down_
  /\ \E left \in 0..MaxPieces :
       manual' = [manual EXCEPT ![c] = [n |-> @.n + 1, done |-> FALSE, left |-> left]]
  /\ pc' = [pc EXCEPT ![c] = "manual"]
  /\ UNCHANGED <<mutex_, queueVars, dataVars, bgVars, manual_compaction_>>

\* The loop: returns, registers its compaction and waits, or waits.
ManualAborts(c) == manual[c].done \/ shutting_down_ \/ bg_error_

ManualLoop(c) ==
  /\ AtLocked(c, "manual")
  /\ UNCHANGED <<mutex_, queueVars, dataVars, bg_error_, shutting_down_, merging>>
  /\ \/ /\ ManualAborts(c)
        /\ pc' = [pc EXCEPT ![c] = "idle"]
        /\ manual_compaction_' = IF manual_compaction_ = c THEN Nobody ELSE manual_compaction_
        /\ manual' = [manual EXCEPT ![c] = [NoManual EXCEPT !.n = manual[c].n]]
        /\ UNCHANGED scheduled
     \/ /\ ~ManualAborts(c) /\ manual_compaction_ = Nobody
        /\ manual_compaction_' = c
        /\ UNCHANGED manual
        /\ MaybeScheduleCompaction([pc EXCEPT ![c] = "manual_wait"], scheduled)
     \/ /\ ~ManualAborts(c) /\ manual_compaction_ # Nobody
        /\ pc' = [pc EXCEPT ![c] = "manual_wait"]
        /\ UNCHANGED <<scheduled, manualVars>>

\* ~DBImpl.  The caller of delete has to see to it that no call is in progress
\* and that none follows: the object is gone when the destructor returns.
StartClose ==
  /\ AtLocked(Closer, "idle") /\ Closer # Nobody
  /\ \A t \in Writers \cup Compactors : At(t, "idle")
  /\ shutting_down_' = TRUE
  /\ pc' = [pc EXCEPT ![Closer] = "closing"]
  /\ UNCHANGED <<mutex_, queueVars, dataVars, scheduled, bg_error_, merging, manualVars>>

\* Mutant: does not wait.
NeverRunning == FALSE

StillRunning == scheduled

WaitForBackground ==
  /\ AtLocked(Closer, "closing")
  /\ pc' = [pc EXCEPT ![Closer] = IF StillRunning THEN "close_wait" ELSE "closed"]
  /\ UNCHANGED <<mutex_, queueVars, dataVars, bgVars, manualVars>>

-----------------------------------------------------------------------------

Next ==
  \/ \E w \in Writers : Write(w) \/ SpuriousWakeup(w) \/ WriterStep(w)
  \/ BackgroundStep
  \/ \E c \in Compactors : TEST_CompactRange(c) \/ ManualLoop(c)
  \/ StartClose \/ WaitForBackground

Spec == Init /\ [][Next]_vars

\* Every thread that is inside the DB goes on: file operations return, the
\* 1ms sleep ends, and mutex_ is granted to a thread that keeps asking for it.
Fairness ==
  /\ \A w \in Writers : SF_vars(WriterStep(w))
  /\ SF_vars(BackgroundStep)
  /\ \A c \in Compactors : SF_vars(ManualLoop(c))
  /\ SF_vars(WaitForBackground)

LiveSpec == Spec /\ Fairness

-----------------------------------------------------------------------------
(* Properties                                                              *)

Committing == {"log", "sync", "insert", "inserted", "failed", "sync_failed"}

\* "&w is currently responsible for logging and protects against concurrent
\* loggers and concurrent writes into mem_" (Write): while the mutex is
\* released at most one thread commits, it is in front of writers_, and
\* the group it will pop is what the queue starts with. writers_ points to
\* Writer objects on the stacks of calls that have not returned, to each once.
OneCommitter ==
  /\ \A i, j \in DOMAIN writers_ : writers_[i] = writers_[j] => i = j
  /\ \A i \in DOMAIN writers_ : pc[writers_[i]] \notin {"idle", "drain", "drain_wait"}
  /\ \A w \in Writers : pc[w] \in Committing =>
       /\ w = Front
       /\ group # <<>> /\ Len(group) <= Len(writers_)
       /\ group = SubSeq(writers_, 1, Len(group))
       /\ \A v \in Writers \ {w} : pc[v] \notin Committing \cup {"room", "room_wait", "sleep"}

\* No sequence number is given to two operations, even when the first one's
\* group failed: its record may be in the log all the same.
SequencesAreUnique ==
  \A e, f \in UNION {logged, mem_, imm_, tables} : e.seq = f.seq => e = f

\* When Write returns OK all operations of the batch are in a memtable or a
\* table, also if another thread committed them; and with options.sync they
\* are durable, in a synced log or in a table.
AcknowledgedIsStored ==
  \A r \in returned : r.ok =>
    LET Mine(s) == {e \in s : e.id = r.id}
    IN  /\ Cardinality(Mine(mem_ \cup imm_ \cup tables)) = r.batch
        /\ r.sync => Cardinality(Mine(synced \cup tables)) = r.batch

\* A call of Write that has no outcome yet: it is in the queue or makes room,
\* and its batch is in no group.
Undecided(w) ==
  /\ pc[w] \in {"wait", "woken", "room", "room_wait", "sleep"} /\ ~call[w].done
  /\ \A i \in DOMAIN group : group[i] # w

\* "So we force the DB into a mode where all future writes fail" (Write): once
\* a background error is recorded, a call without an outcome stays without one
\* or returns the error, whether it is made later or was already waiting, in
\* the queue, for room or in the 1ms delay, when the error came.
FailsAfterError ==
  [][\A w \in Writers : bg_error_ /\ Undecided(w) =>
       \/ Undecided(w)' /\ Id(w)' = Id(w)
       \/ At(w, "idle")' /\ Answer(w, FALSE) \in returned']_vars

\* No work is forgotten: whenever there is an immutable memtable, a manual
\* compaction or a full level 0, a background call is on its way, however
\* MaybeScheduleCompaction raced with the end of the previous one.
WorkIsScheduled ==
  has_imm_ \/ manual_compaction_ # Nobody \/ level0 >= CompactionTrigger =>
    scheduled \/ bg_error_ \/ shutting_down_

\* After the destructor's wait the background thread does not touch the DB.
ClosedIsQuiet == At(Closer, "closed") => At(BG, "idle") /\ ~scheduled

\* A reader at LastSequence() sees the same entries for ever: a step adds or
\* loses no entry with a sequence number up to LastSequence().
SnapshotsAreStable ==
  [][LET Seen(s) == {e \in s : e.seq <= last_sequence}
     IN  Seen((mem_ \cup imm_ \cup tables)') = Seen(mem_ \cup imm_ \cup tables)]_vars

\* The process has ended: EndManual found manual_compaction_ to be nullptr.
Crashed == At(BG, "died")

\* Every call returns: Write and TEST_CompactMemTable, however the queue, the
\* 1ms delay, the flush of the memtable and the level-0 limit make them wait;
\* TEST_CompactRange, also when a background error comes while it waits; and
\* the destructor, which waits for the background thread. All of it also when
\* files fail.
CallsReturn ==
  /\ \A t \in Writers \cup Compactors : ~At(t, "idle") ~> At(t, "idle") \/ Crashed
  /\ At(Closer, "closing") ~> At(Closer, "closed") \/ Crashed
=============================================================================
