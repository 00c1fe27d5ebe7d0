-------------------------- MODULE LevelDBRecovery --------------------------
(***************************************************************************)
(* What a LevelDB database keeps on disk, and what is left of it after a   *)
(* crash: the log files, the table files, the MANIFEST files and CURRENT;  *)
(* writing, switching memtables, flushing, merging and deleting obsolete   *)
(* files while the DB is open (db_impl.cc, version_set.cc), and DB::Open   *)
(* with everything it does, each step of which may be the last one before  *)
(* the next crash.                                                         *)
(*                                                                         *)
(* A process crash loses what is in memory.  A machine crash also loses,   *)
(* of every file, some of what was written after its last Sync; a record   *)
(* may be torn.  Creating, renaming and removing a file is durable at      *)
(* once: the directory is synced with every MANIFEST (env_posix.cc), and   *)
(* for the rest a journalled directory is assumed.                         *)
(*                                                                         *)
(* The queue of writers is LevelDBWrite's: here one thread writes.  Keys   *)
(* are left out: an entry is a write and its sequence number, and merging  *)
(* tables keeps their entries.                                             *)
(***************************************************************************)
EXTENDS Integers, Sequences, FiniteSetsExt

CONSTANTS
  Regimes,        \* the options and the faults that the DB may meet, which calls
                  \* other than Write are made, bounds on crashes and file numbers
  MaxWrites       \* bound

ASSUME Bounds ==
  /\ Regimes \subseteq [reuse_logs : BOOLEAN, machine : BOOLEAN, io : BOOLEAN,
                         append : BOOLEAN, iterators : BOOLEAN, force : BOOLEAN, crashes : Nat, files : Nat]
  /\ MaxWrites \in Nat

VARIABLES
  regime,         \* the one of this DB
  logs,           \* number |-> log file
  ssts,           \* number |-> [data, complete]: table files
  manifests,      \* number |-> MANIFEST file
  current,        \* the MANIFEST that CURRENT names, 0 when there is no CURRENT
  phase,          \* where DB::Open is; "open" when it has returned
  unread,         \* log files that Recover has still to read
  edit, save_manifest, \* the VersionEdit that DB::Open collects
  version,        \* file numbers of versions_->current()
  pinned,         \* file numbers of a version that a reader holds
  next_file_number_, manifest_file_number_, log_number_, last_sequence_,
  descriptor,     \* whether descriptor_log_ is there
  logfile_number_, mem_, imm_, has_imm_,
  writing,        \* entries added to the log but not yet to mem_
  pending_outputs_,
  flush, merge,   \* the background thread's CompactMemTable and DoCompactionWork
  doomed,         \* files RemoveObsoleteFiles is about to delete
  bg_error_,
  issued, acked, durable, exposed, crashes, \* history
  behind          \* history: an edit was added to a MANIFEST behind a torn record

disk == <<logs, ssts, manifests, current>>
opening == <<phase, unread, edit, save_manifest>>
versions_ == <<version, next_file_number_, manifest_file_number_, log_number_, last_sequence_,
               descriptor>>
memory == <<logfile_number_, mem_, imm_, has_imm_, writing>>
background == <<pending_outputs_, flush, merge, doomed, bg_error_>>
history == <<issued, acked, durable, exposed, crashes>>
vars == <<disk, opening, versions_, pinned, memory, background, history, behind, regime>>

ReuseLogs == regime.reuse_logs   \* options_.reuse_logs
MachineCrashes == regime.machine \* a crash may be one of the machine
IOFails == regime.io             \* writing tables and the MANIFEST and syncing logs may fail
AppendFails == regime.append     \* adding a record to a log may fail half way
MaxCrashes == regime.crashes
MaxFile == regime.files

NoEdit == [log |-> 0, next |-> 0, last |-> 0, add |-> {}, del |-> {}]
NoJob == [at |-> "idle", file |-> 0, inputs |-> {}, edit |-> NoEdit]

Put(f, k, v) == [x \in DOMAIN f \cup {k} |-> IF x = k THEN v ELSE f[x]]
Without(f, S) == [x \in DOMAIN f \ S |-> f[x]]
Larger(a, b) == IF a < b THEN b ELSE a

\* A file that log::Writer writes: its records, how many of them are synced,
\* and after how many records there are the remains of a torn one.
NewFile == [recs |-> <<>>, synced |-> 0, torn |-> {}]
AddRecord(f, r) == [f EXCEPT !.recs = Append(@, r)]
\* Mutant: the sync is left out.
NoSync(f) == f
Sync(f) == [f EXCEPT !.synced = Len(f.recs)]

\* log::Reader: a torn record is the end of the file if nothing follows it.
\* Otherwise what follows is dropped with the rest of its block and a
\* corruption is reported.
Corrupted(f) == \E n \in f.torn : n < Len(f.recs)
ReadRecords(f) ==
  SubSeq(f.recs, 1, Min(f.torn \cup {Len(f.recs)}))
LogEntries(f) == LET r == ReadRecords(f) IN {r[i] : i \in DOMAIN r}

Data(files) == UNION {ssts[n].data : n \in files}
Contents == Data(version) \cup mem_ \cup imm_

\* A DB that is not open.
Closed ==
  /\ phase = "closed" /\ unread = {} /\ edit = NoEdit /\ save_manifest = FALSE
  /\ version = {} /\ pinned = {}
  /\ next_file_number_ = 2 /\ manifest_file_number_ = 0 /\ log_number_ = 0 /\ last_sequence_ = 0
  /\ descriptor = FALSE
  /\ logfile_number_ = 0 /\ mem_ = {} /\ imm_ = {} /\ has_imm_ = FALSE /\ writing = {}
  /\ pending_outputs_ = {} /\ flush = NoJob /\ merge = NoJob
  /\ doomed = {} /\ bg_error_ = FALSE

Init ==
  /\ regime \in Regimes
  /\ logs = <<>> /\ ssts = <<>> /\ manifests = <<>> /\ current = 0
  /\ Closed
  /\ issued = 0 /\ acked = {} /\ durable = {} /\ exposed = {}
  /\ crashes = 0 /\ behind = FALSE

-----------------------------------------------------------------------------
(* RemoveObsoleteFiles                                                     *)

\* pending_outputs_ and AddLiveFiles: the files of the current version and of
\* every version that a reader holds.
LiveFiles == pending_outputs_ \cup version' \cup pinned

KeepLog(n) == n >= log_number_'

Obsolete ==
  {<<"log", n>> : n \in {m \in DOMAIN logs : ~KeepLog(m)}}
    \cup {<<"manifest", n>> : n \in {m \in DOMAIN manifests' : m < manifest_file_number_}}
    \cup {<<"sst", n>> : n \in DOMAIN ssts \ LiveFiles}

\* Mutant: bg_error_ is not looked at.
RemoveAnyway == doomed' = Obsolete
\* "After a background error, we don't know whether a new version may or may
\* not have been committed, so we cannot safely garbage collect."
RemoveObsoleteFiles == doomed' = IF bg_error_ THEN {} ELSE Obsolete

\* The deletion, with the mutex released; errors are ignored.
DeleteFiles ==
  /\ doomed # {}
  /\ \E gone \in SUBSET doomed :
       LET Gone(type) == {f[2] : f \in {g \in gone : g[1] = type}}
       IN  /\ logs' = Without(logs, Gone("log"))
           /\ ssts' = Without(ssts, Gone("sst"))
           /\ manifests' = Without(manifests, Gone("manifest"))
  /\ doomed' = {}
  /\ phase' = "open"
  /\ UNCHANGED <<current, unread, edit, save_manifest, versions_, pinned, memory, pending_outputs_, flush, merge,
                 bg_error_, history, behind, regime>>

-----------------------------------------------------------------------------
(* DB::Open                                                                *)

\* NewDB writes and syncs MANIFEST-000001 before CURRENT names it.
NewDB ==
  /\ phase = "closed" /\ current = 0
  /\ manifests' = Put(manifests, 1, Sync(AddRecord(NewFile, [NoEdit EXCEPT !.next = 2])))
  /\ phase' = "created"
  /\ UNCHANGED <<logs, ssts, current, unread, edit, save_manifest, versions_, pinned, memory,
                 background, history, behind, regime>>

SetFirstCurrent ==
  /\ phase = "created"
  /\ current' = 1
  /\ phase' = "closed"
  /\ UNCHANGED <<logs, ssts, manifests, unread, edit, save_manifest, versions_, pinned, memory,
                 background, history, behind, regime>>

\* VersionSet::Recover applies the edits of the MANIFEST in order; then
\* DBImpl::Recover checks that the files are there and lists the logs.
FilesAfter(recs) ==
  LET files[i \in 0..Len(recs)] ==
        IF i = 0 THEN {} ELSE (files[i - 1] \ recs[i].del) \cup recs[i].add
  IN  files[Len(recs)]

\* Mutant: the log of log_number itself is left out.
LogsAfter(number) == {n \in DOMAIN logs : n > number}
LogsFrom(number) == {n \in DOMAIN logs : n >= number}

\* With options_.reuse_logs an old file is appended to, unless it is too large
\* or cannot be opened for appending.
MayReuse == {FALSE, ReuseLogs}

RecoverVersions ==
  /\ phase = "closed" /\ current # 0
  /\ LET recs == IF current \in DOMAIN manifests THEN ReadRecords(manifests[current]) ELSE <<>>
         last == IF recs = <<>> THEN NoEdit ELSE recs[Len(recs)]
         missing == FilesAfter(recs) \ UNION {DOMAIN ssts, DOMAIN logs, DOMAIN manifests}
         bad == missing # {} \/ last.next = 0
     IN  \/ /\ IF bad THEN TRUE ELSE Corrupted(manifests[current])
            /\ phase' = "failed"
            /\ UNCHANGED <<unread, save_manifest, versions_>>
         \/ /\ ~bad
            /\ phase' = "logs"
            /\ version' = FilesAfter(recs)
            /\ log_number_' = last.log
            /\ last_sequence_' = last.last
            /\ next_file_number_' = last.next + 1
            /\ \E reuse \in MayReuse :
                 /\ manifest_file_number_' = IF reuse THEN current ELSE last.next
                 /\ descriptor' = reuse
                 /\ save_manifest' = ~reuse
            /\ unread' = LogsFrom(last.log)
  /\ UNCHANGED <<disk, edit, pinned, memory, background, history, behind, regime>>

\* Mutant: the logs do not count for last_sequence.
LastOfManifest(last, entries) == last
AfterLog(last, entries) == Larger(last, Max({0} \cup {e.seq : e \in entries}))

\* RecoverLogFile and MarkFileNumberUsed, for the logs in order. What the log
\* holds becomes a level-0 table, unless the last log is used again.
RecoverLogFile ==
  /\ phase = "logs" /\ unread # {}
  /\ \E keep \in MayReuse : LET
         n == Min(unread)
         entries == LogEntries(logs[n])
         reuse == keep /\ unread = {n}
         table == IF entries = {} \/ reuse THEN {} ELSE {next_file_number_}
         next == IF table = {} THEN next_file_number_ ELSE next_file_number_ + 1
     IN  /\ ssts' = [x \in DOMAIN ssts \cup table |->
                       IF x \in table THEN [data |-> entries, complete |-> TRUE] ELSE ssts[x]]
         /\ edit' = [edit EXCEPT !.add = @ \cup table]
         /\ save_manifest' = (save_manifest \/ table # {})
         /\ next_file_number_' = Larger(next, n + 1)
         /\ last_sequence_' = AfterLog(last_sequence_, entries)
         /\ unread' = unread \ {n}
         /\ logfile_number_' = IF reuse THEN n ELSE 0
         /\ mem_' = IF reuse THEN entries ELSE {}
  /\ UNCHANGED <<logs, manifests, current, phase, version, manifest_file_number_, log_number_,
                 descriptor, pinned, imm_, has_imm_, writing, background, history, behind, regime>>

\* DB::Open creates a log if Recover left none to append to.
NewLog ==
  /\ phase = "logs" /\ unread = {}
  /\ IF logfile_number_ # 0 THEN UNCHANGED <<logs, logfile_number_, next_file_number_>>
     ELSE /\ logs' = Put(logs, next_file_number_, NewFile)
          /\ logfile_number_' = next_file_number_
          /\ next_file_number_' = next_file_number_ + 1
  /\ phase' = IF save_manifest THEN "manifest" ELSE "installed"
  /\ UNCHANGED <<ssts, manifests, current, unread, edit, save_manifest, version,
                 manifest_file_number_, log_number_, last_sequence_, descriptor, pinned,
                 mem_, imm_, has_imm_, writing, background, history, behind, regime>>

\* LogAndApply fills in what the edit does not say ...
Filled(e) == [e EXCEPT !.log = IF @ = 0 THEN log_number_ ELSE @,
                       !.next = next_file_number_, !.last = last_sequence_]

\* ... writes a snapshot of the version to a new MANIFEST if there is none open ...
WriteManifest ==
  /\ phase = "manifest"
  /\ LET file == IF descriptor THEN manifests[manifest_file_number_]
                 ELSE AddRecord(NewFile, [NoEdit EXCEPT !.add = version])
     IN  /\ manifests' = Put(manifests, manifest_file_number_,
                             AddRecord(file, Filled([edit EXCEPT !.log = logfile_number_])))
         /\ behind' = (behind \/ file.torn # {})
  /\ phase' = "written"
  /\ UNCHANGED <<logs, ssts, current, unread, edit, save_manifest, versions_, pinned, memory,
                 background, history, regime>>

\* ... and syncs it before CURRENT is renamed to name it.
SyncManifest ==
  /\ phase = "written"
  /\ manifests' = [manifests EXCEPT ![manifest_file_number_] = Sync(@)]
  /\ phase' = "synced"
  /\ UNCHANGED <<logs, ssts, current, unread, edit, save_manifest, versions_, pinned, memory,
                 background, history, behind, regime>>

SetCurrentFile ==
  /\ phase = "synced"
  /\ current' = manifest_file_number_
  /\ version' = version \cup edit.add
  /\ log_number_' = logfile_number_
  /\ descriptor' = TRUE
  /\ phase' = "installed"
  /\ UNCHANGED <<logs, ssts, manifests, unread, edit, save_manifest, next_file_number_,
                 manifest_file_number_, last_sequence_, pinned, memory, background, history, behind, regime>>

FinishOpen ==
  /\ phase = "installed"
  /\ UNCHANGED <<disk, versions_>>
  /\ RemoveObsoleteFiles
  /\ edit' = NoEdit /\ save_manifest' = FALSE
  /\ phase' = IF doomed' = {} THEN "open" ELSE "deleting"
  /\ UNCHANGED <<unread, pinned, memory, pending_outputs_, flush, merge, bg_error_, history, behind, regime>>

-----------------------------------------------------------------------------
(* An open DB                                                              *)

\* DBImpl::Write adds the batch to the log with the mutex released. A failure
\* half way is returned to the caller, and the log stays in use.
AddToLog ==
  /\ phase = "open" /\ ~bg_error_ /\ writing = {} /\ issued < MaxWrites
  /\ LET e == [id |-> issued + 1, seq |-> last_sequence_ + 1]
     IN  \/ /\ logs' = [logs EXCEPT ![logfile_number_] = AddRecord(@, e)]
            /\ writing' = {e}
            /\ UNCHANGED last_sequence_
         \/ /\ AppendFails
            /\ logs' = [logs EXCEPT ![logfile_number_].torn = @ \cup {Len(logs[logfile_number_].recs)}]
            /\ last_sequence_' = e.seq
            /\ UNCHANGED writing
  /\ issued' = issued + 1
  /\ exposed' = IF logs[logfile_number_].torn = {} THEN exposed ELSE exposed \cup writing'
  /\ UNCHANGED <<ssts, manifests, current, opening, version, next_file_number_,
                 manifest_file_number_, log_number_, descriptor, pinned, logfile_number_, mem_,
                 imm_, has_imm_, background, acked, durable, crashes, behind, regime>>

\* Then it syncs the log if asked to, inserts into the memtable, and returns.
FinishWrite(sync) ==
  /\ writing # {}
  /\ IF sync THEN logs' = [logs EXCEPT ![logfile_number_] = Sync(@)] ELSE UNCHANGED logs
  /\ mem_' = mem_ \cup writing
  /\ last_sequence_' = last_sequence_ + 1
  /\ writing' = {}
  /\ acked' = acked \cup writing
  /\ durable' = IF sync THEN durable \cup writing ELSE durable
  /\ UNCHANGED <<ssts, manifests, current, opening, version, next_file_number_,
                 manifest_file_number_, log_number_, descriptor, pinned, logfile_number_, imm_,
                 has_imm_, background, issued, exposed, crashes, behind, regime>>

\* "The state of the log file is indeterminate: the log record we just added
\* may or may not show up when the DB is re-opened. So we force the DB into a
\* mode where all future writes fail."
SyncFails ==
  /\ IOFails /\ writing # {}
  /\ last_sequence_' = last_sequence_ + 1
  /\ writing' = {}
  /\ bg_error_' = TRUE
  /\ UNCHANGED <<disk, opening, version, next_file_number_, manifest_file_number_, log_number_,
                 descriptor, pinned, logfile_number_, mem_, imm_, has_imm_, pending_outputs_,
                 flush, merge, doomed, history, behind, regime>>

\* MakeRoomForWrite: the old log is closed, which does not sync it. A nullptr
\* batch (TEST_CompactMemTable) forces the switch also when mem_ is empty.
SwitchMemTable ==
  /\ phase = "open" /\ ~bg_error_ /\ writing = {} /\ ~has_imm_
  /\ mem_ # {} \/ regime.force
  /\ next_file_number_ <= MaxFile
  /\ logs' = Put(logs, next_file_number_, NewFile)
  /\ logfile_number_' = next_file_number_
  /\ next_file_number_' = next_file_number_ + 1
  /\ imm_' = mem_ /\ has_imm_' = TRUE
  /\ mem_' = {}
  /\ UNCHANGED <<ssts, manifests, current, opening, version, manifest_file_number_, log_number_,
                 last_sequence_, descriptor, pinned, writing, background, history, behind, regime>>

\* An iterator refers to the version it was made from.
NewIterator ==
  /\ regime.iterators /\ phase = "open" /\ pinned = {}
  /\ pinned' = version /\ version # {}
  /\ UNCHANGED <<disk, opening, versions_, memory, background, history, behind, regime>>

ReleaseIterator ==
  /\ pinned # {}
  /\ pinned' = {}
  /\ UNCHANGED <<disk, opening, versions_, memory, background, history, behind, regime>>

-----------------------------------------------------------------------------
(* The background thread                                                   *)

Background == phase = "open" /\ doomed = {}

Unfinished == [data |-> {}, complete |-> FALSE]

\* Mutant: the table is not in pending_outputs_.
StartUnprotected(data) ==
  /\ next_file_number_ <= MaxFile
  /\ next_file_number_' = next_file_number_ + 1
  /\ UNCHANGED pending_outputs_
  /\ ssts' = IF data = {} THEN ssts ELSE Put(ssts, next_file_number_, Unfinished)

\* NewFileNumber and NewWritableFile for a table with this data, no file if
\* there is none; pending_outputs_ keeps RemoveObsoleteFiles away from it.
StartTable(data) ==
  /\ next_file_number_ <= MaxFile
  /\ next_file_number_' = next_file_number_ + 1
  /\ pending_outputs_' = pending_outputs_ \cup {next_file_number_}
  /\ ssts' = IF data = {} THEN ssts ELSE Put(ssts, next_file_number_, Unfinished)

\* A table is synced before an edit may name it.
FinishTable(n, data) == ssts' = [ssts EXCEPT ![n] = [data |-> data, complete |-> TRUE]]

\* CompactMemTable, called by BackgroundCompaction or by DoCompactionWork
\* while it writes its output.
StartFlush ==
  /\ Background /\ has_imm_ /\ flush.at = "idle"
  /\ merge.at = "building" \/ (merge.at = "idle" /\ ~bg_error_)
  /\ StartTable(imm_)
  /\ flush' = [NoJob EXCEPT !.at = "building", !.file = next_file_number_]
  /\ UNCHANGED <<logs, manifests, current, opening, version, manifest_file_number_, log_number_,
                 last_sequence_, descriptor, pinned, memory, merge, doomed, bg_error_, history, behind, regime>>

\* WriteLevel0Table takes the number out of pending_outputs_ again before the
\* edit is logged: only this thread calls RemoveObsoleteFiles. An empty
\* memtable adds no file to the edit.
BuildTable ==
  /\ flush.at = "building"
  /\ IF imm_ = {} THEN UNCHANGED ssts ELSE FinishTable(flush.file, imm_)
  /\ pending_outputs_' = pending_outputs_ \ {flush.file}
  /\ flush' = [flush EXCEPT !.at = "built",
                            !.edit = Filled([NoEdit EXCEPT !.add = IF imm_ = {} THEN {} ELSE {flush.file},
                                                   !.log = logfile_number_])]
  /\ UNCHANGED <<logs, manifests, current, opening, versions_, pinned, memory, merge, doomed,
                 bg_error_, history, behind, regime>>

\* LogAndApply of a job: the record is added, and then synced.
LogEdit(job) ==
  /\ job.at = "built"
  /\ manifests' = [manifests EXCEPT ![manifest_file_number_] = AddRecord(@, job.edit)]
  /\ behind' = (behind \/ manifests[manifest_file_number_].torn # {})
  /\ UNCHANGED <<logs, ssts, current, opening, versions_, pinned, memory, pending_outputs_,
                 doomed, bg_error_, history, regime>>

\* What is there when adding the record ends half way, or at once.
HalfLogged ==
  {manifests,
   [manifests EXCEPT ![manifest_file_number_].torn = @ \cup {Len(manifests[manifest_file_number_].recs)}]}

LogFlush == LogEdit(flush) /\ flush' = [flush EXCEPT !.at = "logged"] /\ UNCHANGED merge
LogMerge == LogEdit(merge) /\ merge' = [merge EXCEPT !.at = "logged"] /\ UNCHANGED flush

ApplyEdit(job) ==
  /\ job.at = "logged"
  /\ manifests' = [manifests EXCEPT ![manifest_file_number_] = Sync(@)]
  /\ version' = (version \ job.edit.del) \cup job.edit.add
  /\ log_number_' = job.edit.log
  /\ RemoveObsoleteFiles
  /\ UNCHANGED <<logs, ssts, current, opening, next_file_number_, manifest_file_number_,
                 last_sequence_, descriptor, pinned, logfile_number_, mem_, writing, bg_error_,
                 history, behind, regime>>

ApplyFlush ==
  /\ ApplyEdit(flush)
  /\ imm_' = {} /\ has_imm_' = FALSE
  /\ flush' = NoJob
  /\ UNCHANGED <<pending_outputs_, merge>>

\* BuildTable removes the file it could not finish.
FlushFails ==
  /\ IOFails /\ flush.at # "idle"
  /\ ssts' = IF flush.at = "building" THEN Without(ssts, {flush.file}) ELSE ssts
  /\ pending_outputs_' = pending_outputs_ \ {flush.file}
  /\ manifests' \in IF flush.at = "built" THEN HalfLogged ELSE {manifests}
  /\ flush' = NoJob
  /\ bg_error_' = TRUE
  /\ UNCHANGED <<logs, current, opening, versions_, pinned, memory, merge, doomed,
                 history, behind, regime>>

\* DoCompactionWork
StartMerge ==
  /\ Background /\ ~has_imm_ /\ ~bg_error_ /\ flush.at = "idle" /\ merge.at = "idle"
  /\ \E inputs \in SUBSET version \ {{}} :
       /\ merge' = [NoJob EXCEPT !.at = "building", !.file = next_file_number_, !.inputs = inputs]
       /\ StartTable(Data(inputs))
  /\ UNCHANGED <<logs, manifests, current, opening, version, manifest_file_number_, log_number_,
                 last_sequence_, descriptor, pinned, memory, flush, doomed, bg_error_, history, behind, regime>>

BuildMerge ==
  /\ Background /\ merge.at = "building" /\ flush.at = "idle"
  /\ FinishTable(merge.file, Data(merge.inputs))
  /\ merge' = [merge EXCEPT !.at = "built",
                            !.edit = Filled([NoEdit EXCEPT !.add = {merge.file}, !.del = merge.inputs])]
  /\ UNCHANGED <<logs, manifests, current, opening, versions_, pinned, memory, pending_outputs_,
                 flush, doomed, bg_error_, history, behind, regime>>

\* CleanupCompaction takes the output out of pending_outputs_.
ApplyMerge ==
  /\ ApplyEdit(merge)
  /\ pending_outputs_' = pending_outputs_ \ {merge.file}
  /\ merge' = NoJob
  /\ UNCHANGED <<imm_, has_imm_, flush>>

MergeFails ==
  /\ IOFails /\ merge.at # "idle" /\ flush.at = "idle" /\ doomed = {}
  /\ pending_outputs_' = pending_outputs_ \ {merge.file}
  /\ manifests' \in IF merge.at = "built" THEN HalfLogged ELSE {manifests}
  /\ merge' = NoJob
  /\ bg_error_' = TRUE
  /\ UNCHANGED <<logs, ssts, current, opening, versions_, pinned, memory, flush, doomed, history, behind, regime>>

-----------------------------------------------------------------------------
(* Crashes                                                                 *)

\* What may be left of a file when the machine crashes.
AfterCrash(f) ==
  UNION {{[recs |-> SubSeq(f.recs, 1, k), synced |-> k, torn |-> (f.torn \cap 0..k) \cup t] :
            t \in SUBSET ({k} \ {Len(f.recs)})} : k \in f.synced..Len(f.recs)}

SurvivorsOf(files) ==
  {g \in [DOMAIN files -> UNION {AfterCrash(files[n]) : n \in DOMAIN files}] :
     \A n \in DOMAIN files : g[n] \in AfterCrash(files[n])}

Reset ==
  /\ phase' = "closed" /\ unread' = {} /\ edit' = NoEdit /\ save_manifest' = FALSE
  /\ version' = {} /\ pinned' = {}
  /\ next_file_number_' = 2 /\ manifest_file_number_' = 0 /\ log_number_' = 0
  /\ last_sequence_' = 0 /\ descriptor' = FALSE
  /\ logfile_number_' = 0 /\ mem_' = {} /\ imm_' = {} /\ has_imm_' = FALSE /\ writing' = {}
  /\ pending_outputs_' = {} /\ flush' = NoJob /\ merge' = NoJob
  /\ doomed' = {} /\ bg_error_' = FALSE
  /\ crashes < MaxCrashes /\ crashes' = crashes + 1
  /\ UNCHANGED <<current, issued, durable, exposed, behind, regime>>

\* The process dies, or the DB is closed. A record may be torn if it was being
\* added just then.
ProcessCrash ==
  /\ phase \notin {"closed", "failed"}
  /\ Reset
  /\ \/ UNCHANGED logs
     \/ /\ phase = "open"
        /\ logs' = [logs EXCEPT ![logfile_number_].torn = @ \cup {Len(logs[logfile_number_].recs)}]
  /\ LET logging == "built" \in {flush.at, merge.at} \/ (phase = "manifest" /\ descriptor)
     IN  manifests' \in IF logging THEN HalfLogged ELSE {manifests}
  /\ UNCHANGED <<ssts, acked>>

\* The machine crashes: only the writes with sync are still promised. Of a
\* table that was not finished nothing can be relied on.
MachineCrash ==
  /\ MachineCrashes /\ phase # "failed"
  /\ Reset
  /\ logs' \in SurvivorsOf(logs)
  /\ manifests' \in SurvivorsOf(manifests)
  /\ acked' = durable
  /\ UNCHANGED ssts

Next ==
  \/ NewDB \/ SetFirstCurrent \/ RecoverVersions \/ RecoverLogFile \/ NewLog
  \/ WriteManifest \/ SyncManifest \/ SetCurrentFile \/ FinishOpen \/ DeleteFiles
  \/ AddToLog \/ (\E sync \in BOOLEAN : FinishWrite(sync)) \/ SyncFails \/ SwitchMemTable
  \/ NewIterator \/ ReleaseIterator
  \/ StartFlush \/ BuildTable \/ LogFlush \/ ApplyFlush \/ FlushFails
  \/ StartMerge \/ BuildMerge \/ LogMerge \/ ApplyMerge \/ MergeFails
  \/ ProcessCrash \/ MachineCrash

Spec == Init /\ [][Next]_vars

-----------------------------------------------------------------------------
(* Properties                                                              *)

\* DB::Open reports no corruption after crashes and errors, unless an edit was
\* added to a MANIFEST that ended in a torn record. That happens in two ways:
\* DB::Open with reuse_logs goes on with such a file; and when the append of a
\* flush nested in a merge fails half way, the merge still appends its own edit
\* to descriptor_log_, which nothing marks as damaged.
RecoverySucceeds == phase = "failed" => behind

\* Whatever RemoveObsoleteFiles deletes, the tables of the current version and
\* of those that readers hold are there and finished, and those that a flush or
\* a merge is writing or about to add to a version are there.
LiveVersionsHaveFiles ==
  /\ \A n \in version \cup pinned : n \in DOMAIN ssts /\ ssts[n].complete
  /\ flush.at # "idle" /\ imm_ # {} => flush.file \in DOMAIN ssts
  /\ merge.at # "idle" => merge.file \in DOMAIN ssts

\* Whatever step comes next, the machine may crash instead and nothing that a
\* write with sync stored is lost: what can be read of each MANIFEST that may
\* survive, up to the first torn record, names finished tables only, and
\* together with the synced part of the logs it says must be read they hold all
\* such writes. (With reuse_logs an edit that a process crash left unsynced is
\* taken over and files are deleted for it.)
RecoverableAtAnyTime ==
  current # 0 /\ ~ReuseLogs =>
    \A f \in AfterCrash(manifests[current]) :
      LET recs == ReadRecords(f)
          files == FilesAfter(recs)
      IN  /\ recs # <<>>
          /\ \A n \in files : n \in DOMAIN ssts /\ ssts[n].complete
          /\ durable \ exposed \subseteq Data(files) \cup
               UNION {LogEntries([logs[n] EXCEPT !.recs = SubSeq(@, 1, logs[n].synced)]) :
                        n \in LogsFrom(recs[Len(recs)].log)}

\* With reuse_logs an edit went behind a torn record, and the files that it
\* made obsolete may be gone. (Without, bg_error_ is set by then and keeps them.)
EditLost == behind /\ ReuseLogs

\* No two entries of the DB have one sequence number, although Recover takes
\* the last one from an edit that may be older than the logs.
SequencesAreUnique ==
  phase = "open" /\ ~EditLost =>
    \A e \in Contents \cup writing :
      /\ e.seq <= last_sequence_ + Cardinality(writing)
      /\ \A f \in Contents \cup writing : e.seq = f.seq => e = f

\* Every write that was acknowledged, and that no machine crash was allowed
\* to lose, is in the DB that DB::Open returns and stays there, unless it was
\* added to a log behind a torn record, by reuse_logs or after a failed append,
\* or reuse_logs added an edit to a MANIFEST behind one.
OnlyTornFilesLose == phase = "open" /\ ~EditLost => acked \ exposed \subseteq Contents
=============================================================================
