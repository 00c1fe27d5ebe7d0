------------------------- MODULE LevelDBCompaction -------------------------
(***************************************************************************)
(* The levels of a LevelDB database: where CompactMemTable puts a table,   *)
(* which files a compaction takes and what DoCompactionWork keeps of them, *)
(* and what Get finds, now and at the snapshots that are held              *)
(* (version_set.cc, db_impl.cc).                                           *)
(*                                                                         *)
(* A table file is the set of its entries; its smallest and largest keys   *)
(* follow from them.  Only flushes make level-0 files, each from a later   *)
(* memtable, so that the file with the larger number is the one with the   *)
(* larger sequence numbers.  What depends on sizes in bytes, which files   *)
(* and writes of any size make possible either way, is a choice: when an   *)
(* output file is closed, how far a manual compaction goes at once, whether *)
(* grandparents overlap too much and whether inputs may be expanded.       *)
(*                                                                         *)
(* Only the background thread changes the version, so that a flush is one  *)
(* step, inside a compaction too; a compaction is two, its choice of files *)
(* and the installation of its outputs.  Errors and crashes are            *)
(* LevelDBRecovery's, the memtable's locking is LevelDBWrite's.            *)
(***************************************************************************)
EXTENDS Integers, Sequences, FiniteSetsExt

CONSTANTS
  Keys,       \* user keys, integers compared by the user comparator
  kNumLevels, kMaxMemCompactLevel,
  Workloads   \* what the callers do: the keys they write, whether they call
              \* DB::CompactRange, and bounds on their writes, the deletions
              \* among them, and the snapshots they hold

ASSUME CompactionAssumption ==
  /\ Keys \subseteq Int /\ IsFiniteSet(Keys)
  /\ kNumLevels \in Nat \ {0, 1} /\ kMaxMemCompactLevel \in 0..kNumLevels - 1
  /\ Workloads \subseteq [keys : SUBSET Keys, manual : BOOLEAN,
                           writes : Nat, deletes : Nat, snapshots : Nat]

VARIABLES
  workload,      \* the one that is run
  mem_, imm_,    \* memtables; imm_ is {} when there is none
  files_,        \* the current version: level |-> set of files
  snapshots_,    \* the sequence numbers of the snapshots held
  compaction,    \* the compaction that DoCompactionWork is at
  written,       \* history: every entry written
  gap            \* history: a table was put between the inputs of a manual compaction

vars == <<workload, mem_, imm_, files_, snapshots_, compaction, written, gap>>

Levels == 0..kNumLevels - 1
LastSequence == Cardinality(written)
NoCompaction == [level |-> -1]
Running == compaction.level # -1

Init ==
  /\ workload \in Workloads
  /\ mem_ = {} /\ imm_ = {} /\ files_ = [l \in Levels |-> {}]
  /\ snapshots_ = {} /\ compaction = NoCompaction /\ written = {}
  /\ gap = FALSE

-----------------------------------------------------------------------------
(* Keys and files                                                          *)

\* InternalKeyComparator: by user key, and the newer entry of a key first.
Before(d, e) == d.key < e.key \/ (d.key = e.key /\ d.seq > e.seq)

Smallest(f) == CHOOSE e \in f : \A d \in f : d = e \/ Before(e, d)
Largest(f) == CHOOSE e \in f : \A d \in f : d = e \/ Before(d, e)

\* Ranges of user keys.
Lo(F) == Min({Smallest(f).key : f \in F})
Hi(F) == Max({Largest(f).key : f \in F})
Overlaps(f, lo, hi) == Largest(f).key >= lo /\ Smallest(f).key <= hi

-----------------------------------------------------------------------------
(* Reading                                                                 *)

\* The newest entry of a key that a reader at snapshot s may see.
NewestIn(entries, k, s) ==
  LET seen == {e \in entries : e.key = k /\ e.seq <= s}
  IN  {e \in seen : \A d \in seen : d.seq <= e.seq}

\* FindFile, on the files of a level in order: the first one whose largest
\* key is not before the one looked for.
FindFile(F, k, s) ==
  LET after == {f \in F : ~Before(Largest(f), [key |-> k, seq |-> s])}
  IN  {f \in after : \A g \in after : g = f \/ Before(Smallest(f), Smallest(g))}

\* ForEachOverlapping: the files of a level that are searched for k.
Searched(l, k, s) ==
  {f \in IF l = 0 THEN files_[0] ELSE FindFile(files_[l], k, s) : Overlaps(f, k, k)}

\* Version::Get: the first file with an entry for k, going down; at level 0
\* the one with the largest number.
Newer(f, g) == Max({e.seq : e \in f}) > Max({e.seq : e \in g})
GetFromFiles(k, s) ==
  LET Hits(l) == {f \in Searched(l, k, s) : NewestIn(f, k, s) # {}}
      levels == {l \in Levels : Hits(l) # {}}
      first == {f \in Hits(Min(levels)) : \A g \in Hits(Min(levels)) : f = g \/ Newer(f, g)}
  IN  IF levels = {} THEN {} ELSE UNION {NewestIn(f, k, s) : f \in first}

\* DBImpl::Get
Get(k, s) ==
  LET inMem == NewestIn(mem_, k, s)
      inImm == NewestIn(imm_, k, s)
  IN  IF inMem # {} THEN inMem ELSE IF inImm # {} THEN inImm ELSE GetFromFiles(k, s)

-----------------------------------------------------------------------------
(* Writing                                                                 *)

\* DBImpl::Write of one entry
Write(k, del) ==
  /\ LastSequence < workload.writes
  /\ del => Cardinality({e \in written : e.del}) < workload.deletes
  /\ LET e == [key |-> k, seq |-> LastSequence + 1, del |-> del]
     IN  mem_' = mem_ \cup {e} /\ written' = written \cup {e}
  /\ UNCHANGED <<workload, imm_, files_, snapshots_, compaction, gap>>

\* MakeRoomForWrite, for a full memtable or for CompactRange
SwitchMemTable ==
  /\ imm_ = {} /\ mem_ # {}
  /\ imm_' = mem_ /\ mem_' = {}
  /\ UNCHANGED <<workload, files_, snapshots_, compaction, written, gap>>

GetSnapshot ==
  /\ Cardinality(snapshots_) < workload.snapshots
  /\ snapshots_' = snapshots_ \cup {LastSequence}
  /\ UNCHANGED <<workload, mem_, imm_, files_, compaction, written, gap>>

ReleaseSnapshot(s) ==
  /\ snapshots_' = snapshots_ \ {s}
  /\ UNCHANGED <<workload, mem_, imm_, files_, compaction, written, gap>>

-----------------------------------------------------------------------------
(* CompactMemTable                                                         *)

OverlapInLevel(l, lo, hi) == \E f \in files_[l] : Overlaps(f, lo, hi)

\* Mutant: the table may skip a level that it overlaps.
PickAnyLevel(lo, hi) == IF OverlapInLevel(0, lo, hi) THEN {0} ELSE 0..kMaxMemCompactLevel

\* PickLevelForMemTableOutput: down to the level above the first overlap, or
\* to one above which two levels further down too much would overlap.
PickLevelForMemTableOutput(lo, hi) ==
  LET Free(l) == \A i \in 0..l : ~OverlapInLevel(i, lo, hi)
      Stops(l) == \/ l = kMaxMemCompactLevel
                  \/ OverlapInLevel(l + 1, lo, hi)
                  \/ l + 2 < kNumLevels /\ OverlapInLevel(l + 2, lo, hi)
  IN  IF ~Free(0) THEN {0} ELSE {l \in 0..kMaxMemCompactLevel : Free(l) /\ Stops(l)}

\* The table is inside the range of the manual compaction that is being done
\* and at the level of its outputs.
InGap(l, lo, hi) ==
  Running /\ LET inputs == compaction.inputs[0] \cup compaction.inputs[1]
             IN  /\ compaction.is_manual /\ l = compaction.level + 1
                 /\ lo <= Hi(inputs) /\ hi >= Lo(inputs)

\* BackgroundCompaction calls it first, DoCompactionWork before each key.
CompactMemTable ==
  /\ imm_ # {}
  /\ LET lo == Smallest(imm_).key
         hi == Largest(imm_).key
     IN  \E l \in PickLevelForMemTableOutput(lo, hi) :
           /\ files_' = [files_ EXCEPT ![l] = @ \cup {imm_}]
           /\ gap' = (gap \/ InGap(l, lo, hi))
  /\ imm_' = {}
  /\ UNCHANGED <<workload, mem_, snapshots_, compaction, written>>

-----------------------------------------------------------------------------
(* Choosing the inputs of a compaction                                     *)

\* The files of F that are reached from start by steps of R.
Reached(F, start, R) ==
  {f \in F : \A S \in SUBSET F :
     start \subseteq S /\ (\A r \in R : r[1] \in S => r[2] \in S) => f \in S}

\* Mutant: level-0 files are not taken together.
OnlyOverlapping(l, lo, hi) == {f \in files_[l] : Overlaps(f, lo, hi)}

\* GetOverlappingInputs; at level 0 a file that is taken extends the range.
GetOverlappingInputs(l, lo, hi) ==
  LET inRange == {f \in files_[l] : Overlaps(f, lo, hi)}
      touching == {r \in files_[0] \X files_[0] : Overlaps(r[2], Smallest(r[1]).key, Largest(r[1]).key)}
  IN  IF l = 0 THEN Reached(files_[0], inRange, touching) ELSE inRange

\* Mutant: no boundary files.
NoBoundaryInputs(l, F) == F

\* AddBoundaryInputs: the older entries of the last user key may be in the
\* next file, and so on.
AddBoundaryInputs(l, F) ==
  LET Boundary(f) == {g \in files_[l] : /\ Smallest(g).key = Largest(f).key
                                       /\ Before(Largest(f), Smallest(g))}
      next == {r \in files_[l] \X files_[l] :
                 /\ r[2] \in Boundary(r[1])
                 /\ \A g \in Boundary(r[1]) : g = r[2] \/ Before(Smallest(r[2]), Smallest(g))}
      last == {f \in F : \A g \in F : g = f \/ Before(Largest(g), Largest(f))}
  IN  F \cup Reached(files_[l], last, next)

\* SetupOtherInputs: the pairs of inputs that it may choose.
SetupOtherInputs(l, chosen) ==
  LET in0 == AddBoundaryInputs(l, chosen)
      in1 == AddBoundaryInputs(l + 1, GetOverlappingInputs(l + 1, Lo(in0), Hi(in0)))
      all == in0 \cup in1
      expanded0 == AddBoundaryInputs(l, GetOverlappingInputs(l, Lo(all), Hi(all)))
      expanded1 == AddBoundaryInputs(l + 1, GetOverlappingInputs(l + 1, Lo(expanded0), Hi(expanded0)))
      mayExpand == /\ in1 # {}
                   /\ Cardinality(expanded0) > Cardinality(in0)
                   /\ Cardinality(expanded1) = Cardinality(in1)
  IN  {<<in0, in1>>} \cup IF mayExpand THEN {<<expanded0, expanded1>>} ELSE {}

\* IsBaseLevelForKey: no file further down has k in its range.
IsBaseLevelForKey(l, k) == \A i \in l + 2..kNumLevels - 1 : ~OverlapInLevel(i, k, k)

\* Mutant: snapshots are not looked at.
IgnoreSnapshots == LastSequence

SmallestSnapshot == IF snapshots_ = {} THEN LastSequence ELSE Min(snapshots_)

\* DoCompactionWork as far as it holds the mutex.
StartCompaction(l, in0, in1, is_manual) ==
  /\ compaction' = [level |-> l, is_manual |-> is_manual,
                    inputs |-> [w \in {0, 1} |-> IF w = 0 THEN in0 ELSE in1],
                    smallest_snapshot |-> SmallestSnapshot,
                    base |-> {k \in Keys : IsBaseLevelForKey(l, k)}]
  /\ UNCHANGED files_

\* The file becomes one of the next level.
TrivialMove(l, f) ==
  /\ files_' = [files_ EXCEPT ![l] = @ \ {f}, ![l + 1] = @ \cup {f}]
  /\ UNCHANGED compaction

\* BackgroundCompaction with PickCompaction: a file of the level whose size
\* or a file whose seeks call for it; at level 0 with all that overlap it.
\* A single file is moved, unless it overlaps too much two levels further down.
Compact(l, f) ==
  /\ ~Running /\ imm_ = {}
  /\ \E in \in SetupOtherInputs(l, IF l = 0 THEN GetOverlappingInputs(0, Lo({f}), Hi({f})) ELSE {f}) :
       LET single == Cardinality(in[1]) = 1 /\ in[2] = {}
           heavy == l + 2 < kNumLevels /\ OverlapInLevel(l + 2, Lo(in[1] \cup in[2]), Hi(in[1] \cup in[2]))
       IN  \/ single /\ TrivialMove(l, CHOOSE g \in in[1] : TRUE)
           \/ (single => heavy) /\ StartCompaction(l, in[1], in[2], FALSE)
  /\ UNCHANGED <<workload, mem_, imm_, snapshots_, written, gap>>

\* BackgroundCompaction with CompactRange: at level 0 all files of the range,
\* further down the first of them, as many as make up one output.
\* DBImpl::CompactRange asks for it level by level, from the top.
CompactRange(l, lo, hi) ==
  /\ workload.manual /\ ~Running /\ imm_ = {}
  /\ LET inputs == GetOverlappingInputs(l, lo, hi)
     IN  /\ inputs # {}
         /\ \E last \in inputs : LET
                first == IF l = 0 THEN inputs
                         ELSE {f \in inputs : f = last \/ Before(Smallest(f), Smallest(last))}
            IN  \E in \in SetupOtherInputs(l, first) : StartCompaction(l, in[1], in[2], TRUE)
  /\ UNCHANGED <<workload, mem_, imm_, snapshots_, written, gap>>

-----------------------------------------------------------------------------
(* DoCompactionWork                                                        *)

\* What the loop drops: an entry hidden by a newer one that all snapshots see
\* and a deletion that they all see and that nothing further down is under.
Drop(e, hidden, smallest_snapshot, base) ==
  hidden \/ (e.del /\ e.seq <= smallest_snapshot /\ e.key \in base)

Kept(merged, smallest_snapshot, base) ==
  LET Hidden(e) == \E d \in merged :
                     d.key = e.key /\ d.seq > e.seq /\ d.seq <= smallest_snapshot
  IN  {e \in merged : ~Drop(e, Hidden(e), smallest_snapshot, base)}

\* The ways to cut the entries, in order, into output files.
Outputs(entries) ==
  {{{e \in entries : {c \in cuts : Before(c, e)} = {c \in cuts : Before(c, d)}} : d \in entries} :
     cuts \in SUBSET entries}

\* InstallCompactionResults
InstallCompactionResults ==
  /\ Running
  /\ \E out \in Outputs(Kept(UNION (compaction.inputs[0] \cup compaction.inputs[1]),
                             compaction.smallest_snapshot, compaction.base)) :
       files_' = [files_ EXCEPT ![compaction.level] = @ \ compaction.inputs[0],
                                ![compaction.level + 1] = (@ \ compaction.inputs[1]) \cup out]
  /\ compaction' = NoCompaction
  /\ UNCHANGED <<workload, mem_, imm_, snapshots_, written, gap>>

Next ==
  \/ \E k \in workload.keys, del \in BOOLEAN : Write(k, del)
  \/ SwitchMemTable \/ CompactMemTable
  \/ GetSnapshot \/ (\E s \in snapshots_ : ReleaseSnapshot(s))
  \/ \E l \in 0..kNumLevels - 2 : \E f \in files_[l] : Compact(l, f)
  \/ \E l \in 0..kNumLevels - 2, lo, hi \in Keys : lo <= hi /\ CompactRange(l, lo, hi)
  \/ InstallCompactionResults

Spec == Init /\ [][Next]_vars

-----------------------------------------------------------------------------
(* Properties                                                              *)

\* Version::Builder: "Make sure there is no overlap in levels > 0".
LevelsAreSorted ==
  \A l \in Levels \ {0} : \A f, g \in files_[l] :
    f = g \/ Before(Largest(f), Smallest(g)) \/ Before(Largest(g), Smallest(f))

\* The levels stay sorted and disjoint, also with flushes in the middle of a
\* compaction (DoCompactionWork), unless CompactMemTable put a table between
\* the inputs of a manual one.
OnlyGapsOverlap == gap \/ LevelsAreSorted

\* DoCompactionWork: "data in lower levels will have larger sequence numbers".
\* Of each key, what is in memory is newer than what is in files, and what is
\* at a level newer than what is further down.
NewestOnTop ==
  LET At(i) == IF i = -2 THEN mem_ ELSE IF i = -1 THEN imm_ ELSE UNION files_[i]
  IN  gap \/ \A i, j \in -2..kNumLevels - 1 : i < j =>
        \A e \in At(i), d \in At(j) : e.key = d.key => e.seq > d.seq

Value(found) == {e \in found : ~e.del}

\* DoCompactionWork's drop rule: a reader at any snapshot that is held, also
\* one taken while the compaction goes on, finds the same value in the entries
\* that are kept as in the inputs.
MergeIsInvisible ==
  Running =>
    LET merged == UNION (compaction.inputs[0] \cup compaction.inputs[1])
        kept == Kept(merged, compaction.smallest_snapshot, compaction.base)
    IN  \A k \in Keys, s \in snapshots_ \cup {LastSequence} :
          Value(NewestIn(kept, k, s)) = Value(NewestIn(merged, k, s))

\* Get, now or at a snapshot: a key has the value that it was last given, and
\* none when it was last deleted, whatever flushes and compactions did.
ReadsAreRight ==
  gap \/ \A k \in Keys, s \in snapshots_ \cup {LastSequence} :
           Value(Get(k, s)) = Value(NewestIn(written, k, s))
=============================================================================
