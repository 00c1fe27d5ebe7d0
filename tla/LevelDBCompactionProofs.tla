----------------------- MODULE LevelDBCompactionProofs -----------------------
(***************************************************************************)
(* Proof that what DoCompactionWork drops is not missed: for any keys,     *)
(* levels, writes and snapshots, a reader finds the same value in the      *)
(* entries that a compaction keeps as in its inputs.                       *)
(*                                                                         *)
(* DroppedIsNotMissed is the argument about the drop rule, for readers at  *)
(* smallest_snapshot or later.  MergeInv says that the readers of a DB are *)
(* such: smallest_snapshot is fixed when a compaction starts, snapshots    *)
(* come and go while it works.                                             *)
(*                                                                         *)
(* The rest is about the choice of inputs: GetOverlappingInputs and        *)
(* AddBoundaryInputs leave no room between the files they take             *)
(* (BoundaryKeepsNoGap), leave files of the next level on one side of them *)
(* (RestIsAside), and leave no older entry of a key that they take         *)
(* (BoundaryIsOldest).  LevelDBLevelsProofs uses it.                       *)
(***************************************************************************)
EXTENDS LevelDBCompaction, FiniteSetTheorems, WellFoundedInduction, TLAPS

Entry == [key : Keys, seq : Nat, del : BOOLEAN]

\* The newest entry that a reader at smallest_snapshot or later sees is kept,
\* but for a deletion when no level further down has the key.
LEMMA NewestIsKept ==
  ASSUME NEW merged \in SUBSET Entry, NEW smallest_snapshot \in Nat, NEW base,
         NEW k \in Keys, NEW s \in Nat, smallest_snapshot <= s,
         NEW e \in NewestIn(merged, k, s), ~e.del \/ k \notin base
  PROVE  e \in NewestIn(Kept(merged, smallest_snapshot, base), k, s)
PROOF
<1>1. /\ e \in merged /\ e.key = k /\ e.seq <= s
      /\ \A d \in merged : d.key = k /\ d.seq <= s => d.seq <= e.seq
  BY DEF NewestIn
<1>2. \A d \in merged : d \in Entry /\ d.seq \in Nat
  BY DEF Entry
<1>3. \A d \in merged : ~(d.key = e.key /\ d.seq > e.seq /\ d.seq <= smallest_snapshot)
  BY <1>1, <1>2
<1>4. e \in Kept(merged, smallest_snapshot, base)
  BY <1>1, <1>3 DEF Kept, Drop
<1> QED BY <1>1, <1>4, Zenon DEF NewestIn, Kept

\* A reader that is not behind smallest_snapshot finds the same value of a
\* key in what DoCompactionWork keeps as in what it merges.
LEMMA DroppedIsNotMissed ==
  ASSUME NEW merged \in SUBSET Entry, NEW smallest_snapshot \in Nat, NEW base,
         NEW k \in Keys, NEW s \in Nat, smallest_snapshot <= s
  PROVE  Value(NewestIn(Kept(merged, smallest_snapshot, base), k, s)) = Value(NewestIn(merged, k, s))
PROOF
<1> DEFINE kept == Kept(merged, smallest_snapshot, base)
           Hides(d, e) == d.key = e.key /\ d.seq > e.seq /\ d.seq <= smallest_snapshot
<1>1. /\ kept \subseteq merged
      /\ \A e \in merged : e \in Entry /\ e.seq \in Nat
  BY Zenon DEF Kept, Entry
<1>2. ASSUME NEW e \in NewestIn(merged, k, s), ~e.del
      PROVE  e \in NewestIn(kept, k, s)
  BY <1>2, NewestIsKept
<1>3. ASSUME NEW e \in NewestIn(kept, k, s), ~e.del
      PROVE  e \in NewestIn(merged, k, s)
  <2>1. /\ e \in kept /\ e.key = k /\ e.seq <= s
        /\ \A d \in kept : d.key = k /\ d.seq <= s => d.seq <= e.seq
    BY DEF NewestIn
  <2>2. \A d \in merged : ~Hides(d, e)
    BY <2>1 DEF Kept, Drop
  <2>3. ASSUME NEW d \in merged, d.key = k, d.seq <= s, d.seq > e.seq
        PROVE  FALSE
    <3>1. d \notin kept
      BY <1>1, <2>1, <2>3
    <3>2. \/ \E c \in merged : Hides(c, d)
          \/ d.seq <= smallest_snapshot
      BY <3>1, <2>3 DEF Kept, Drop
    <3>3. CASE d.seq <= smallest_snapshot
      BY <3>3, <2>1, <2>2, <2>3
    <3>4. CASE \E c \in merged : Hides(c, d)
      BY <3>4, <1>1, <2>1, <2>2, <2>3
    <3> QED BY <3>2, <3>3, <3>4
  <2> QED BY <1>1, <2>1, <2>3 DEF NewestIn
<1>4. Value(NewestIn(kept, k, s)) = Value(NewestIn(merged, k, s))
  BY <1>2, <1>3 DEF Value
<1> QED BY <1>4

\* A non-empty set of sequence numbers has a smallest one.
LEMMA MinOfSequenceNumbers ==
  ASSUME NEW T \in SUBSET Nat, T # {}
  PROVE  Min(T) \in T /\ \A y \in T : Min(T) <= y
PROOF
<1>1. PICK x \in T : \A y \in T : <<y, x>> \notin OpToRel(<, Nat)
  BY WFMin, NatLessThanWellFounded, Zenon
<1>2. \A y \in T : ~(y < x)
  BY <1>1, Zenon DEF OpToRel
<1>3. x \in T /\ \A y \in T : x <= y
  BY <1>2
<1> QED BY <1>3, Zenon DEF Min

-----------------------------------------------------------------------------
(* The inductive invariant                                                 *)

TypeInv ==
  /\ workload \in Workloads /\ IsFiniteSet(written)
  /\ mem_ \subseteq Entry /\ imm_ \subseteq Entry
  /\ files_ \in [Levels -> SUBSET SUBSET Entry]

\* The readers of the DB are not behind the compaction's smallest_snapshot.
MergeInv ==
  Running => /\ compaction.level \in 0..kNumLevels - 2
             /\ \A w \in {0, 1} : compaction.inputs[w] \subseteq SUBSET Entry
             /\ compaction.smallest_snapshot \in 0..LastSequence
             /\ \A s \in snapshots_ : compaction.smallest_snapshot <= s

CompactionInv == TypeInv /\ snapshots_ \subseteq 0..LastSequence /\ MergeInv

\* The files that GetOverlappingInputs, AddBoundaryInputs and SetupOtherInputs
\* choose are files of the levels that are compacted.
LEMMA InputsAreFiles ==
  ASSUME NEW l, NEW chosen \in SUBSET files_[l], NEW in \in SetupOtherInputs(l, chosen)
  PROVE  in[1] \subseteq files_[l] /\ in[2] \subseteq files_[l + 1]
PROOF
<1>1. \A i, lo, hi : GetOverlappingInputs(i, lo, hi) \subseteq files_[i]
  BY DEF GetOverlappingInputs, Reached
<1>2. \A i : \A F \in SUBSET files_[i] : AddBoundaryInputs(i, F) \subseteq files_[i]
  BY DEF AddBoundaryInputs, Reached
<1> QED BY <1>1, <1>2 DEF SetupOtherInputs

\* Output files hold what is kept and nothing else.
LEMMA OutputsAreCut ==
  ASSUME NEW entries, NEW out \in Outputs(entries)
  PROVE  out \subseteq SUBSET entries
PROOF
<1>1. PICK cuts \in SUBSET entries :
        out = {{e \in entries : {c \in cuts : Before(c, e)} = {c \in cuts : Before(c, d)}} : d \in entries}
  BY Zenon DEF Outputs
<1>2. ASSUME NEW f \in out PROVE f \subseteq entries
  <2>1. PICK d \in entries : f = {e \in entries : {c \in cuts : Before(c, e)} = {c \in cuts : Before(c, d)}}
    BY <1>1, <1>2, Zenon
  <2> QED BY <2>1, Zenon
<1> QED BY <1>2

\* LastSequence counts the writes, and only grows.
LEMMA SequenceGrows ==
  ASSUME TypeInv, NEW e
  PROVE  /\ LastSequence \in Nat
         /\ IsFiniteSet(written \cup {e})
         /\ Cardinality(written \cup {e}) \in Nat
         /\ LastSequence <= Cardinality(written \cup {e})
PROOF
<1>1. IsFiniteSet(written) /\ LastSequence = Cardinality(written)
  BY DEF TypeInv, LastSequence
<1>2. Cardinality(written) \in Nat
  BY <1>1, FS_CardinalityType
<1>3. /\ IsFiniteSet(written \cup {e})
      /\ \/ Cardinality(written \cup {e}) = Cardinality(written)
         \/ Cardinality(written \cup {e}) = Cardinality(written) + 1
  BY <1>1, FS_AddElement
<1> QED BY <1>1, <1>2, <1>3

\* DoCompactionWork starts with a smallest_snapshot that is behind no reader,
\* and with inputs that are files of the version.
LEMMA StartKeepsInv ==
  ASSUME CompactionInv, NEW l \in 0..kNumLevels - 2, NEW is_manual,
         NEW chosen \in SUBSET files_[l], NEW in \in SetupOtherInputs(l, chosen),
         StartCompaction(l, in[1], in[2], is_manual),
         UNCHANGED <<workload, mem_, imm_, snapshots_, written, gap>>
  PROVE  CompactionInv'
PROOF
<1>1. in[1] \subseteq files_[l] /\ in[2] \subseteq files_[l + 1]
  BY InputsAreFiles
<1>2. l \in Levels /\ l + 1 \in Levels /\ l # -1
  BY CompactionAssumption DEF Levels
<1>3. in[1] \subseteq SUBSET Entry /\ in[2] \subseteq SUBSET Entry
  BY <1>1, <1>2 DEF CompactionInv, TypeInv
<1>4. LastSequence \in Nat /\ snapshots_ \subseteq 0..LastSequence
  BY SequenceGrows, Zenon DEF CompactionInv
<1>5. /\ SmallestSnapshot \in 0..LastSequence
      /\ \A s \in snapshots_ : SmallestSnapshot <= s
  <2>1. CASE snapshots_ = {}
    BY <1>4, <2>1 DEF SmallestSnapshot
  <2>2. CASE snapshots_ # {}
    <3>1. snapshots_ \in SUBSET Nat
      BY <1>4
    <3> QED BY <1>4, <2>2, <3>1, MinOfSequenceNumbers, Zenon DEF SmallestSnapshot
  <2> QED BY <2>1, <2>2
<1>6. LastSequence' = LastSequence /\ snapshots_' = snapshots_
  BY DEF LastSequence
<1>7. /\ compaction'.level = l /\ compaction'.smallest_snapshot = SmallestSnapshot
      /\ compaction'.inputs[0] = in[1] /\ compaction'.inputs[1] = in[2]
  BY DEF StartCompaction
<1>8. MergeInv'
  BY <1>3, <1>5, <1>6, <1>7 DEF MergeInv
<1>9. TypeInv'
  BY DEF TypeInv, CompactionInv, StartCompaction, Levels
<1> QED BY <1>4, <1>6, <1>8, <1>9 DEF CompactionInv

\* Every step of the database keeps the invariant.
LEMMA NextKeepsInv == CompactionInv /\ [Next]_vars => CompactionInv'
PROOF
<1> SUFFICES ASSUME CompactionInv, [Next]_vars
             PROVE  CompactionInv'
  OBVIOUS
<1> USE DEF CompactionInv
<1>0. LastSequence \in Nat
  BY SequenceGrows, Zenon
<1>1. ASSUME NEW k \in workload.keys, NEW del \in BOOLEAN, Write(k, del)
      PROVE  CompactionInv'
  <2> DEFINE e == [key |-> k, seq |-> LastSequence + 1, del |-> del]
  <2>1. mem_' = mem_ \cup {e} /\ written' = written \cup {e}
    BY <1>1 DEF Write
  <2>2. /\ IsFiniteSet(written') /\ LastSequence' \in Nat
        /\ LastSequence <= LastSequence'
    BY <2>1, SequenceGrows, Zenon DEF LastSequence
  <2>3. k \in Keys
    BY CompactionAssumption DEF TypeInv
  <2>4. e \in Entry
    BY <1>0, <2>3 DEF Entry
  <2>5. TypeInv'
    BY <1>1, <2>1, <2>2, <2>4 DEF TypeInv, Write, Levels
  <2>6. snapshots_' \subseteq 0..LastSequence'
    BY <1>0, <1>1, <2>2 DEF Write
  <2>7. MergeInv'
    BY <1>0, <1>1, <2>2 DEF Write, MergeInv, Running
  <2> QED BY <2>5, <2>6, <2>7
<1>2. CASE SwitchMemTable
  BY <1>2 DEF SwitchMemTable, TypeInv, MergeInv, Running, LastSequence, Levels
<1>3. CASE CompactMemTable
  <2>1. PICK l : files_' = [files_ EXCEPT ![l] = @ \cup {imm_}]
    BY <1>3, Zenon DEF CompactMemTable
  <2>2. files_' \in [Levels -> SUBSET SUBSET Entry]
    BY <2>1, Zenon DEF TypeInv
  <2> QED BY <1>3, <2>2 DEF CompactMemTable, TypeInv, MergeInv, Running, LastSequence, Levels
<1>4. CASE GetSnapshot
  <2>1. snapshots_' = snapshots_ \cup {LastSequence} /\ LastSequence' = LastSequence
    BY <1>4 DEF GetSnapshot, LastSequence
  <2>2. TypeInv'
    BY <1>4 DEF GetSnapshot, TypeInv, Levels
  <2>3. MergeInv'
    BY <1>0, <1>4, <2>1 DEF GetSnapshot, MergeInv, Running
  <2> QED BY <1>0, <2>1, <2>2, <2>3
<1>5. ASSUME NEW s \in snapshots_, ReleaseSnapshot(s)
      PROVE  CompactionInv'
  BY <1>5 DEF ReleaseSnapshot, TypeInv, MergeInv, Running, LastSequence, Levels
<1>6. ASSUME NEW l \in 0..kNumLevels - 2, NEW f \in files_[l], Compact(l, f)
      PROVE  CompactionInv'
  <2> DEFINE chosen == IF l = 0 THEN GetOverlappingInputs(0, Lo({f}), Hi({f})) ELSE {f}
  <2>1. chosen \in SUBSET files_[l]
    BY DEF GetOverlappingInputs, Reached
  <2>2. PICK in \in SetupOtherInputs(l, chosen) :
          \/ StartCompaction(l, in[1], in[2], FALSE)
          \/ Cardinality(in[1]) = 1 /\ TrivialMove(l, CHOOSE g \in in[1] : TRUE)
    BY <1>6, Zenon DEF Compact
  <2>3. UNCHANGED <<workload, mem_, imm_, snapshots_, written, gap>>
    BY <1>6 DEF Compact
  <2>4. CASE StartCompaction(l, in[1], in[2], FALSE)
    BY <2>1, <2>3, <2>4, StartKeepsInv, Zenon
  <2>5. CASE Cardinality(in[1]) = 1 /\ TrivialMove(l, CHOOSE g \in in[1] : TRUE)
    <3> DEFINE g == CHOOSE g \in in[1] : TRUE
    <3>1. in[1] # {}
      BY <2>5, FS_EmptySet
    <3>2. g \in files_[l]
      BY <2>1, <3>1, InputsAreFiles
    <3>3. files_' \in [Levels -> SUBSET SUBSET Entry]
      <4>1. files_[l] \subseteq SUBSET Entry
        BY CompactionAssumption DEF TypeInv, Levels
      <4>2. files_' = [files_ EXCEPT ![l] = @ \ {g}, ![l + 1] = @ \cup {g}]
        BY <2>5 DEF TrivialMove
      <4> HIDE DEF g
      <4> QED BY <3>2, <4>1, <4>2, Zenon DEF TypeInv
    <3> QED BY <2>3, <2>5, <3>3 DEF TrivialMove, TypeInv, MergeInv, Running, LastSequence
  <2> QED BY <2>2, <2>4, <2>5, Zenon
<1>7. ASSUME NEW l \in 0..kNumLevels - 2, NEW lo \in Keys, NEW hi \in Keys, CompactRange(l, lo, hi)
      PROVE  CompactionInv'
  <2>1. GetOverlappingInputs(l, lo, hi) \subseteq files_[l]
    BY DEF GetOverlappingInputs, Reached
  <2>2. PICK chosen \in SUBSET GetOverlappingInputs(l, lo, hi) :
          \E in \in SetupOtherInputs(l, chosen) : StartCompaction(l, in[1], in[2], TRUE)
    BY <1>7, Zenon DEF CompactRange
  <2>3. UNCHANGED <<workload, mem_, imm_, snapshots_, written, gap>>
    BY <1>7 DEF CompactRange
  <2> QED BY <2>1, <2>2, <2>3, StartKeepsInv, Zenon
<1>8. CASE InstallCompactionResults
  <2> DEFINE merged == UNION (compaction.inputs[0] \cup compaction.inputs[1])
             kept == Kept(merged, compaction.smallest_snapshot, compaction.base)
  <2>1. /\ compaction.level \in 0..kNumLevels - 2
        /\ compaction.inputs[0] \subseteq SUBSET Entry
        /\ compaction.inputs[1] \subseteq SUBSET Entry
    BY <1>8 DEF InstallCompactionResults, MergeInv
  <2>2. kept \subseteq Entry
    BY <2>1, Zenon DEF Kept
  <2>3. PICK out \in Outputs(kept) :
          files_' = [files_ EXCEPT ![compaction.level] = @ \ compaction.inputs[0],
                                   ![compaction.level + 1] = (@ \ compaction.inputs[1]) \cup out]
    BY <1>8, Zenon DEF InstallCompactionResults
  <2>4. out \subseteq SUBSET Entry
    <3> HIDE DEF kept
    <3>1. out \subseteq SUBSET kept
      BY OutputsAreCut
    <3> QED BY <2>2, <3>1
  <2>5. files_' \in [Levels -> SUBSET SUBSET Entry]
    BY <2>3, <2>4, Zenon DEF TypeInv
  <2> QED BY <1>8, <2>5 DEF InstallCompactionResults, TypeInv, MergeInv, Running, NoCompaction, LastSequence
<1>9. CASE UNCHANGED vars
  BY <1>9 DEF vars, TypeInv, MergeInv, Running, LastSequence, Levels
<1> QED BY <1>1, <1>2, <1>3, <1>4, <1>5, <1>6, <1>7, <1>8, <1>9 DEF Next

\* What DoCompactionWork drops is not missed at any snapshot that is held or
\* that is taken while it works, for every number of keys, levels and writes.
THEOREM CompactionIsInvisible == Spec => []MergeIsInvisible
PROOF
<1>1. Init => CompactionInv
  BY FS_EmptySet DEF Init, CompactionInv, TypeInv, MergeInv, Running, NoCompaction, LastSequence
<1>2. CompactionInv => MergeIsInvisible
  <2> SUFFICES ASSUME CompactionInv, Running,
                      NEW k \in Keys, NEW s \in snapshots_ \cup {LastSequence}
               PROVE  LET merged == UNION (compaction.inputs[0] \cup compaction.inputs[1])
                          kept == Kept(merged, compaction.smallest_snapshot, compaction.base)
                      IN  Value(NewestIn(kept, k, s)) = Value(NewestIn(merged, k, s))
    BY Zenon DEF MergeIsInvisible
  <2> DEFINE merged == UNION (compaction.inputs[0] \cup compaction.inputs[1])
  <2>1. LastSequence \in Nat
    BY SequenceGrows, Zenon DEF CompactionInv
  <2>2. merged \in SUBSET Entry
    BY DEF CompactionInv, MergeInv
  <2>3. /\ s \in Nat /\ compaction.smallest_snapshot \in Nat
        /\ compaction.smallest_snapshot <= s
    BY <2>1 DEF CompactionInv, MergeInv
  <2> HIDE DEF merged
  <2> DEFINE ss == compaction.smallest_snapshot
             base == compaction.base
  <2>4. ss \in Nat /\ ss <= s
    BY <2>3
  <2> HIDE DEF ss, base
  <2>5. Value(NewestIn(Kept(merged, ss, base), k, s)) = Value(NewestIn(merged, k, s))
    BY <2>2, <2>3, <2>4, DroppedIsNotMissed
  <2> QED BY <2>5 DEF merged, ss, base
<1> QED BY <1>1, <1>2, NextKeepsInv, PTL DEF Spec

-----------------------------------------------------------------------------
(* The order of entries and of files                                       *)

\* A finite set has a minimal element for any strict order of its elements.
LEMMA MinimalElement ==
  ASSUME NEW S, IsFiniteSet(S), S # {}, NEW R,
         \A x \in S : <<x, x>> \notin R,
         \A x, y, z \in S : <<x, y>> \in R /\ <<y, z>> \in R => <<x, z>> \in R
  PROVE  \E x \in S : \A y \in S : <<y, x>> \notin R
PROOF
<1> DEFINE Below(x) == {y \in S : <<y, x>> \in R}
           count == [x \in S |-> Cardinality(Below(x))]
           counts == {count[x] : x \in S}
<1>1. \A x \in S : Below(x) \in SUBSET S
  OBVIOUS
<1>2. \A x, y \in S : <<y, x>> \in R => Below(y) \in SUBSET Below(x) /\ Below(y) # Below(x)
  BY Zenon
<1>3. \A x \in S : count[x] = Cardinality(Below(x))
  OBVIOUS
<1> HIDE DEF Below, count
<1>4. \A x \in S : IsFiniteSet(Below(x)) /\ count[x] \in Nat
  BY <1>1, <1>3, FS_Subset, FS_CardinalityType
<1>5. counts \in SUBSET Nat /\ counts # {}
  BY <1>4
<1>6. PICK x \in S : \A y \in S : count[x] <= count[y]
  <2>1. Min(counts) \in counts /\ \A n \in counts : Min(counts) <= n
    BY <1>5, MinOfSequenceNumbers, Zenon
  <2>2. \A x \in S : count[x] \in counts
    OBVIOUS
  <2>3. PICK x \in S : count[x] = Min(counts)
    BY <2>1, Zenon
  <2> HIDE DEF counts
  <2>4. \A y \in S : count[x] <= count[y]
    BY <2>1, <2>2, <2>3
  <2> QED BY <2>4
<1>7. ASSUME NEW y \in S, <<y, x>> \in R
      PROVE  FALSE
  <2>1. Cardinality(Below(y)) <= Cardinality(Below(x)) /\ Cardinality(Below(x)) # Cardinality(Below(y))
    BY <1>2, <1>4, <1>7, FS_Subset
  <2> QED BY <1>3, <1>4, <1>6, <2>1
<1> QED BY <1>7

\* Entries that differ have different sequence numbers.
Ordered(W) ==
  /\ W \subseteq Entry /\ IsFiniteSet(W)
  /\ \A d, e \in W : d.seq = e.seq => d = e

\* Table files: none is empty.
Files == (SUBSET written) \ {{}}

\* All of one file is before all of another.
Precedes(f, g) == \A d \in f, e \in g : Before(d, e)

\* InternalKeyComparator orders entries totally.
LEMMA BeforeIsOrder ==
  ASSUME NEW W, Ordered(W)
  PROVE  /\ \A d \in W : ~Before(d, d)
         /\ \A c, d, e \in W : Before(c, d) /\ Before(d, e) => Before(c, e)
         /\ \A d, e \in W : d = e \/ Before(d, e) \/ Before(e, d)
PROOF
<1>1. \A d \in W : d.key \in Int /\ d.seq \in Nat
  BY CompactionAssumption, Zenon DEF Ordered, Entry
<1> QED BY <1>1 DEF Ordered, Before

\* A file has a smallest and a largest entry.
LEMMA EndsOfFile ==
  ASSUME Ordered(written), NEW f \in Files
  PROVE  /\ Smallest(f) \in f /\ \A d \in f : d = Smallest(f) \/ Before(Smallest(f), d)
         /\ Largest(f) \in f /\ \A d \in f : d = Largest(f) \/ Before(d, Largest(f))
PROOF
<1>1. f \subseteq written /\ f # {}
  BY DEF Files
<1>2. IsFiniteSet(f)
  BY <1>1, FS_Subset DEF Ordered
<1>3. /\ \A d \in f : ~Before(d, d)
      /\ \A c, d, e \in f : Before(c, d) /\ Before(d, e) => Before(c, e)
      /\ \A d, e \in f : d = e \/ Before(d, e) \/ Before(e, d)
  BY <1>1, BeforeIsOrder, Zenon
<1>4. \E e \in f : \A d \in f : d = e \/ Before(e, d)
  <2> DEFINE R == {r \in f \X f : Before(r[1], r[2])}
  <2>1. \A d, e \in f : <<d, e>> \in R <=> Before(d, e)
    OBVIOUS
  <2> HIDE DEF R
  <2>2. \E x \in f : \A y \in f : <<y, x>> \notin R
    BY <1>1, <1>2, <1>3, <2>1, MinimalElement
  <2> QED BY <1>3, <2>1, <2>2, Zenon
<1>5. \E e \in f : \A d \in f : d = e \/ Before(d, e)
  <2> DEFINE R == {r \in f \X f : Before(r[2], r[1])}
  <2>1. \A d, e \in f : <<d, e>> \in R <=> Before(e, d)
    OBVIOUS
  <2> HIDE DEF R
  <2>2. \E x \in f : \A y \in f : <<y, x>> \notin R
    BY <1>1, <1>2, <1>3, <2>1, MinimalElement, Zenon
  <2> QED BY <1>3, <2>1, <2>2, Zenon
<1> QED BY <1>4, <1>5, Zenon DEF Smallest, Largest

\* The range of user keys of a file.
LEMMA RangeOfFile ==
  ASSUME Ordered(written), NEW f \in Files
  PROVE  /\ Smallest(f).key \in Keys /\ Largest(f).key \in Keys
         /\ Smallest(f).key \in Int /\ Largest(f).key \in Int
         /\ Smallest(f).key <= Largest(f).key
         /\ \A d \in f : /\ d.key \in Int /\ d.seq \in Nat
                         /\ Smallest(f).key <= d.key /\ d.key <= Largest(f).key
PROOF
<1>1. \A d \in f : d.key \in Keys /\ d.key \in Int /\ d.seq \in Nat
  BY CompactionAssumption, Zenon DEF Ordered, Entry, Files
<1> QED BY <1>1, EndsOfFile DEF Before

\* One file is before another when its largest entry is before the smallest
\* of the other.
LEMMA FilesInOrder ==
  ASSUME Ordered(written), NEW f \in Files, NEW g \in Files
  PROVE  /\ Before(Largest(f), Smallest(g)) <=> Precedes(f, g)
         /\ Precedes(f, g) => Largest(f).key <= Smallest(g).key
         /\ Precedes(f, g) => Before(Smallest(f), Smallest(g)) /\ Before(Largest(f), Largest(g))
         /\ Precedes(f, g) => ~Precedes(g, f) /\ f # g
PROOF
<1>1. /\ f \subseteq written /\ g \subseteq written
      /\ Smallest(f) \in f /\ Largest(f) \in f /\ Smallest(g) \in g /\ Largest(g) \in g
      /\ \A d \in f : d = Largest(f) \/ Before(d, Largest(f))
      /\ \A d \in g : d = Smallest(g) \/ Before(Smallest(g), d)
  BY EndsOfFile DEF Files
<1>2. /\ \A d \in written : ~Before(d, d)
      /\ \A c, d, e \in written : Before(c, d) /\ Before(d, e) => Before(c, e)
  BY BeforeIsOrder
<1>3. Before(Largest(f), Smallest(g)) => Precedes(f, g)
  BY <1>1, <1>2 DEF Precedes
<1>4. ASSUME Precedes(f, g) PROVE Before(Largest(f), Smallest(g)) /\ Largest(f).key <= Smallest(g).key
  BY <1>1, <1>4, RangeOfFile DEF Precedes, Before
<1>5. ASSUME Precedes(f, g)
      PROVE  /\ Before(Smallest(f), Smallest(g)) /\ Before(Largest(f), Largest(g))
             /\ ~Precedes(g, f) /\ f # g
  BY <1>1, <1>2, <1>5, Zenon DEF Precedes
<1> QED BY <1>3, <1>4, <1>5

\* A non-empty set of keys has a smallest and a largest one.
LEMMA EndsOfKeys ==
  ASSUME NEW T \in SUBSET Keys, T # {}
  PROVE  /\ Min(T) \in T /\ \A y \in T : Min(T) <= y
         /\ Max(T) \in T /\ \A y \in T : y <= Max(T)
PROOF
<1>1. IsFiniteSet(T) /\ \A x \in T : x \in Int
  BY CompactionAssumption, FS_Subset, Zenon
<1>2. \E x \in T : \A y \in T : x <= y
  <2> DEFINE R == {r \in T \X T : r[1] < r[2]}
  <2>1. \A x, y \in T : <<x, y>> \in R <=> x < y
    OBVIOUS
  <2> HIDE DEF R
  <2>2. PICK x \in T : \A y \in T : <<y, x>> \notin R
    BY <1>1, <2>1, MinimalElement
  <2>3. \A y \in T : ~(y < x)
    BY <2>1, <2>2, Zenon
  <2>4. \A y \in T : x <= y
    BY <1>1, <2>3
  <2> QED BY <2>4
<1>3. \E x \in T : \A y \in T : x >= y
  <2> DEFINE R == {r \in T \X T : r[2] < r[1]}
  <2>1. \A x, y \in T : <<x, y>> \in R <=> y < x
    OBVIOUS
  <2> HIDE DEF R
  <2>2. PICK x \in T : \A y \in T : <<y, x>> \notin R
    BY <1>1, <2>1, MinimalElement
  <2>3. \A y \in T : ~(x < y)
    BY <2>1, <2>2, Zenon
  <2>4. \A y \in T : x >= y
    BY <1>1, <2>3
  <2> QED BY <2>4
<1> QED BY <1>1, <1>2, <1>3 DEF Min, Max

\* The range of user keys of some files.
LEMMA RangeOfFiles ==
  ASSUME Ordered(written), NEW F \in SUBSET Files, F # {}
  PROVE  /\ Lo(F) \in Int /\ Hi(F) \in Int
         /\ \A f \in F : Lo(F) <= Smallest(f).key /\ Largest(f).key <= Hi(F)
         /\ \E f \in F : Smallest(f).key = Lo(F)
         /\ \E f \in F : Largest(f).key = Hi(F)
PROOF
<1> DEFINE lows == {Smallest(f).key : f \in F}
           highs == {Largest(f).key : f \in F}
<1>1. lows \in SUBSET Keys /\ lows # {} /\ highs \in SUBSET Keys /\ highs # {}
  BY RangeOfFile
<1>2. Lo(F) = Min(lows) /\ Hi(F) = Max(highs)
  BY DEF Lo, Hi
<1>3. /\ \A f \in F : Smallest(f).key \in lows /\ Largest(f).key \in highs
      /\ \A x \in lows : \E f \in F : Smallest(f).key = x
      /\ \A x \in highs : \E f \in F : Largest(f).key = x
  OBVIOUS
<1> HIDE DEF lows, highs
<1>4. /\ Min(lows) \in lows /\ \A y \in lows : Min(lows) <= y
      /\ Max(highs) \in highs /\ \A y \in highs : y <= Max(highs)
  BY <1>1, EndsOfKeys
<1>5. Min(lows) \in Int /\ Max(highs) \in Int
  BY <1>1, <1>4, CompactionAssumption, Zenon
<1> QED BY <1>2, <1>3, <1>4, <1>5

\* What Reached computes: the least set with start that R does not leave.
LEMMA ReachedIsClosure ==
  ASSUME NEW F, NEW start \in SUBSET F, NEW R \in SUBSET (F \X F)
  PROVE  /\ Reached(F, start, R) \subseteq F /\ start \subseteq Reached(F, start, R)
         /\ \A r \in R : r[1] \in Reached(F, start, R) => r[2] \in Reached(F, start, R)
         /\ \A S \in SUBSET F : start \subseteq S /\ (\A r \in R : r[1] \in S => r[2] \in S)
              => Reached(F, start, R) \subseteq S
PROOF
<1>1. /\ Reached(F, start, R) \subseteq F /\ start \subseteq Reached(F, start, R)
      /\ \A S \in SUBSET F : start \subseteq S /\ (\A r \in R : r[1] \in S => r[2] \in S)
              => Reached(F, start, R) \subseteq S
  BY DEF Reached
<1>2. ASSUME NEW r \in R, r[1] \in Reached(F, start, R)
      PROVE  r[2] \in Reached(F, start, R)
  BY <1>2 DEF Reached
<1> QED BY <1>1, <1>2

-----------------------------------------------------------------------------
(* The inputs of a compaction leave no room between them                   *)

\* A range of keys that overlaps none of the files is on one side of them all.
NoGap(F) ==
  \A a, b \in Keys : a <= b =>
    \/ \E f \in F : Overlaps(f, a, b)
    \/ \A f \in F : Largest(f).key < a
    \/ \A f \in F : Smallest(f).key > b

\* Names for the local definitions of AddBoundaryInputs and GetOverlappingInputs.
LastOf(F) == {f \in F : \A g \in F : g = f \/ Before(Largest(g), Largest(f))}
Boundary(l, f) == {g \in files_[l] : /\ Smallest(g).key = Largest(f).key
                                     /\ Before(Largest(f), Smallest(g))}
NextBoundary(l) ==
  {r \in files_[l] \X files_[l] :
     /\ r[2] \in Boundary(l, r[1])
     /\ \A g \in Boundary(l, r[1]) : g = r[2] \/ Before(Smallest(r[2]), Smallest(g))}
Chain(l, F) == Reached(files_[l], LastOf(F), NextBoundary(l))
Touching == {r \in files_[0] \X files_[0] : Overlaps(r[2], Smallest(r[1]).key, Largest(r[1]).key)}
InRange(l, lo, hi) == {f \in files_[l] : Overlaps(f, lo, hi)}

\* AddBoundaryInputs and GetOverlappingInputs in terms of these names.
LEMMA InputsByName ==
  /\ \A l, F : AddBoundaryInputs(l, F) = F \cup Chain(l, F)
  /\ \A l, lo, hi : GetOverlappingInputs(l, lo, hi) =
       IF l = 0 THEN Reached(files_[0], InRange(0, lo, hi), Touching) ELSE InRange(l, lo, hi)
PROOF
<1>1. \A l, F : AddBoundaryInputs(l, F) = F \cup Chain(l, F)
  BY Zenon DEF AddBoundaryInputs, Chain, LastOf, Boundary, NextBoundary
<1>2. \A l, lo, hi : GetOverlappingInputs(l, lo, hi) =
       IF l = 0 THEN Reached(files_[0], InRange(0, lo, hi), Touching) ELSE InRange(l, lo, hi)
  BY Zenon DEF GetOverlappingInputs, InRange, Touching
<1> QED BY <1>1, <1>2, Zenon

\* The boundary files of AddBoundaryInputs are closed under taking the next one,
\* and are no more than that.
LEMMA ChainIsClosure ==
  ASSUME NEW l, NEW X \in SUBSET files_[l]
  PROVE  /\ Chain(l, X) \subseteq files_[l] /\ LastOf(X) \subseteq Chain(l, X)
         /\ \A f, g : <<f, g>> \in NextBoundary(l) /\ f \in Chain(l, X) => g \in Chain(l, X)
         /\ \A S \in SUBSET files_[l] :
              LastOf(X) \subseteq S /\ (\A f, g : <<f, g>> \in NextBoundary(l) /\ f \in S => g \in S)
              => Chain(l, X) \subseteq S
PROOF
<1>1. LastOf(X) \in SUBSET files_[l] /\ NextBoundary(l) \in SUBSET (files_[l] \X files_[l])
  BY DEF LastOf, NextBoundary
<1>2. \A r \in NextBoundary(l) : r = <<r[1], r[2]>>
  BY <1>1
<1> DEFINE R == NextBoundary(l)
<1>3. /\ Chain(l, X) \subseteq files_[l] /\ LastOf(X) \subseteq Chain(l, X)
      /\ \A r \in R : r[1] \in Chain(l, X) => r[2] \in Chain(l, X)
      /\ \A S \in SUBSET files_[l] : LastOf(X) \subseteq S /\ (\A r \in R : r[1] \in S => r[2] \in S)
              => Chain(l, X) \subseteq S
  BY <1>1, ReachedIsClosure, Zenon DEF Chain
<1> HIDE DEF R
<1>4. \A f, g : <<f, g>> \in R /\ f \in Chain(l, X) => g \in Chain(l, X)
  BY <1>3
<1>5. ASSUME NEW S \in SUBSET files_[l], LastOf(X) \subseteq S,
             \A f, g : <<f, g>> \in R /\ f \in S => g \in S
      PROVE  Chain(l, X) \subseteq S
  <2>1. \A r \in R : r[1] \in S => r[2] \in S
    BY <1>2, <1>5 DEF R
  <2> QED BY <1>3, <1>5, <2>1
<1> QED BY <1>3, <1>4, <1>5 DEF R

\* The files of the version hold entries that were written, in a total order.
VersionInv == Ordered(written) /\ \A l \in Levels : files_[l] \subseteq Files

\* A single file leaves no gap.
LEMMA OneFileHasNoGap ==
  ASSUME Ordered(written), NEW f \in Files
  PROVE  NoGap({f})
PROOF
<1>1. Smallest(f).key \in Int /\ Largest(f).key \in Int
  BY RangeOfFile
<1> QED BY <1>1, CompactionAssumption DEF NoGap, Overlaps

\* Files that overlap the range of some files without a gap make no gap; at
\* level 0 neither do those that overlap these, and so on.
LEMMA OverlappingKeepsNoGap ==
  ASSUME VersionInv, NEW l \in Levels, NEW F \in SUBSET Files, NoGap(F),
         NEW H \in SUBSET F, H # {}
  PROVE  NoGap(F \cup GetOverlappingInputs(l, Lo(H), Hi(H)))
PROOF
<1> DEFINE G == GetOverlappingInputs(l, Lo(H), Hi(H))
           start == InRange(l, Lo(H), Hi(H))
           Left(f, a) == Largest(f).key < a
           Right(f, b) == Smallest(f).key > b
<1>1. /\ 0 \in Levels /\ files_[l] \subseteq Files
      /\ \A f \in Files : /\ Smallest(f).key \in Int /\ Largest(f).key \in Int
                          /\ Smallest(f).key <= Largest(f).key
  BY RangeOfFile, CompactionAssumption DEF VersionInv, Levels
<1>2. /\ Lo(H) \in Int /\ Hi(H) \in Int
      /\ \E f \in F : Smallest(f).key = Lo(H)
      /\ \E f \in F : Largest(f).key = Hi(H)
  BY RangeOfFiles DEF VersionInv
<1>3. /\ l # 0 => G = start
      /\ l = 0 => G = Reached(files_[l], start, Touching)
      /\ start \in SUBSET files_[l] /\ \A g \in start : Overlaps(g, Lo(H), Hi(H))
  BY InputsByName, Zenon DEF InRange
<1>4. SUFFICES ASSUME NEW a \in Keys, NEW b \in Keys, a <= b,
                      \A f \in F \cup G : ~Overlaps(f, a, b)
               PROVE  (\A f \in F \cup G : Left(f, a)) \/ (\A f \in F \cup G : Right(f, b))
  BY Zenon DEF NoGap
<1>5. a \in Int /\ b \in Int
  BY CompactionAssumption
<1>6. G \subseteq files_[l] /\ start \subseteq G /\ G \subseteq Files
  BY <1>1, <1>3 DEF Reached
<1>7. \A g \in F \cup G : Left(g, a) \/ Right(g, b)
  BY <1>1, <1>4, <1>5, <1>6 DEF Overlaps
<1>8. (\A f \in F : Left(f, a)) \/ (\A f \in F : Right(f, b))
  BY <1>4, Zenon DEF NoGap
<1> HIDE DEF G, start
<1>9. CASE \A f \in F : Left(f, a)
  <2>1. Hi(H) < a
    BY <1>2, <1>9
  <2>2. ASSUME NEW g \in start PROVE Left(g, a)
    <3>1. g \in Files /\ g \in F \cup G /\ Overlaps(g, Lo(H), Hi(H))
      BY <1>3, <1>6 DEF G, start
    <3> QED BY <1>1, <1>2, <1>4, <1>5, <1>7, <2>1, <3>1 DEF Overlaps
  <2>3. CASE l = 0
    <3> DEFINE S == {g \in G : Left(g, a)}
    <3>1. S \in SUBSET files_[l] /\ start \subseteq S
      BY <1>6, <2>2
    <3>2. ASSUME NEW r \in Touching, r[1] \in S PROVE r[2] \in S
      <4>1. r[2] \in G
        BY <1>3, <2>3, <3>2, ReachedIsClosure DEF Touching, G, start
      <4>2. /\ r[1] \in Files /\ Left(r[1], a) /\ r[2] \in Files
            /\ Largest(r[2]).key >= Smallest(r[1]).key /\ Smallest(r[2]).key <= Largest(r[1]).key
        BY <1>6, <3>2, <4>1 DEF Touching, Overlaps
      <4>3. Left(r[2], a)
        BY <1>1, <1>4, <1>5, <1>7, <4>1, <4>2
      <4> QED BY <4>1, <4>3
    <3>3. G \subseteq S
      BY <1>3, <2>3, <3>1, <3>2, Zenon DEF Reached, G, start
    <3> QED BY <1>9, <3>3
  <2> QED BY <1>3, <1>9, <2>2, <2>3 DEF G, start
<1>10. CASE \A f \in F : Right(f, b)
  <2>1. Lo(H) > b
    BY <1>2, <1>10
  <2>2. ASSUME NEW g \in start PROVE Right(g, b)
    <3>1. g \in Files /\ g \in F \cup G /\ Overlaps(g, Lo(H), Hi(H))
      BY <1>3, <1>6 DEF G, start
    <3> QED BY <1>1, <1>2, <1>4, <1>5, <1>7, <2>1, <3>1 DEF Overlaps
  <2>3. CASE l = 0
    <3> DEFINE S == {g \in G : Right(g, b)}
    <3>1. S \in SUBSET files_[l] /\ start \subseteq S
      BY <1>6, <2>2
    <3>2. ASSUME NEW r \in Touching, r[1] \in S PROVE r[2] \in S
      <4>1. r[2] \in G
        BY <1>3, <2>3, <3>2, ReachedIsClosure DEF Touching, G, start
      <4>2. /\ r[1] \in Files /\ Right(r[1], b) /\ r[2] \in Files
            /\ Largest(r[2]).key >= Smallest(r[1]).key /\ Smallest(r[2]).key <= Largest(r[1]).key
        BY <1>6, <3>2, <4>1 DEF Touching, Overlaps
      <4>3. Right(r[2], b)
        BY <1>1, <1>4, <1>5, <1>7, <4>1, <4>2
      <4> QED BY <4>1, <4>3
    <3>3. G \subseteq S
      BY <1>3, <2>3, <3>1, <3>2, Zenon DEF Reached, G, start
    <3> QED BY <1>10, <3>3
  <2> QED BY <1>3, <1>10, <2>2, <2>3 DEF G, start
<1> QED BY <1>8, <1>9, <1>10

\* Boundary files share a user key with the file before them: no gap.
LEMMA BoundaryKeepsNoGap ==
  ASSUME VersionInv, NEW l \in Levels, NEW F \in SUBSET Files, NoGap(F),
         NEW X \in SUBSET files_[l], X \subseteq F
  PROVE  NoGap(F \cup AddBoundaryInputs(l, X))
PROOF
<1> DEFINE C == Chain(l, X)
           Left(f, a) == Largest(f).key < a
           Right(f, b) == Smallest(f).key > b
<1>1. /\ files_[l] \subseteq Files
      /\ \A f \in Files : /\ Smallest(f).key \in Int /\ Largest(f).key \in Int
                          /\ Smallest(f).key <= Largest(f).key
  BY RangeOfFile DEF VersionInv
<1>2. F \cup AddBoundaryInputs(l, X) = F \cup C
  BY InputsByName
<1>3. SUFFICES ASSUME NEW a \in Keys, NEW b \in Keys, a <= b,
                      \A f \in F \cup C : ~Overlaps(f, a, b)
               PROVE  (\A f \in F \cup C : Left(f, a)) \/ (\A f \in F \cup C : Right(f, b))
  BY <1>2, Zenon DEF NoGap
<1>4. a \in Int /\ b \in Int
  BY CompactionAssumption
<1>5. /\ C \subseteq files_[l] /\ LastOf(X) \subseteq C
      /\ \A f, g : <<f, g>> \in NextBoundary(l) /\ f \in C => g \in C
      /\ \A S \in SUBSET files_[l] :
           LastOf(X) \subseteq S /\ (\A f, g : <<f, g>> \in NextBoundary(l) /\ f \in S => g \in S)
           => C \subseteq S
  BY ChainIsClosure
<1>6. \A g \in F \cup C : Left(g, a) \/ Right(g, b)
  BY <1>1, <1>3, <1>4, <1>5 DEF Overlaps
<1>7. \A f, g : <<f, g>> \in NextBoundary(l) =>
        /\ f \in files_[l] /\ g \in files_[l]
        /\ Smallest(g).key = Largest(f).key
  BY DEF NextBoundary, Boundary
<1>8. LastOf(X) \subseteq F
  BY DEF LastOf
<1>9. (\A f \in F : Left(f, a)) \/ (\A f \in F : Right(f, b))
  BY <1>3, Zenon DEF NoGap
<1> HIDE DEF C
<1>10. CASE \A f \in F : Left(f, a)
  <2> DEFINE S == {g \in C : Left(g, a)}
  <2>1. ASSUME NEW f, NEW g, <<f, g>> \in NextBoundary(l), f \in S
        PROVE  g \in S
    <3>1. g \in C /\ g \in Files /\ f \in Files /\ Smallest(g).key = Largest(f).key
      BY <1>1, <1>5, <1>7, <2>1
    <3> QED BY <1>1, <1>3, <1>4, <1>6, <2>1, <3>1
  <2>2. S \in SUBSET files_[l] /\ LastOf(X) \subseteq S
    BY <1>5, <1>8, <1>10
  <2> HIDE DEF S
  <2>3. C \subseteq S
    BY <1>5, <2>1, <2>2
  <2> QED BY <1>10, <2>3 DEF S
<1>11. CASE \A f \in F : Right(f, b)
  <2> DEFINE S == {g \in C : Right(g, b)}
  <2>1. ASSUME NEW f, NEW g, <<f, g>> \in NextBoundary(l), f \in S
        PROVE  g \in S
    <3>1. g \in C /\ g \in Files /\ f \in Files /\ Smallest(g).key = Largest(f).key
      BY <1>1, <1>5, <1>7, <2>1
    <3> QED BY <1>1, <1>4, <2>1, <3>1
  <2>2. S \in SUBSET files_[l] /\ LastOf(X) \subseteq S
    BY <1>5, <1>8, <1>11
  <2> HIDE DEF S
  <2>3. C \subseteq S
    BY <1>5, <2>1, <2>2
  <2> QED BY <1>11, <2>3 DEF S
<1> QED BY <1>9, <1>10, <1>11

-----------------------------------------------------------------------------
(* What the inputs leave behind                                            *)

\* The files of a level are disjoint and in order.
SortedAt(l) == \A f, g \in files_[l] : f = g \/ Precedes(f, g) \/ Precedes(g, f)

\* Files before one another are so transitively.
LEMMA PrecedesIsTransitive ==
  ASSUME Ordered(written), NEW f \in Files, NEW g \in Files, NEW h \in Files,
         Precedes(f, g), Precedes(g, h)
  PROVE  Precedes(f, h)
PROOF
<1>1. /\ f \subseteq written /\ g \subseteq written /\ h \subseteq written /\ g # {}
      /\ \A c, d, e \in written : Before(c, d) /\ Before(d, e) => Before(c, e)
  BY BeforeIsOrder DEF Files
<1> QED BY <1>1, Zenon DEF Precedes

\* Ranges of user keys that do not meet put files in order.
LEMMA ApartIsInOrder ==
  ASSUME Ordered(written), NEW f \in Files, NEW g \in Files, Largest(f).key < Smallest(g).key
  PROVE  Precedes(f, g)
PROOF
<1>1. /\ Largest(f).key \in Int /\ Smallest(g).key \in Int
      /\ \A d \in f : d.key \in Int /\ d.key <= Largest(f).key
      /\ \A e \in g : e.key \in Int /\ Smallest(g).key <= e.key
  BY RangeOfFile
<1> QED BY <1>1 DEF Precedes, Before

\* AddBoundaryInputs goes from a file to the one that follows it.
LEMMA NextIsAdjacent ==
  ASSUME VersionInv, NEW l \in Levels, NEW f, NEW g, <<f, g>> \in NextBoundary(l)
  PROVE  /\ f \in files_[l] /\ g \in files_[l] /\ Precedes(f, g)
         /\ Smallest(g).key = Largest(f).key
         /\ \A x \in files_[l] : ~(Precedes(f, x) /\ Precedes(x, g))
PROOF
<1>1. /\ f \in files_[l] /\ g \in files_[l] /\ f \in Files /\ g \in Files
      /\ Smallest(g).key = Largest(f).key /\ Before(Largest(f), Smallest(g))
      /\ \A x \in Boundary(l, f) : x = g \/ Before(Smallest(g), Smallest(x))
  BY DEF NextBoundary, Boundary, VersionInv
<1>2. Precedes(f, g)
  BY <1>1, FilesInOrder DEF VersionInv
<1>3. ASSUME NEW x \in files_[l], Precedes(f, x), Precedes(x, g)
      PROVE  FALSE
  <2>1. /\ x \in Files /\ Before(Largest(f), Smallest(x)) /\ x # g
        /\ Largest(f).key <= Smallest(x).key /\ Largest(x).key <= Smallest(g).key
        /\ Before(Smallest(x), Smallest(g))
    BY <1>1, <1>3, FilesInOrder DEF VersionInv
  <2>2. /\ Smallest(x).key <= Largest(x).key
        /\ Smallest(x).key \in Int /\ Largest(x).key \in Int /\ Largest(f).key \in Int
        /\ Smallest(x).seq \in Nat /\ Smallest(g).seq \in Nat
    BY <1>1, <2>1, RangeOfFile, EndsOfFile DEF VersionInv
  <2>3. x \in Boundary(l, f)
    BY <1>1, <2>1, <2>2 DEF Boundary
  <2> QED BY <1>1, <2>1, <2>2, <2>3 DEF Before
<1> QED BY <1>1, <1>2, <1>3

\* A file at the level of the outputs that is no input is on one side of all
\* inputs: SetupOtherInputs takes what overlaps the upper ones, and the
\* boundary files after it.
LEMMA RestIsAside ==
  ASSUME VersionInv, NEW l \in Levels \ {0}, SortedAt(l),
         NEW in0 \in SUBSET Files, in0 # {}, NEW in1,
         in1 = AddBoundaryInputs(l, GetOverlappingInputs(l, Lo(in0), Hi(in0))),
         NEW g \in files_[l] \ in1
  PROVE  (\A f \in in0 \cup in1 : Precedes(g, f)) \/ (\A f \in in0 \cup in1 : Precedes(f, g))
PROOF
<1> DEFINE X == InRange(l, Lo(in0), Hi(in0))
           C == Chain(l, X)
<1>1. in1 = X \cup C /\ X \in SUBSET files_[l] /\ LastOf(X) \subseteq X
  BY InputsByName, Zenon DEF InRange, LastOf
<1>2. /\ files_[l] \subseteq Files /\ g \in Files
      /\ \A f \in Files : /\ Smallest(f).key \in Int /\ Largest(f).key \in Int
                          /\ Smallest(f).key <= Largest(f).key
      /\ \A f, h \in Files : Precedes(f, h) => Largest(f).key <= Smallest(h).key
  BY RangeOfFile, FilesInOrder DEF VersionInv
<1>3. /\ Lo(in0) \in Int /\ Hi(in0) \in Int
      /\ \A f \in in0 : Lo(in0) <= Smallest(f).key /\ Largest(f).key <= Hi(in0)
  BY RangeOfFiles DEF VersionInv
<1>4. \A f \in X : Largest(f).key >= Lo(in0) /\ Smallest(f).key <= Hi(in0)
  BY DEF InRange, Overlaps
<1>5. Largest(g).key < Lo(in0) \/ Hi(in0) < Smallest(g).key
  BY <1>1, <1>2, <1>3 DEF InRange, Overlaps
<1>6. /\ C \subseteq files_[l] /\ LastOf(X) \subseteq C
      /\ \A f, h : <<f, h>> \in NextBoundary(l) /\ f \in C => h \in C
      /\ \A S \in SUBSET files_[l] :
           LastOf(X) \subseteq S /\ (\A f, h : <<f, h>> \in NextBoundary(l) /\ f \in S => h \in S)
           => C \subseteq S
  BY <1>1, ChainIsClosure
<1> HIDE DEF X, C
<1>7. \A f \in X \cup C : f = g \/ Precedes(f, g) \/ Precedes(g, f)
  BY <1>1, <1>6, Zenon DEF SortedAt
<1>8. g \notin X /\ g \notin C
  BY <1>1
<1>9. CASE Largest(g).key < Lo(in0)
  <2>1. ASSUME NEW f \in in0 PROVE Precedes(g, f)
    <3>1. f \in Files /\ Largest(g).key < Smallest(f).key
      BY <1>2, <1>3, <1>9
    <3> QED BY <1>2, <3>1, ApartIsInOrder DEF VersionInv
  <2>2. ASSUME NEW f \in X PROVE Precedes(g, f)
    <3>1. f \in Files /\ f # g
      BY <1>1, <1>2, <1>8
    <3>2. ~(Largest(f).key <= Smallest(g).key)
      BY <1>2, <1>3, <1>4, <1>9, <3>1
    <3> QED BY <1>2, <1>7, <3>1, <3>2
  <2> DEFINE S == {f \in C : Precedes(g, f)}
  <2>3. ASSUME NEW f, NEW h, <<f, h>> \in NextBoundary(l), f \in S
        PROVE  h \in S
    <3>1. h \in C /\ Precedes(f, h) /\ f \in Files /\ h \in Files
      BY <1>2, <1>6, <2>3, NextIsAdjacent
    <3> QED BY <1>2, <2>3, <3>1, PrecedesIsTransitive DEF VersionInv
  <2>4. S \in SUBSET files_[l] /\ LastOf(X) \subseteq S
    BY <1>1, <1>6, <2>2
  <2> HIDE DEF S
  <2>5. C \subseteq S
    BY <1>6, <2>3, <2>4
  <2> QED BY <1>1, <2>1, <2>2, <2>5 DEF S
<1>10. CASE Hi(in0) < Smallest(g).key
  <2>1. ASSUME NEW f \in in0 PROVE Precedes(f, g)
    <3>1. f \in Files /\ Largest(f).key < Smallest(g).key
      BY <1>2, <1>3, <1>10
    <3> QED BY <1>2, <3>1, ApartIsInOrder DEF VersionInv
  <2>2. ASSUME NEW f \in X PROVE Precedes(f, g)
    <3>1. f \in Files /\ f # g
      BY <1>1, <1>2, <1>8
    <3>2. ~(Largest(g).key <= Smallest(f).key)
      BY <1>2, <1>3, <1>4, <1>10, <3>1
    <3> QED BY <1>2, <1>7, <3>1, <3>2
  <2> DEFINE S == {f \in C : Precedes(f, g)}
  <2>3. ASSUME NEW f, NEW h, <<f, h>> \in NextBoundary(l), f \in S
        PROVE  h \in S
    <3>1. h \in C /\ ~(Precedes(f, g) /\ Precedes(g, h))
      BY <1>6, <2>3, NextIsAdjacent
    <3> QED BY <1>7, <1>8, <2>3, <3>1
  <2>4. S \in SUBSET files_[l] /\ LastOf(X) \subseteq S
    BY <1>1, <1>6, <2>2
  <2> HIDE DEF S
  <2>5. C \subseteq S
    BY <1>6, <2>3, <2>4
  <2> QED BY <1>1, <2>1, <2>2, <2>5 DEF S
<1> QED BY <1>5, <1>9, <1>10

\* Expanding the upper inputs loses none of the lower ones.
LEMMA WiderTakesMore ==
  ASSUME VersionInv, NEW l \in Levels \ {0}, SortedAt(l),
         NEW lo \in Int, NEW hi \in Int, NEW a \in Int, NEW b \in Int, a <= lo, hi <= b
  PROVE  AddBoundaryInputs(l, GetOverlappingInputs(l, lo, hi))
           \subseteq AddBoundaryInputs(l, GetOverlappingInputs(l, a, b))
PROOF
<1> DEFINE X == InRange(l, lo, hi)
           Y == InRange(l, a, b)
           S == Y \cup Chain(l, Y)
<1>1. /\ AddBoundaryInputs(l, GetOverlappingInputs(l, lo, hi)) = X \cup Chain(l, X)
      /\ AddBoundaryInputs(l, GetOverlappingInputs(l, a, b)) = S
  BY InputsByName
<1>2. /\ files_[l] \subseteq Files
      /\ \A f \in Files : /\ Smallest(f).key \in Int /\ Largest(f).key \in Int
                          /\ Smallest(f).key <= Largest(f).key
      /\ \A f, h \in Files : Precedes(f, h) =>
           Largest(f).key <= Smallest(h).key /\ Before(Largest(f), Largest(h))
  BY RangeOfFile, FilesInOrder DEF VersionInv
<1>3. X \subseteq Y /\ Y \in SUBSET files_[l] /\ X \in SUBSET files_[l] /\ LastOf(X) \subseteq X
  BY <1>2 DEF InRange, Overlaps, LastOf
<1>4. /\ Chain(l, Y) \subseteq files_[l] /\ LastOf(Y) \subseteq Chain(l, Y)
      /\ \A f, h : <<f, h>> \in NextBoundary(l) /\ f \in Chain(l, Y) => h \in Chain(l, Y)
  BY <1>3, ChainIsClosure
<1>5. \A f \in files_[l] : f \in Y <=> Largest(f).key >= a /\ Smallest(f).key <= b
  BY DEF InRange, Overlaps
<1> HIDE DEF X, Y
<1>6. ASSUME NEW f, NEW h, <<f, h>> \in NextBoundary(l), f \in Y, f \notin Chain(l, Y)
      PROVE  h \in Y
  <2>1. /\ f \in files_[l] /\ h \in files_[l] /\ f \in Files /\ h \in Files
        /\ Precedes(f, h) /\ Smallest(h).key = Largest(f).key
        /\ \A x \in files_[l] : ~(Precedes(f, x) /\ Precedes(x, h))
    BY <1>2, <1>6, NextIsAdjacent
  <2>2. PICK m \in Y : m # f /\ ~Before(Largest(m), Largest(f))
    BY <1>4, <1>6 DEF LastOf
  <2>3. m \in files_[l] /\ m \in Files /\ Precedes(f, m)
    BY <1>2, <1>3, <2>1, <2>2 DEF SortedAt
  <2>4. m = h \/ Precedes(h, m)
    BY <2>1, <2>3 DEF SortedAt
  <2>5. Smallest(h).key <= Smallest(m).key
    BY <1>2, <2>1, <2>3, <2>4
  <2> QED BY <1>2, <1>5, <1>6, <2>1, <2>3, <2>5
<1>7. S \in SUBSET files_[l] /\ LastOf(X) \subseteq S
  BY <1>3, <1>4
<1>8. \A f, h : <<f, h>> \in NextBoundary(l) /\ f \in S => h \in S
  BY <1>4, <1>6
<1> HIDE DEF S
<1>9. Chain(l, X) \subseteq S
  BY <1>3, <1>7, <1>8, ChainIsClosure
<1> QED BY <1>1, <1>3, <1>9 DEF S

\* No file of the level is between the files in X, or at level 0 overlaps one.
Whole(l, X) ==
  IF l = 0 THEN \A r \in Touching : r[1] \in X => r[2] \in X
  ELSE \A f, h \in X, g \in files_[l] : Precedes(f, g) /\ Precedes(g, h) => g \in X

\* GetOverlappingInputs leaves out no file between those it takes.
LEMMA OverlappingIsWhole ==
  ASSUME VersionInv, NEW l \in Levels, NEW lo \in Int, NEW hi \in Int
  PROVE  Whole(l, GetOverlappingInputs(l, lo, hi))
PROOF
<1>1. CASE l = 0
  <2>1. InRange(0, lo, hi) \in SUBSET files_[0] /\ Touching \in SUBSET (files_[0] \X files_[0])
    BY DEF InRange, Touching
  <2> QED BY <1>1, <2>1, InputsByName, ReachedIsClosure DEF Whole
<1>2. CASE l # 0
  <2>1. /\ files_[l] \subseteq Files
        /\ \A f \in Files : /\ Smallest(f).key \in Int /\ Largest(f).key \in Int
                            /\ Smallest(f).key <= Largest(f).key
        /\ \A f, h \in Files : Precedes(f, h) => Largest(f).key <= Smallest(h).key
    BY RangeOfFile, FilesInOrder DEF VersionInv
  <2>2. \A f : f \in GetOverlappingInputs(l, lo, hi) <=>
              f \in files_[l] /\ Largest(f).key >= lo /\ Smallest(f).key <= hi
    BY <1>2, InputsByName, Zenon DEF InRange, Overlaps
  <2>3. ASSUME NEW f \in files_[l], NEW h \in files_[l], NEW g \in files_[l],
               Largest(f).key >= lo, Smallest(h).key <= hi, Precedes(f, g), Precedes(g, h)
        PROVE  Largest(g).key >= lo /\ Smallest(g).key <= hi
    <3>1. Largest(f).key <= Smallest(g).key /\ Largest(g).key <= Smallest(h).key
      BY <2>1, <2>3
    <3> QED BY <2>1, <2>3, <3>1
  <2> QED BY <1>2, <2>2, <2>3, Zenon DEF Whole
<1> QED BY <1>1, <1>2

\* The files of X hold the oldest entries of their keys at level l.
OldestOf(l, X) ==
  \A g \in files_[l] \ X : \A e \in g, d \in UNION X : e.key = d.key => e.seq > d.seq

\* "If there is a file in level files with the smallest user key [...] we must
\* add it" (AddBoundaryInputs): no file that is left behind at the level has
\* an older entry of a user key that is taken.
LEMMA BoundaryIsOldest ==
  ASSUME VersionInv, NEW l \in Levels, l # 0 => SortedAt(l),
         NEW X \in SUBSET files_[l], Whole(l, X)
  PROVE  OldestOf(l, AddBoundaryInputs(l, X))
PROOF
<1> DEFINE C == Chain(l, X)
           A == X \cup C
<1>1. AddBoundaryInputs(l, X) = A
  BY InputsByName
<1>2. /\ files_[l] \subseteq Files
      /\ \A f \in Files : /\ Smallest(f).key \in Int /\ Largest(f).key \in Int
                          /\ Smallest(f).key <= Largest(f).key
                          /\ Smallest(f) \in written /\ Largest(f) \in written
      /\ \A f, h \in Files : Precedes(f, h) =>
           /\ Largest(f).key <= Smallest(h).key /\ Before(Largest(f), Smallest(h))
           /\ Before(Largest(f), Largest(h)) /\ ~Precedes(h, f) /\ f # h
  BY RangeOfFile, FilesInOrder, EndsOfFile DEF VersionInv, Files
<1>3. /\ C \subseteq files_[l] /\ LastOf(X) \subseteq C
      /\ \A f, h : <<f, h>> \in NextBoundary(l) /\ f \in C => h \in C
      /\ \A S \in SUBSET files_[l] :
           LastOf(X) \subseteq S /\ (\A f, h : <<f, h>> \in NextBoundary(l) /\ f \in S => h \in S)
           => C \subseteq S
  BY ChainIsClosure
<1> HIDE DEF C
<1>4. SUFFICES ASSUME NEW g \in files_[l], g \notin A, NEW h \in A, NEW e \in g, NEW d \in h,
                      e.key = d.key, ~(e.seq > d.seq)
               PROVE  FALSE
  BY <1>1 DEF OldestOf
<1>5. /\ g \in Files /\ h \in Files /\ h \in files_[l] /\ g # h
      /\ e \in written /\ d \in written
      /\ Smallest(g).key <= e.key /\ e.key <= Largest(g).key
      /\ Smallest(h).key <= d.key /\ d.key <= Largest(h).key
      /\ e.key \in Int /\ e.seq \in Nat /\ d.seq \in Nat
  BY <1>2, <1>3, <1>4, RangeOfFile DEF VersionInv, Files
<1>6. CASE l = 0
  <2>1. \A f, x \in files_[0] : f \in X /\ Overlaps(x, Smallest(f).key, Largest(f).key) => x \in X
    <3> SUFFICES ASSUME NEW f \in files_[0], NEW x \in files_[0], f \in X,
                        Overlaps(x, Smallest(f).key, Largest(f).key)
                 PROVE  x \in X
      OBVIOUS
    <3>1. <<f, x>> \in Touching
      BY DEF Touching
    <3> QED BY <1>6, <3>1, Zenon DEF Whole
  <2>2. ASSUME NEW f, NEW x, <<f, x>> \in NextBoundary(l), f \in X
        PROVE  x \in X
    <3>1. f \in files_[0] /\ x \in files_[0] /\ Smallest(x).key = Largest(f).key
      BY <1>6, <2>2, NextIsAdjacent
    <3> QED BY <1>2, <1>6, <2>1, <2>2, <3>1 DEF Overlaps
  <2>3. C \subseteq X
    BY <1>3, <2>2 DEF LastOf
  <2>4. Overlaps(g, Smallest(h).key, Largest(h).key)
    BY <1>2, <1>4, <1>5 DEF Overlaps
  <2> QED BY <1>4, <1>5, <1>6, <2>1, <2>3, <2>4
<1>7. CASE l # 0
  <2>1. Precedes(h, g)
    <3>1. ~Precedes(g, h)
      BY <1>4, <1>5 DEF Precedes, Before
    <3> QED BY <1>5, <1>7, <3>1 DEF SortedAt
  <2> DEFINE U == {f \in A : Precedes(f, g)}
  <2>2. PICK b \in U : \A f \in U : ~Before(Largest(b), Largest(f))
    <3>1. IsFiniteSet(U) /\ U \subseteq Files /\ U # {}
      <4>1. IsFiniteSet(SUBSET written)
        BY FS_SUBSET DEF VersionInv, Ordered
      <4> QED BY <1>2, <1>3, <1>4, <2>1, <4>1, FS_Subset DEF Files
    <3> DEFINE R == {r \in U \X U : Before(Largest(r[2]), Largest(r[1]))}
    <3>2. \A f, x \in U : <<f, x>> \in R <=> Before(Largest(x), Largest(f))
      OBVIOUS
    <3>3. \A f \in U : Largest(f) \in written
      BY <1>2, <3>1
    <3>4. /\ \A x \in written : ~Before(x, x)
          /\ \A x, y, z \in written : Before(x, y) /\ Before(y, z) => Before(x, z)
      BY BeforeIsOrder DEF VersionInv
    <3> HIDE DEF R, U
    <3>5. /\ \A x \in U : <<x, x>> \notin R
          /\ \A x, y, z \in U : <<x, y>> \in R /\ <<y, z>> \in R => <<x, z>> \in R
      BY <3>2, <3>3, <3>4, Zenon
    <3>6. \E x \in U : \A y \in U : <<y, x>> \notin R
      BY <3>1, <3>5, MinimalElement
    <3> QED BY <3>2, <3>6, Zenon
  <2>3. /\ b \in A /\ b \in files_[l] /\ b \in Files /\ Precedes(b, g)
        /\ Largest(b).key = Smallest(g).key /\ Before(Largest(b), Smallest(g))
    <3>1. b \in A /\ b \in files_[l] /\ b \in Files /\ Precedes(b, g) /\ h \in U
      BY <1>2, <1>3, <1>4, <2>1, <2>2
    <3>2. Largest(h).key = Smallest(g).key
      BY <1>2, <1>4, <1>5, <2>1
    <3>3. Largest(b).key <= Smallest(g).key /\ Before(Largest(b), Smallest(g))
      BY <1>2, <1>5, <3>1
    <3>4. Largest(h).key <= Largest(b).key
      BY <1>2, <1>5, <2>2, <3>1 DEF Before
    <3> QED BY <1>2, <1>5, <3>1, <3>2, <3>3, <3>4
  <2>4. CASE b \in C
    <3>1. g \in Boundary(l, b)
      BY <2>3 DEF Boundary
    <3>2. PICK c \in Boundary(l, b) : \A x \in Boundary(l, b) : x = c \/ Before(Smallest(c), Smallest(x))
      <4>1. Boundary(l, b) \subseteq Files /\ Boundary(l, b) \subseteq files_[l]
        BY <1>2 DEF Boundary
      <4>2. IsFiniteSet(Boundary(l, b))
        BY <4>1, FS_SUBSET, FS_Subset, Zenon DEF Files, VersionInv, Ordered
      <4> DEFINE Q == Boundary(l, b)
                 R == {r \in Q \X Q : Precedes(r[1], r[2])}
      <4>3. \A x, y \in Q : <<x, y>> \in R <=> Precedes(x, y)
        OBVIOUS
      <4>4. /\ \A x \in Q : ~Precedes(x, x)
            /\ \A x, y, z \in Q : Precedes(x, y) /\ Precedes(y, z) => Precedes(x, z)
        BY <1>2, <4>1, PrecedesIsTransitive DEF VersionInv
      <4>5. \A x, y \in Q : x = y \/ Precedes(x, y) \/ Precedes(y, x)
        BY <1>7, <4>1, Zenon DEF SortedAt
      <4> HIDE DEF Q, R
      <4>6. PICK c \in Q : \A y \in Q : <<y, c>> \notin R
        <5>1. /\ \A x \in Q : <<x, x>> \notin R
              /\ \A x, y, z \in Q : <<x, y>> \in R /\ <<y, z>> \in R => <<x, z>> \in R
          BY <4>3, <4>4, Zenon
        <5>2. IsFiniteSet(Q) /\ Q # {}
          BY <3>1, <4>2 DEF Q
        <5> QED BY <5>1, <5>2, MinimalElement
      <4>7. \A x \in Q : x = c \/ Precedes(c, x)
        BY <4>3, <4>5, <4>6, Zenon
      <4>8. \A x, y \in Q : Precedes(x, y) => Before(Smallest(x), Smallest(y))
        BY <4>1, FilesInOrder DEF Q, VersionInv
      <4> QED BY <4>6, <4>7, <4>8, Zenon DEF Q
    <3>3. /\ c \in files_[l] /\ c \in Files /\ Before(Largest(b), Smallest(c))
          /\ <<b, c>> \in NextBoundary(l)
      BY <1>2, <2>3, <3>2, Zenon DEF Boundary, NextBoundary
    <3>4. c \in C /\ c # g /\ Precedes(b, c)
      BY <1>3, <1>4, <2>4, <3>3, NextIsAdjacent, Zenon
    <3>5. ~Precedes(g, c)
      BY <2>3, <1>5, <3>3, NextIsAdjacent, Zenon
    <3>6. c \in U /\ Before(Largest(b), Largest(c))
      BY <1>2, <1>5, <1>7, <2>3, <3>3, <3>4, <3>5 DEF SortedAt
    <3> QED BY <2>2, <3>6
  <2>5. CASE b \notin C
    <3>1. b \in X /\ b \notin LastOf(X)
      BY <1>3, <2>3, <2>5
    <3>2. PICK m \in X : m # b /\ ~Before(Largest(m), Largest(b))
      BY <3>1 DEF LastOf
    <3>3. m \in files_[l] /\ m \in Files /\ m # g /\ m \in A
      BY <1>2, <1>4
    <3>4. Precedes(b, m)
      BY <1>2, <1>7, <2>3, <3>2, <3>3, Zenon DEF SortedAt
    <3>5. ~Precedes(m, g)
      BY <1>2, <2>2, <2>3, <3>3, <3>4
    <3>6. Precedes(g, m)
      BY <1>5, <1>7, <3>3, <3>5 DEF SortedAt
    <3> QED BY <1>4, <1>7, <2>3, <3>1, <3>6 DEF Whole
  <2> QED BY <2>4, <2>5
<1> QED BY <1>6, <1>7
==============================================================================
