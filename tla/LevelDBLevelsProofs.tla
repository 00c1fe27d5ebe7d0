------------------------- MODULE LevelDBLevelsProofs -------------------------
(***************************************************************************)
(* Proof that compactions and flushes keep the levels of a database in     *)
(* order: for any keys, levels, writes and snapshots, unless a flush put a *)
(* table between the inputs of a manual compaction, the files of a level   *)
(* below the first are disjoint (Version::Builder asserts it) and what is  *)
(* further down is older (DoCompactionWork and Version::Get rely on it).   *)
(*                                                                         *)
(* Neither is inductive.  LevelsInv adds that the inputs of the compaction *)
(* that is being done stay good ones (GoodInputs) while memtables are      *)
(* flushed next to them: a flush may put its table at the output level     *)
(* only on one side of the inputs, as an automatic compaction's inputs     *)
(* leave no gap.                                                           *)
(***************************************************************************)
EXTENDS LevelDBCompactionProofs

\* The order of the levels, and a file on one side of others.
Sorted == \A l \in Levels \ {0} : SortedAt(l)
Aside(g, F) == (\A f \in F : Precedes(g, f)) \/ (\A f \in F : Precedes(f, g))

\* The files that SetupOtherInputs adds to some files without a gap.
LEMMA OtherInputsKeepNoGap ==
  ASSUME VersionInv, NEW l \in Levels, NEW F \in SUBSET Files, NoGap(F),
         NEW H \in SUBSET F, H # {}
  PROVE  NoGap(F \cup AddBoundaryInputs(l, GetOverlappingInputs(l, Lo(H), Hi(H))))
PROOF
<1> DEFINE X == GetOverlappingInputs(l, Lo(H), Hi(H))
<1> HIDE DEF X
<1>1. X = GetOverlappingInputs(l, Lo(H), Hi(H))
  BY DEF X
<1>2. NoGap(F \cup X)
  BY <1>1, OverlappingKeepsNoGap, Zenon
<1>3. X \in SUBSET files_[l] /\ X \subseteq AddBoundaryInputs(l, X)
  BY <1>1, Zenon DEF GetOverlappingInputs, AddBoundaryInputs, Reached
<1>4. F \cup X \in SUBSET Files
  BY <1>3 DEF VersionInv
<1>5. NoGap((F \cup X) \cup AddBoundaryInputs(l, X))
  BY <1>2, <1>3, <1>4, BoundaryKeepsNoGap
<1>6. (F \cup X) \cup AddBoundaryInputs(l, X) = F \cup AddBoundaryInputs(l, X)
  BY <1>3
<1> QED BY <1>1, <1>5, <1>6, Zenon

\* Inputs of a compaction such that the files left at the level hold no older
\* entries, and those left at the next one are on one side of the inputs.
GoodInputs(l, in0, in1) ==
  /\ in0 # {} /\ in0 \in SUBSET files_[l] /\ in1 \in SUBSET files_[l + 1]
  /\ in0 \in SUBSET Files /\ in1 \in SUBSET Files
  /\ OldestOf(l, in0) /\ \A g \in files_[l + 1] \ in1 : Aside(g, in0 \cup in1)

\* The inputs at the next level.
Lower(l, in0) == AddBoundaryInputs(l + 1, GetOverlappingInputs(l + 1, Lo(in0), Hi(in0)))

\* A pair of inputs that SetupOtherInputs considers.
LEMMA PairOfInputs ==
  ASSUME VersionInv, Sorted, NEW l \in 0..kNumLevels - 2,
         NEW X \in SUBSET files_[l], X # {}, Whole(l, X),
         NEW in0, in0 = AddBoundaryInputs(l, X),
         NEW in1, in1 = Lower(l, in0)
  PROVE  GoodInputs(l, in0, in1) /\ X \in SUBSET in0 /\ Lo(in0) \in Int /\ Hi(in0) \in Int
PROOF
<1>0. l \in Levels /\ l + 1 \in Levels /\ l + 1 # 0
  BY CompactionAssumption DEF Levels
<1>1. /\ SortedAt(l + 1) /\ (l # 0 => SortedAt(l)) /\ l + 1 \in Levels \ {0}
      /\ files_[l] \subseteq Files /\ files_[l + 1] \subseteq Files
  BY <1>0, Zenon DEF Sorted, VersionInv
<1>2. /\ \A i, lo, hi : GetOverlappingInputs(i, lo, hi) \in SUBSET files_[i]
      /\ \A i : \A F \in SUBSET files_[i] :
           F \subseteq AddBoundaryInputs(i, F) /\ AddBoundaryInputs(i, F) \subseteq files_[i]
  BY Zenon DEF GetOverlappingInputs, AddBoundaryInputs, Reached
<1>3. X \in SUBSET in0 /\ in0 # {} /\ in0 \in SUBSET files_[l] /\ in1 \in SUBSET files_[l + 1]
  BY <1>2 DEF Lower
<1>4. in0 \in SUBSET Files /\ in1 \in SUBSET Files
  BY <1>1, <1>3
<1>5. Lo(in0) \in Int /\ Hi(in0) \in Int
  BY <1>3, <1>4, RangeOfFiles DEF VersionInv
<1>6. OldestOf(l, in0)
  BY <1>0, <1>1, BoundaryIsOldest
<1>7. ASSUME NEW g \in files_[l + 1] \ in1 PROVE Aside(g, in0 \cup in1)
  BY <1>1, <1>3, <1>4, <1>7, RestIsAside DEF Aside, Lower
<1> QED BY <1>3, <1>4, <1>5, <1>6, <1>7, Zenon DEF GoodInputs

\* What SetupOtherInputs chooses, expanded or not: a pair of inputs as above,
\* without a gap if the files that it starts from have none.
LEMMA InputsAreChosenWell ==
  ASSUME VersionInv, Sorted, NEW l \in 0..kNumLevels - 2,
         NEW chosen \in SUBSET files_[l], chosen # {}, Whole(l, chosen),
         NEW in \in SetupOtherInputs(l, chosen)
  PROVE  GoodInputs(l, in[1], in[2]) /\ (NoGap(chosen) => NoGap(in[1] \cup in[2]))
PROOF
<1> DEFINE in0 == AddBoundaryInputs(l, chosen)
           in1 == Lower(l, in0)
           all == in0 \cup in1
           G == GetOverlappingInputs(l, Lo(all), Hi(all))
           ex0 == AddBoundaryInputs(l, G)
           ex1 == Lower(l, ex0)
<1> HIDE DEF in0, in1, all, G, ex0, ex1
<1>1. in = <<in0, in1>> \/ in = <<ex0, ex1>>
  BY Zenon DEF SetupOtherInputs, Lower, in0, in1, all, G, ex0, ex1
<1>2. l \in Levels /\ l + 1 \in Levels /\ l + 1 \in Levels \ {0} /\ SortedAt(l + 1)
  BY CompactionAssumption DEF Levels, Sorted
<1>3. /\ in0 = AddBoundaryInputs(l, chosen) /\ ex0 = AddBoundaryInputs(l, G)
      /\ in1 = Lower(l, in0) /\ ex1 = Lower(l, ex0)
      /\ G = GetOverlappingInputs(l, Lo(all), Hi(all)) /\ all = in0 \cup in1
  <2>1. in0 = AddBoundaryInputs(l, chosen) /\ in1 = Lower(l, in0)
    BY Zenon DEF in0, in1
  <2>2. all = in0 \cup in1 /\ G = GetOverlappingInputs(l, Lo(all), Hi(all))
    BY Zenon DEF all, G
  <2>3. ex0 = AddBoundaryInputs(l, G) /\ ex1 = Lower(l, ex0)
    BY Zenon DEF ex0, ex1
  <2> QED BY <2>1, <2>2, <2>3
<1>4. GoodInputs(l, in0, in1) /\ chosen \in SUBSET in0 /\ Lo(in0) \in Int /\ Hi(in0) \in Int
  BY <1>3, PairOfInputs
<1>a. /\ in0 # {} /\ in0 \in SUBSET files_[l] /\ in0 \in SUBSET Files /\ in1 \in SUBSET Files
  BY <1>4 DEF GoodInputs
<1>5. all # {} /\ all \in SUBSET Files /\ in0 \in SUBSET all
  BY <1>3, <1>4, <1>a
<1>6. /\ Lo(all) \in Int /\ Hi(all) \in Int
      /\ \A f \in all : Lo(all) <= Smallest(f).key /\ Largest(f).key <= Hi(all)
  BY <1>5, RangeOfFiles DEF VersionInv
<1>7. in0 \in SUBSET G /\ G \in SUBSET files_[l] /\ G # {}
  <2>1. \A f \in in0 : Overlaps(f, Lo(all), Hi(all))
    BY <1>4, <1>a, <1>5, <1>6, RangeOfFile DEF Overlaps, VersionInv
  <2>2. in0 \subseteq InRange(l, Lo(all), Hi(all))
    BY <1>4, <1>a, <2>1 DEF InRange
  <2>3. InRange(l, Lo(all), Hi(all)) \subseteq G /\ G \in SUBSET files_[l]
    BY <1>3, InputsByName DEF Reached, InRange
  <2> QED BY <1>4, <1>a, <2>2, <2>3
<1>8. Whole(l, G)
  BY <1>2, <1>3, <1>6, OverlappingIsWhole
<1>9. GoodInputs(l, ex0, ex1) /\ G \in SUBSET ex0 /\ Lo(ex0) \in Int /\ Hi(ex0) \in Int
  <2>1. ex0 = AddBoundaryInputs(l, G) /\ ex1 = Lower(l, ex0) /\ G \in SUBSET files_[l] /\ G # {}
    BY <1>3, <1>7, Zenon
  <2> QED BY <1>8, <2>1, PairOfInputs
<1>b. ex0 # {} /\ ex0 \in SUBSET Files /\ ex1 \in SUBSET Files
  BY <1>9 DEF GoodInputs
<1>10. in1 \subseteq ex1
  <2>1. \A f \in ex0 : Lo(ex0) <= Smallest(f).key /\ Largest(f).key <= Hi(ex0)
    BY <1>9, <1>b, RangeOfFiles DEF VersionInv
  <2>2. (\E f \in in0 : Smallest(f).key = Lo(in0)) /\ (\E f \in in0 : Largest(f).key = Hi(in0))
    BY <1>4, <1>a, RangeOfFiles DEF VersionInv
  <2>3. Lo(ex0) <= Lo(in0) /\ Hi(in0) <= Hi(ex0)
    BY <1>7, <1>9, <1>b, <2>1, <2>2
  <2> DEFINE a == Lo(in0)
             b == Hi(in0)
             c == Lo(ex0)
             d == Hi(ex0)
  <2> HIDE DEF a, b, c, d
  <2>4. a \in Int /\ b \in Int /\ c \in Int /\ d \in Int /\ c <= a /\ b <= d
    BY <1>4, <1>a, <1>9, <1>b, <2>3 DEF a, b, c, d
  <2>5. AddBoundaryInputs(l + 1, GetOverlappingInputs(l + 1, a, b))
          \subseteq AddBoundaryInputs(l + 1, GetOverlappingInputs(l + 1, c, d))
    BY <1>2, <2>4, WiderTakesMore
  <2> QED BY <1>3, <2>5, Zenon DEF Lower, a, b, c, d
<1>11. ASSUME NoGap(chosen)
       PROVE  NoGap(in0 \cup in1) /\ NoGap(ex0 \cup ex1)
  <2>1. NoGap(in0)
    <3>1. NoGap(chosen \cup AddBoundaryInputs(l, chosen))
      BY <1>2, <1>4, <1>a, <1>11, BoundaryKeepsNoGap
    <3>2. chosen \cup AddBoundaryInputs(l, chosen) = in0
      BY <1>3, <1>4, <1>a
    <3> QED BY <3>1, <3>2, Zenon
  <2>2. NoGap(all)
    BY <1>2, <1>3, <1>4, <1>a, <2>1, OtherInputsKeepNoGap DEF Lower
  <2>3. NoGap(all \cup ex0)
    BY <1>2, <1>3, <1>5, <2>2, OtherInputsKeepNoGap
  <2> DEFINE F == all \cup ex0
  <2>4. F \in SUBSET Files /\ ex0 \in SUBSET F /\ NoGap(F)
    BY <1>5, <1>9, <1>b, <2>3
  <2> HIDE DEF F
  <2>5. NoGap(F \cup ex1)
    BY <1>2, <1>3, <1>b, <2>4, OtherInputsKeepNoGap, Zenon DEF Lower
  <2>6. all \subseteq ex0 \cup ex1
    <3>1. in0 \subseteq ex0
      BY <1>7, <1>9
    <3> QED BY <1>3, <1>10, <3>1, Zenon
  <2>7. F \cup ex1 = ex0 \cup ex1
    BY <2>6 DEF F
  <2> QED BY <1>3, <2>2, <2>5, <2>7, Zenon
<1>12. CASE in = <<in0, in1>>
  BY <1>4, <1>a, <1>11, <1>12
<1>13. CASE in = <<ex0, ex1>>
  BY <1>9, <1>b, <1>11, <1>13
<1> QED BY <1>1, <1>12, <1>13

-----------------------------------------------------------------------------
(* The inductive invariant of the levels                                   *)

\* What is in memory and in files was written, and numbered in turn.
StoredInv ==
  /\ VersionInv /\ mem_ \subseteq written /\ imm_ \subseteq written
  /\ \A e \in written : e.seq <= LastSequence

\* NewestOnTop without the gaps.
Layer(i) == IF i = -2 THEN mem_ ELSE IF i = -1 THEN imm_ ELSE UNION files_[i]
Over(i, j) == \A e \in Layer(i), d \in Layer(j) : e.key = d.key => e.seq > d.seq
OnTop == \A i, j \in -2..kNumLevels - 1 : i < j => Over(i, j)

\* The inputs of the compaction that is being done are still good ones, and no
\* table can come between those of an automatic one.
Upper == compaction.inputs[0]
Under == compaction.inputs[1]
WorkInv ==
  Running => /\ GoodInputs(compaction.level, Upper, Under)
             /\ ~compaction.is_manual => NoGap(Upper \cup Under)

LevelsInv == StoredInv /\ Sorted /\ OnTop /\ WorkInv

-----------------------------------------------------------------------------
(* Files that move down                                                    *)

\* Taking the oldest entries of a level to the next one keeps the newest on
\* top.
LEMMA MoveDown ==
  ASSUME OnTop, NEW l \in 0..kNumLevels - 2, NEW in0 \in SUBSET files_[l], OldestOf(l, in0),
         UNCHANGED <<mem_, imm_>>, \A i \in Levels \ {l, l + 1} : files_'[i] = files_[i],
         files_'[l] = files_[l] \ in0,
         UNION files_'[l + 1] \subseteq (UNION files_[l + 1]) \cup UNION in0
  PROVE  OnTop'
PROOF
<1>1. kNumLevels \in Nat /\ l \in Int
  BY CompactionAssumption
<1>2. /\ \A i \in -2..kNumLevels - 1 : i # l + 1 => Layer(i)' \subseteq Layer(i)
      /\ Layer(l + 1)' \subseteq Layer(l + 1) \cup UNION in0
      /\ UNION in0 \subseteq Layer(l)
  BY <1>1 DEF Layer, Levels
<1>3. \A e \in Layer(l)', d \in UNION in0 : e.key = d.key => e.seq > d.seq
  BY <1>1 DEF Layer, OldestOf
<1> SUFFICES ASSUME NEW i \in -2..kNumLevels - 1, NEW j \in -2..kNumLevels - 1, i < j,
                    NEW e \in Layer(i)', NEW d \in Layer(j)', e.key = d.key
             PROVE  e.seq > d.seq
  BY Zenon DEF OnTop, Over
<1>4. CASE i # l + 1 /\ j # l + 1
  BY <1>2, <1>4 DEF OnTop, Over
<1>5. CASE j = l + 1
  <2>1. e \in Layer(i) /\ (d \in Layer(j) \/ d \in UNION in0)
    BY <1>1, <1>2, <1>5
  <2>2. CASE d \in Layer(j)
    BY <2>1, <2>2 DEF OnTop, Over
  <2>3. CASE d \in UNION in0 /\ i = l
    BY <1>3, <2>3
  <2>4. CASE d \in UNION in0 /\ i # l
    <3>1. i < l /\ l \in -2..kNumLevels - 1 /\ d \in Layer(l)
      BY <1>1, <1>2, <1>5, <2>4
    <3> QED BY <2>1, <3>1 DEF OnTop, Over
  <2> QED BY <2>1, <2>2, <2>3, <2>4
<1>6. CASE i = l + 1
  <2>1. d \in Layer(j) /\ (e \in Layer(i) \/ e \in Layer(l)) /\ l < j /\ l \in -2..kNumLevels - 1
    BY <1>1, <1>2, <1>6
  <2> QED BY <2>1 DEF OnTop, Over
<1> QED BY <1>4, <1>5, <1>6

\* What InstallCompactionResults and a trivial move do to the version.
LEMMA InstallStep ==
  ASSUME VersionInv, Sorted, OnTop, NEW l \in 0..kNumLevels - 2, NEW in0, NEW in1,
         GoodInputs(l, in0, in1), NEW out \in SUBSET Files,
         \A f, g \in out : f = g \/ Precedes(f, g) \/ Precedes(g, f),
         UNION out \subseteq UNION (in0 \cup in1),
         DOMAIN files_ = Levels,
         files_' = [files_ EXCEPT ![l] = @ \ in0, ![l + 1] = (@ \ in1) \cup out],
         UNCHANGED <<mem_, imm_, written>>
  PROVE  VersionInv' /\ Sorted' /\ OnTop'
PROOF
<1>1. /\ kNumLevels \in Nat /\ l \in Levels /\ l + 1 \in Levels /\ l \in Int /\ l + 1 # 0 /\ l + 1 # l
  BY CompactionAssumption DEF Levels
<1>2. /\ files_'[l] = files_[l] \ in0 /\ files_'[l + 1] = (files_[l + 1] \ in1) \cup out
      /\ \A i \in Levels \ {l, l + 1} : files_'[i] = files_[i]
  BY <1>1
<1>3. /\ in0 \in SUBSET files_[l] /\ in1 \in SUBSET files_[l + 1] /\ OldestOf(l, in0)
      /\ \A g \in files_[l + 1] \ in1 : Aside(g, in0 \cup in1)
  BY Zenon DEF GoodInputs
<1>4. VersionInv'
  <2>1. Files' = Files /\ Ordered(written)' /\ \A i \in Levels : files_[i] \subseteq Files
    BY DEF VersionInv, Files, Ordered
  <2>2. \A i \in Levels : files_'[i] \subseteq Files
    BY <1>1, <1>2, <2>1
  <2> QED BY <2>1, <2>2 DEF VersionInv, Levels
<1>5. OnTop'
  BY <1>2, <1>3, MoveDown, Zenon
<1>6. \A g \in files_[l + 1] \ in1, o \in out : Precedes(g, o) \/ Precedes(o, g)
  <2> SUFFICES ASSUME NEW g \in files_[l + 1] \ in1, NEW o \in out
               PROVE  Precedes(g, o) \/ Precedes(o, g)
    OBVIOUS
  <2>1. \A d \in o : \E f \in in0 \cup in1 : d \in f
    OBVIOUS
  <2>2. Aside(g, in0 \cup in1)
    BY <1>3, Zenon
  <2> QED BY <2>1, <2>2, Zenon DEF Aside, Precedes
<1>7. ASSUME NEW i \in Levels \ {0} PROVE SortedAt(i)'
  <2>1. SortedAt(i)
    BY <1>7 DEF Sorted
  <2>2. CASE i # l + 1
    <3>1. files_'[i] \subseteq files_[i]
      BY <1>2, <2>2
    <3> QED BY <2>1, <3>1 DEF SortedAt
  <2>3. CASE i = l + 1
    <3>1. \A f \in files_'[i] : f \in files_[l + 1] \ in1 \/ f \in out
      BY <1>2, <2>3
    <3> QED BY <1>6, <2>1, <2>3, <3>1, Zenon DEF SortedAt
  <2> QED BY <2>2, <2>3
<1> QED BY <1>4, <1>5, <1>7 DEF Sorted, Levels

\* DoCompactionWork writes the output files one after the other, in order.
LEMMA OutputsAreInOrder ==
  ASSUME NEW entries \in SUBSET written, Ordered(written), NEW out \in Outputs(entries)
  PROVE  /\ out \in SUBSET Files /\ UNION out \subseteq entries
         /\ \A f, g \in out : f = g \/ Precedes(f, g) \/ Precedes(g, f)
PROOF
<1>1. PICK cuts \in SUBSET entries :
        out = {{e \in entries : {c \in cuts : Before(c, e)} = {c \in cuts : Before(c, d)}} : d \in entries}
  BY Zenon DEF Outputs
<1> DEFINE Cut(e) == {c \in cuts : Before(c, e)}
           Part(d) == {e \in entries : Cut(e) = Cut(d)}
<1>2. out = {Part(d) : d \in entries}
  BY <1>1, Zenon
<1>3. \A d \in entries : Part(d) \in Files /\ Part(d) \subseteq entries
  BY DEF Files
<1>4. \A c, d, e \in written : Before(c, d) /\ Before(d, e) => Before(c, e)
  BY BeforeIsOrder
<1>5. \A d, e \in entries : d = e \/ Before(d, e) \/ Before(e, d)
  BY BeforeIsOrder
<1>6. \A d, e \in entries : Before(d, e) => Cut(d) \subseteq Cut(e)
  BY <1>4, Zenon
<1>7. \A d, e \in entries : e \in Part(d) <=> Cut(e) = Cut(d)
  OBVIOUS
<1> HIDE DEF Cut, Part
<1>8. ASSUME NEW d \in entries, NEW e \in entries, Cut(d) \subseteq Cut(e), Cut(d) # Cut(e)
      PROVE  Precedes(Part(d), Part(e))
  <2> SUFFICES ASSUME NEW x \in Part(d), NEW y \in Part(e) PROVE Before(x, y)
    BY Zenon DEF Precedes
  <2>1. x \in entries /\ y \in entries /\ Cut(x) = Cut(d) /\ Cut(y) = Cut(e)
    BY <1>3, <1>7
  <2>2. x # y /\ ~(Cut(y) \subseteq Cut(x))
    BY <1>8, <2>1, Zenon
  <2> QED BY <1>5, <1>6, <2>1, <2>2, Zenon
<1>9. ASSUME NEW d \in entries, NEW e \in entries
      PROVE  Part(d) = Part(e) \/ Precedes(Part(d), Part(e)) \/ Precedes(Part(e), Part(d))
  <2>1. Cut(d) \subseteq Cut(e) \/ Cut(e) \subseteq Cut(d)
    BY <1>5, <1>6
  <2>2. Cut(d) = Cut(e) => Part(d) = Part(e)
    BY Zenon DEF Part
  <2> QED BY <1>8, <2>1, <2>2
<1> QED BY <1>2, <1>3, <1>9

-----------------------------------------------------------------------------
(* The steps                                                               *)

\* A step that leaves the files, what was written and the compaction alone.
LEMMA SameVersion ==
  ASSUME LevelsInv, UNCHANGED <<mem_, imm_, files_, compaction, written>>
  PROVE  LevelsInv'
PROOF
<1>1. StoredInv'
  BY DEF LevelsInv, StoredInv, VersionInv, Ordered, Files, LastSequence, Levels
<1>2. Sorted' /\ OnTop'
  BY DEF LevelsInv, Sorted, SortedAt, OnTop, Over, Layer, Levels
<1>3. WorkInv'
  BY Zenon DEF LevelsInv, WorkInv, Running, Upper, Under, GoodInputs, OldestOf, Files
<1> QED BY <1>1, <1>2, <1>3 DEF LevelsInv

\* DBImpl::Write: the new entry is the newest of all.
LEMMA WriteStep ==
  ASSUME CompactionInv, LevelsInv, NEW k \in workload.keys, NEW del \in BOOLEAN, Write(k, del)
  PROVE  LevelsInv'
PROOF
<1> DEFINE e == [key |-> k, seq |-> LastSequence + 1, del |-> del]
<1>1. /\ mem_' = mem_ \cup {e} /\ written' = written \cup {e}
      /\ UNCHANGED <<imm_, files_, compaction>>
  BY DEF Write
<1>2. LastSequence \in Nat /\ IsFiniteSet(written) /\ k \in Keys
  BY SequenceGrows, CompactionAssumption, Zenon DEF CompactionInv, TypeInv
<1>3. e \in Entry /\ e.seq = LastSequence + 1 /\ e.key = k
  BY <1>2 DEF Entry
<1> HIDE DEF e
<1>4. /\ \A d \in written : d.seq \in Nat /\ d.seq <= LastSequence
      /\ Ordered(written) /\ mem_ \subseteq written /\ imm_ \subseteq written
      /\ \A l \in Levels : files_[l] \subseteq Files
  BY DEF LevelsInv, StoredInv, VersionInv, Ordered, Entry
<1>5. \A d \in written : e.seq > d.seq
  BY <1>2, <1>3, <1>4
<1>6. LastSequence' = LastSequence + 1 /\ IsFiniteSet(written')
  <2>1. e \notin written
    BY <1>2, <1>3, <1>4
  <2> QED BY <1>1, <1>2, <2>1, FS_AddElement DEF LastSequence
<1>7. Ordered(written)'
  BY <1>1, <1>3, <1>4, <1>5, <1>6 DEF Ordered
<1>8. Files \subseteq Files'
  BY <1>1 DEF Files
<1>9. StoredInv'
  <2>1. \A d \in written' : d.seq <= LastSequence'
    BY <1>1, <1>2, <1>3, <1>4, <1>6
  <2> QED BY <1>1, <1>4, <1>7, <1>8, <2>1 DEF StoredInv, VersionInv, Levels
<1>10. Sorted'
  BY <1>1 DEF LevelsInv, Sorted, SortedAt, Levels
<1>11. OnTop'
  <2>1. /\ \A i \in -2..kNumLevels - 1 : i # -2 => Layer(i)' = Layer(i) /\ Layer(i) \subseteq written
        /\ Layer(-2)' = Layer(-2) \cup {e}
    BY <1>1, <1>4 DEF Layer, Levels, Files
  <2> SUFFICES ASSUME NEW i \in -2..kNumLevels - 1, NEW j \in -2..kNumLevels - 1, i < j
               PROVE  Over(i, j)'
    BY Zenon DEF OnTop
  <2>2. j # -2 /\ Over(i, j)
    BY DEF LevelsInv, OnTop
  <2> QED BY <1>5, <2>1, <2>2 DEF Over
<1>12. WorkInv'
  BY <1>1, <1>8, Zenon DEF LevelsInv, WorkInv, Running, Upper, Under, GoodInputs, OldestOf
<1> QED BY <1>9, <1>10, <1>11, <1>12 DEF LevelsInv

\* MakeRoomForWrite: the memtable becomes the immutable one.
LEMMA SwitchStep ==
  ASSUME CompactionInv, LevelsInv, SwitchMemTable
  PROVE  LevelsInv'
PROOF
<1>1. imm_' = mem_ /\ mem_' = {} /\ UNCHANGED <<files_, compaction, written>>
  BY DEF SwitchMemTable
<1>2. StoredInv' /\ Sorted'
  BY <1>1 DEF LevelsInv, StoredInv, VersionInv, Ordered, Files, LastSequence, Levels, Sorted, SortedAt
<1>3. WorkInv'
  BY <1>1, Zenon DEF LevelsInv, WorkInv, Running, Upper, Under, GoodInputs, OldestOf, Files
<1>4. OnTop'
  <2>1. /\ \A i \in -2..kNumLevels - 1 : i > -1 => Layer(i)' = Layer(i)
        /\ Layer(-2)' = {} /\ Layer(-1)' = Layer(-2) /\ -2 \in -2..kNumLevels - 1
    BY <1>1, CompactionAssumption DEF Layer
  <2> SUFFICES ASSUME NEW i \in -2..kNumLevels - 1, NEW j \in -2..kNumLevels - 1, i < j
               PROVE  Over(i, j)'
    BY Zenon DEF OnTop
  <2>2. CASE i = -2
    BY <2>1, <2>2 DEF Over
  <2>3. CASE i = -1
    BY <2>1, <2>3 DEF LevelsInv, OnTop, Over
  <2>4. CASE i > -1
    BY <2>1, <2>4 DEF LevelsInv, OnTop, Over
  <2> QED BY <2>2, <2>3, <2>4
<1> QED BY <1>2, <1>3, <1>4 DEF LevelsInv

\* PickLevelForMemTableOutput: above the level that it picks, and at it unless
\* it is level 0, no file overlaps the memtable.
LEMMA PickedLevelIsFree ==
  ASSUME NEW lo, NEW hi, NEW l \in PickLevelForMemTableOutput(lo, hi)
  PROVE  /\ l \in Levels
         /\ l # 0 => \A i \in 0..l : \A f \in files_[i] : ~Overlaps(f, lo, hi)
PROOF
<1>1. kMaxMemCompactLevel \in 0..kNumLevels - 1 /\ kNumLevels \in Nat \ {0, 1}
  BY CompactionAssumption
<1>2. CASE l = 0
  BY <1>1, <1>2 DEF Levels
<1>3. CASE l # 0
  BY <1>1, <1>3 DEF PickLevelForMemTableOutput, Levels, OverlapInLevel
<1> QED BY <1>2, <1>3

\* A file whose range meets none of the inputs is on one side of all of them,
\* when they have no gap or when it is outside their range.
LEMMA FlushedIsAside ==
  ASSUME Ordered(written), NEW f \in Files, NEW F \in SUBSET Files, F # {},
         \A g \in F : ~Overlaps(g, Smallest(f).key, Largest(f).key),
         NoGap(F) \/ ~(Smallest(f).key <= Hi(F) /\ Largest(f).key >= Lo(F))
  PROVE  Aside(f, F)
PROOF
<1>1. /\ \A g \in Files : /\ Smallest(g).key \in Int /\ Largest(g).key \in Int
                          /\ Smallest(g).key <= Largest(g).key
      /\ Smallest(f).key \in Keys /\ Largest(f).key \in Keys
  BY RangeOfFile
<1>2. /\ Lo(F) \in Int /\ Hi(F) \in Int
      /\ \A g \in F : Lo(F) <= Smallest(g).key /\ Largest(g).key <= Hi(F)
  BY RangeOfFiles
<1>3. \/ \A g \in F : Largest(g).key < Smallest(f).key
      \/ \A g \in F : Smallest(g).key > Largest(f).key
  <2>1. CASE NoGap(F)
    BY <1>1, <2>1 DEF NoGap
  <2>2. CASE ~(Smallest(f).key <= Hi(F) /\ Largest(f).key >= Lo(F))
    BY <1>1, <1>2, <2>2
  <2> QED BY <2>1, <2>2
<1>4. CASE \A g \in F : Largest(g).key < Smallest(f).key
  BY <1>4, ApartIsInOrder DEF Aside
<1>5. CASE \A g \in F : Smallest(g).key > Largest(f).key
  <2>1. \A g \in F : Largest(f).key < Smallest(g).key
    BY <1>1, <1>5
  <2> QED BY <2>1, ApartIsInOrder DEF Aside
<1> QED BY <1>3, <1>4, <1>5

\* CompactMemTable, also in the middle of a compaction.
LEMMA FlushStep ==
  ASSUME CompactionInv, LevelsInv, CompactMemTable, ~gap'
  PROVE  LevelsInv'
PROOF
<1> DEFINE f == imm_
           lo == Smallest(f).key
           hi == Largest(f).key
<1>1. /\ f # {} /\ imm_' = {} /\ UNCHANGED <<mem_, compaction, written>>
  BY DEF CompactMemTable
<1>2. PICK l \in PickLevelForMemTableOutput(lo, hi) :
        files_' = [files_ EXCEPT ![l] = @ \cup {f}] /\ ~InGap(l, lo, hi)
  BY Zenon DEF CompactMemTable
<1>3. /\ Ordered(written) /\ f \in Files /\ Files' = Files /\ kNumLevels \in Nat
      /\ \A i \in Levels : files_[i] \subseteq Files
  BY <1>1, CompactionAssumption DEF LevelsInv, StoredInv, VersionInv, Files
<1>4. /\ l \in Levels /\ l \in Int /\ l >= 0
      /\ l # 0 => \A i \in 0..l : \A g \in files_[i] : ~Overlaps(g, lo, hi)
  BY <1>2, PickedLevelIsFree DEF Levels
<1>5. /\ files_'[l] = files_[l] \cup {f}
      /\ \A i \in Levels \ {l} : files_'[i] = files_[i]
  BY <1>2, <1>4 DEF CompactionInv, TypeInv
<1>6. \A g \in Files : /\ Smallest(g).key \in Int /\ Largest(g).key \in Int
                       /\ Smallest(g).key <= Largest(g).key
                       /\ \A d \in g : d.key \in Int /\ Smallest(g).key <= d.key /\ d.key <= Largest(g).key
  BY <1>3, RangeOfFile
<1> HIDE DEF f, lo, hi
<1>7. StoredInv'
  <2>1. \A i \in Levels : files_'[i] \subseteq Files'
    BY <1>3, <1>4, <1>5
  <2> QED BY <1>1, <2>1 DEF LevelsInv, StoredInv, VersionInv, Ordered, LastSequence, Levels
<1>8. ASSUME NEW i \in Levels \ {0} PROVE SortedAt(i)'
  <2>1. SortedAt(i)
    BY DEF LevelsInv, Sorted
  <2>2. CASE i # l
    BY <1>5, <2>1, <2>2 DEF SortedAt
  <2>3. CASE i = l
    <3>1. ASSUME NEW g \in files_[i] PROVE Precedes(f, g) \/ Precedes(g, f)
      <4>1. g \in Files /\ ~Overlaps(g, lo, hi)
        BY <1>3, <1>4, <2>3
      <4>2. Largest(g).key < lo \/ hi < Smallest(g).key
        BY <1>3, <1>6, <4>1 DEF Overlaps, lo, hi
      <4> QED BY <1>3, <4>1, <4>2, ApartIsInOrder DEF lo, hi
    <3>2. files_'[i] = files_[i] \cup {f}
      BY <1>5, <2>3
    <3> QED BY <2>1, <3>1, <3>2 DEF SortedAt
  <2> QED BY <2>2, <2>3
<1>9. OnTop'
  <2>1. /\ \A i \in -2..kNumLevels - 1 : i # l /\ i # -1 => Layer(i)' = Layer(i)
        /\ Layer(-1) = f /\ Layer(-1)' = {} /\ Layer(l)' = Layer(l) \cup f
        /\ -1 \in -2..kNumLevels - 1 /\ l \in -2..kNumLevels - 1
    <3>1. (UNION files_'[l]) = (UNION files_[l]) \cup f
      BY <1>5
    <3>2. Layer(l) = UNION files_[l] /\ Layer(l)' = UNION files_'[l]
      BY <1>4 DEF Layer
    <3>3. \A i \in -2..kNumLevels - 1 : i # l /\ i # -1 => Layer(i)' = Layer(i)
      <4>1. \A i \in -2..kNumLevels - 1 : i = -2 \/ i = -1 \/ i \in Levels
        BY <1>3 DEF Levels
      <4> QED BY <1>1, <1>5, <4>1, Zenon DEF Layer
    <3>4. Layer(-1) = f /\ Layer(-1)' = {}
      BY <1>1 DEF Layer, f
    <3>5. -1 \in -2..kNumLevels - 1 /\ l \in -2..kNumLevels - 1
      BY <1>3, <1>4 DEF Levels
    <3> QED BY <3>1, <3>2, <3>3, <3>4, <3>5
  <2> SUFFICES ASSUME NEW i \in -2..kNumLevels - 1, NEW j \in -2..kNumLevels - 1, i < j
               PROVE  Over(i, j)'
    BY Zenon DEF OnTop
  <2>2. /\ Over(i, j) /\ (-1 < j => Over(-1, j)) /\ (i < -1 => Over(i, -1))
    BY <2>1 DEF LevelsInv, OnTop
  <2>3. CASE i = -1
    BY <2>1, <2>3 DEF Over
  <2>4. CASE j = -1
    BY <2>1, <2>4 DEF Over
  <2>5. CASE i = l
    <3>1. j # l /\ j # -1 /\ -1 < j
      BY <1>4, <2>5
    <3> QED BY <2>1, <2>2, <2>5, <3>1 DEF Over
  <2>6. CASE i # -1 /\ i # l /\ j = l
    <3>1. CASE i = -2
      BY <2>1, <2>2, <2>6, <3>1 DEF Over
    <3>2. CASE i # -2
      <4>1. i \in 0..l /\ i \in Levels /\ l # 0 /\ Layer(i) = UNION files_[i]
        BY <1>3, <2>6, <3>2 DEF Levels, Layer
      <4>2. \A e \in Layer(i), d \in f : e.key # d.key
        <5> SUFFICES ASSUME NEW g \in files_[i], NEW e \in g, NEW d \in f PROVE e.key # d.key
          BY <4>1
        <5>1. g \in Files /\ ~Overlaps(g, lo, hi)
          BY <1>3, <1>4, <4>1
        <5> QED BY <1>3, <1>6, <5>1 DEF Overlaps, lo, hi
      <4> QED BY <2>1, <2>2, <2>6, <3>2, <4>2 DEF Over
    <3> QED BY <3>1, <3>2
  <2>7. CASE i \notin {-1, l} /\ j \notin {-1, l}
    BY <2>1, <2>2, <2>7 DEF Over
  <2> QED BY <2>3, <2>4, <2>5, <2>6, <2>7
<1>10. WorkInv'
  <2> SUFFICES ASSUME Running
               PROVE  /\ GoodInputs(compaction.level, Upper, Under)'
                      /\ ~compaction.is_manual => NoGap(Upper \cup Under)
    BY <1>1 DEF WorkInv, Running, Upper, Under
  <2> DEFINE n == compaction.level
  <2>1. /\ GoodInputs(n, Upper, Under) /\ (~compaction.is_manual => NoGap(Upper \cup Under))
        /\ n \in 0..kNumLevels - 2
    BY DEF LevelsInv, WorkInv, CompactionInv, MergeInv
  <2>2. n \in Levels /\ n + 1 \in Levels /\ n \in Int /\ n >= 0 /\ n # n + 1
    BY <1>3, <2>1 DEF Levels
  <2>3. n' = n /\ Upper' = Upper /\ Under' = Under
    BY <1>1 DEF Upper, Under
  <2> HIDE DEF n
  <2>4. /\ Upper # {} /\ Upper \in SUBSET files_[n] /\ Under \in SUBSET files_[n + 1]
        /\ Upper \in SUBSET Files /\ Under \in SUBSET Files
        /\ OldestOf(n, Upper) /\ \A g \in files_[n + 1] \ Under : Aside(g, Upper \cup Under)
    BY <2>1, Zenon DEF GoodInputs
  <2>5. files_[n] \subseteq files_'[n] /\ files_[n + 1] \subseteq files_'[n + 1]
    BY <1>5, <2>2
  <2>6. \A g \in files_'[n] \ Upper : \A e \in g, d \in UNION Upper : e.key = d.key => e.seq > d.seq
    <3>1. CASE n # l
      BY <1>5, <2>2, <2>4, <3>1 DEF OldestOf
    <3>2. CASE n = l
      <4>1. Over(-1, l) /\ Layer(-1) = f /\ Layer(l) = UNION files_[l]
        BY <1>3, <1>4 DEF LevelsInv, OnTop, Layer, Levels, f
      <4> QED BY <1>5, <2>4, <3>2, <4>1 DEF OldestOf, Over
    <3> QED BY <3>1, <3>2
  <2>7. \A g \in files_'[n + 1] \ Under : Aside(g, Upper \cup Under)
    <3>1. CASE n + 1 # l
      BY <1>5, <2>2, <2>4, <3>1
    <3>2. CASE n + 1 = l
      <4>1. \A g \in Upper \cup Under : ~Overlaps(g, lo, hi)
        BY <1>4, <2>2, <2>4, <3>2
      <4>2. NoGap(Upper \cup Under) \/ ~(lo <= Hi(Upper \cup Under) /\ hi >= Lo(Upper \cup Under))
        BY <1>2, <2>1, <3>2 DEF InGap, n, Upper, Under
      <4>3. Aside(f, Upper \cup Under)
        <5> DEFINE F == Upper \cup Under
        <5>1. F \in SUBSET Files /\ F # {} /\ (\A g \in F : ~Overlaps(g, lo, hi))
              /\ (NoGap(F) \/ ~(lo <= Hi(F) /\ hi >= Lo(F)))
          BY <2>4, <4>1, <4>2
        <5> HIDE DEF F
        <5>2. Aside(f, F)
          BY <1>3, <5>1, FlushedIsAside DEF lo, hi
        <5> QED BY <5>2 DEF F
      <4> QED BY <1>5, <2>4, <3>2, <4>3, Zenon
    <3> QED BY <3>1, <3>2
  <2>8. GoodInputs(n, Upper, Under)'
    BY <1>3, <2>3, <2>4, <2>5, <2>6, <2>7, Zenon DEF GoodInputs, OldestOf
  <2> QED BY <2>1, <2>8 DEF n
<1> QED BY <1>7, <1>8, <1>9, <1>10 DEF LevelsInv, Sorted, Levels

\* StartCompaction with inputs that SetupOtherInputs found for some files of
\* the level with no other ones between them.
LEMMA StartStep ==
  ASSUME LevelsInv, NEW l \in 0..kNumLevels - 2, NEW is_manual \in BOOLEAN,
         NEW chosen \in SUBSET files_[l], chosen # {}, Whole(l, chosen),
         is_manual \/ NoGap(chosen),
         NEW in \in SetupOtherInputs(l, chosen), StartCompaction(l, in[1], in[2], is_manual),
         UNCHANGED <<mem_, imm_, written>>
  PROVE  LevelsInv'
PROOF
<1>1. /\ compaction'.level = l /\ compaction'.is_manual = is_manual
      /\ Upper' = in[1] /\ Under' = in[2] /\ UNCHANGED files_
  BY DEF StartCompaction, Upper, Under
<1>2. GoodInputs(l, in[1], in[2]) /\ (NoGap(chosen) => NoGap(in[1] \cup in[2]))
  BY InputsAreChosenWell DEF LevelsInv, StoredInv
<1>3. GoodInputs(l, in[1], in[2])'
  BY <1>1, <1>2, Zenon DEF GoodInputs, OldestOf, Files
<1>4. WorkInv'
  BY <1>1, <1>2, <1>3 DEF WorkInv
<1>5. StoredInv'
  BY <1>1 DEF LevelsInv, StoredInv, VersionInv, Ordered, Files, LastSequence, Levels
<1>6. Sorted' /\ OnTop'
  BY <1>1 DEF LevelsInv, Sorted, SortedAt, OnTop, Over, Layer, Levels
<1> QED BY <1>4, <1>5, <1>6 DEF LevelsInv

\* BackgroundCompaction with PickCompaction.
LEMMA CompactStep ==
  ASSUME CompactionInv, LevelsInv, NEW l \in 0..kNumLevels - 2, NEW f \in files_[l], Compact(l, f)
  PROVE  LevelsInv'
PROOF
<1> DEFINE chosen == IF l = 0 THEN GetOverlappingInputs(0, Lo({f}), Hi({f})) ELSE {f}
<1>1. PICK in \in SetupOtherInputs(l, chosen) :
        \/ Cardinality(in[1]) = 1 /\ in[2] = {} /\ TrivialMove(l, CHOOSE g \in in[1] : TRUE)
        \/ StartCompaction(l, in[1], in[2], FALSE)
  BY Zenon DEF Compact
<1>2. ~Running /\ UNCHANGED <<mem_, imm_, written>>
  BY DEF Compact
<1>3. /\ l \in Levels /\ VersionInv /\ Ordered(written) /\ Sorted /\ OnTop /\ f \in Files
      /\ DOMAIN files_ = Levels
  BY CompactionAssumption DEF LevelsInv, StoredInv, VersionInv, Levels, CompactionInv, TypeInv
<1>4. NoGap({f})
  BY <1>3, OneFileHasNoGap
<1>5. /\ Lo({f}) \in Int /\ Hi({f}) \in Int
      /\ Lo({f}) <= Smallest(f).key /\ Largest(f).key <= Hi({f})
  <2>1. {f} \in SUBSET Files /\ {f} # {}
    BY <1>3
  <2> QED BY <1>3, <2>1, RangeOfFiles
<1>6. chosen \in SUBSET files_[l] /\ f \in chosen /\ Whole(l, chosen) /\ NoGap(chosen)
  <2>1. CASE l # 0
    <3>1. chosen = {f}
      BY <2>1
    <3>2. ~(Precedes(f, f))
      BY <1>3, FilesInOrder
    <3> HIDE DEF chosen
    <3>3. \A g \in files_[l] : Precedes(f, g) => ~Precedes(g, f)
      BY <1>3, FilesInOrder DEF VersionInv
    <3> QED BY <1>4, <2>1, <3>1, <3>3 DEF Whole
  <2>2. CASE l = 0
    <3> DEFINE G == GetOverlappingInputs(l, Lo({f}), Hi({f}))
    <3>1. chosen = G
      BY <2>2
    <3> HIDE DEF chosen
    <3>2. Whole(l, G)
      BY <1>3, <1>5, OverlappingIsWhole, Zenon
    <3>3. Overlaps(f, Lo({f}), Hi({f}))
      BY <1>3, <1>5, RangeOfFile DEF Overlaps
    <3>4. f \in G /\ G \in SUBSET files_[l]
      BY <2>2, <3>3, InputsByName DEF InRange, Reached
    <3> HIDE DEF G
    <3>5. NoGap({f} \cup G)
      <4>1. {f} \in SUBSET Files /\ {f} \in SUBSET {f} /\ {f} # {}
        BY <1>3
      <4> QED BY <1>3, <1>4, <4>1, OverlappingKeepsNoGap, Zenon DEF G
    <3>6. {f} \cup G = G
      BY <3>4
    <3> QED BY <3>1, <3>2, <3>4, <3>5, <3>6, Zenon
  <2> QED BY <2>1, <2>2
<1> HIDE DEF chosen
<1>7. CASE StartCompaction(l, in[1], in[2], FALSE)
  BY <1>2, <1>6, <1>7, StartStep, Zenon
<1>8. CASE Cardinality(in[1]) = 1 /\ in[2] = {} /\ TrivialMove(l, CHOOSE g \in in[1] : TRUE)
  <2>1. GoodInputs(l, in[1], {})
    BY <1>3, <1>6, <1>8, InputsAreChosenWell
  <2>2. PICK g : in[1] = {g}
    <3>1. IsFiniteSet(in[1])
      <4>1. in[1] \in SUBSET SUBSET written /\ IsFiniteSet(SUBSET written)
        BY <1>3, <2>1, FS_SUBSET DEF GoodInputs, Files, Ordered
      <4> QED BY <4>1, FS_Subset
    <3> QED BY <1>8, <3>1, FS_Singleton, Zenon
  <2>3. /\ files_' = [files_ EXCEPT ![l] = @ \ {g}, ![l + 1] = @ \cup {g}] /\ UNCHANGED compaction
    BY <1>8, <2>2, Zenon DEF TrivialMove
  <2>4. files_' = [files_ EXCEPT ![l] = @ \ {g}, ![l + 1] = (@ \ {}) \cup {g}]
    BY <2>3
  <2>5. {g} \in SUBSET Files
    BY <2>1, <2>2 DEF GoodInputs
  <2>6. VersionInv' /\ Sorted' /\ OnTop'
    <3> DEFINE one == {g}
               none == {}
    <3>1. GoodInputs(l, one, none) /\ UNION one \subseteq UNION (one \cup none) /\ one \in SUBSET Files
      BY <2>1, <2>2, <2>5
    <3>2. \A x, y \in one : x = y \/ Precedes(x, y) \/ Precedes(y, x)
      OBVIOUS
    <3>3. files_' = [files_ EXCEPT ![l] = @ \ one, ![l + 1] = (@ \ none) \cup one]
      BY <2>4
    <3> HIDE DEF one, none
    <3> QED BY <1>2, <1>3, <3>1, <3>2, <3>3, InstallStep, Zenon
  <2>7. StoredInv'
    BY <1>2, <2>6 DEF LevelsInv, StoredInv, LastSequence
  <2>8. WorkInv'
    BY <1>2, <2>3 DEF WorkInv, Running
  <2> QED BY <2>6, <2>7, <2>8 DEF LevelsInv
<1> QED BY <1>1, <1>7, <1>8, Zenon

\* BackgroundCompaction with CompactRange.
LEMMA CompactRangeStep ==
  ASSUME CompactionInv, LevelsInv, NEW l \in 0..kNumLevels - 2, NEW lo \in Keys, NEW hi \in Keys,
         CompactRange(l, lo, hi)
  PROVE  LevelsInv'
PROOF
<1> DEFINE inputs == GetOverlappingInputs(l, lo, hi)
           First(last) ==
             IF l = 0 THEN inputs ELSE {f \in inputs : f = last \/ Before(Smallest(f), Smallest(last))}
<1>0. PICK last \in inputs :
        \E in \in SetupOtherInputs(l, First(last)) : StartCompaction(l, in[1], in[2], TRUE)
  BY Zenon DEF CompactRange
<1> DEFINE first == First(last)
<1>1. /\ first = IF l = 0 THEN inputs ELSE {f \in inputs : f = last \/ Before(Smallest(f), Smallest(last))}
      /\ \E in \in SetupOtherInputs(l, first) : StartCompaction(l, in[1], in[2], TRUE)
  BY <1>0, Zenon
<1> HIDE DEF first
<1>2. UNCHANGED <<mem_, imm_, written>>
  BY DEF CompactRange
<1>3. /\ l \in Levels /\ VersionInv /\ Ordered(written) /\ Sorted /\ files_[l] \subseteq Files
      /\ lo \in Int /\ hi \in Int
  <2>1. l \in Levels /\ lo \in Int /\ hi \in Int
    BY CompactionAssumption DEF Levels
  <2> QED BY <2>1, Zenon DEF LevelsInv, StoredInv, VersionInv
<1>4. inputs \in SUBSET files_[l]
  BY Zenon DEF GetOverlappingInputs, Reached
<1>5. Whole(l, inputs)
  BY <1>3, OverlappingIsWhole
<1> HIDE DEF inputs
<1>6. first \in SUBSET files_[l] /\ last \in first
  BY <1>1, <1>4
<1>7. Whole(l, first)
  <2>1. CASE l = 0
    BY <1>1, <1>5, <2>1
  <2>2. CASE l # 0
    <3>1. \A x : x \in first <=> x \in inputs /\ (x = last \/ Before(Smallest(x), Smallest(last)))
      BY <1>1, <2>2
    <3> SUFFICES ASSUME NEW x \in first, NEW z \in first, NEW y \in files_[l],
                        Precedes(x, y), Precedes(y, z)
                 PROVE  y \in first
      BY <2>2, Zenon DEF Whole
    <3>2. y \in inputs
      BY <1>5, <2>2, <3>1, Zenon DEF Whole
    <3>3. Before(Smallest(y), Smallest(z)) /\ y \in Files /\ z \in Files /\ last \in Files
      BY <1>3, <1>6, FilesInOrder
    <3>4. z = last \/ Before(Smallest(z), Smallest(last))
      BY <3>1
    <3>5. Before(Smallest(y), Smallest(last))
      <4>1. Smallest(y) \in written /\ Smallest(z) \in written /\ Smallest(last) \in written
        BY <1>3, <3>3, EndsOfFile DEF Files
      <4>2. \A a, b, c \in written : Before(a, b) /\ Before(b, c) => Before(a, c)
        BY <1>3, BeforeIsOrder
      <4> QED BY <3>3, <3>4, <4>1, <4>2, Zenon
    <3> QED BY <3>1, <3>2, <3>5
  <2> QED BY <2>1, <2>2
<1>8. PICK in \in SetupOtherInputs(l, first) : StartCompaction(l, in[1], in[2], TRUE)
  BY <1>1, Zenon
<1> QED BY <1>2, <1>6, <1>7, <1>8, StartStep, Zenon

\* InstallCompactionResults puts the outputs where their inputs were.
LEMMA InstallResultsStep ==
  ASSUME CompactionInv, LevelsInv, InstallCompactionResults
  PROVE  LevelsInv'
PROOF
<1> DEFINE l == compaction.level
           merged == UNION (Upper \cup Under)
           kept == Kept(merged, compaction.smallest_snapshot, compaction.base)
<1>1. /\ Running /\ compaction' = NoCompaction /\ UNCHANGED <<mem_, imm_, written>>
  BY DEF InstallCompactionResults
<1>2. PICK out \in Outputs(kept) :
        files_' = [files_ EXCEPT ![l] = @ \ Upper, ![l + 1] = (@ \ Under) \cup out]
  BY Zenon DEF InstallCompactionResults, Upper, Under
<1>3. /\ l \in 0..kNumLevels - 2 /\ GoodInputs(l, Upper, Under) /\ DOMAIN files_ = Levels
      /\ VersionInv /\ Ordered(written) /\ Sorted /\ OnTop
  BY <1>1 DEF CompactionInv, TypeInv, MergeInv, LevelsInv, WorkInv, StoredInv, VersionInv
<1>4. kept \in SUBSET merged /\ merged \in SUBSET written
  BY <1>3, Zenon DEF Kept, GoodInputs, Files
<1> HIDE DEF l, merged, kept
<1>5. /\ out \in SUBSET Files /\ UNION out \subseteq kept
      /\ \A f, g \in out : f = g \/ Precedes(f, g) \/ Precedes(g, f)
  BY <1>2, <1>3, <1>4, OutputsAreInOrder
<1>6. UNION out \subseteq UNION (Upper \cup Under)
  BY <1>4, <1>5 DEF merged
<1>7. VersionInv' /\ Sorted' /\ OnTop'
  BY <1>1, <1>2, <1>3, <1>5, <1>6, InstallStep, Zenon
<1>8. StoredInv'
  BY <1>1, <1>7 DEF LevelsInv, StoredInv, LastSequence
<1>9. WorkInv'
  BY <1>1 DEF WorkInv, Running, NoCompaction
<1> QED BY <1>7, <1>8, <1>9 DEF LevelsInv

\* Unless a table is put in a gap, each step keeps the levels in order.
LEMMA NextKeepsLevels ==
  CompactionInv /\ (gap \/ LevelsInv) /\ [Next]_vars => (gap \/ LevelsInv)'
PROOF
<1> SUFFICES ASSUME CompactionInv, gap \/ LevelsInv, [Next]_vars, ~gap'
             PROVE  LevelsInv'
  BY Zenon
<1>1. LevelsInv
  <2>1. gap => gap'
    BY Zenon DEF Next, Write, SwitchMemTable, CompactMemTable, GetSnapshot, ReleaseSnapshot, Compact,
           CompactRange, InstallCompactionResults, vars
  <2> QED BY <2>1, Zenon
<1>2. ASSUME NEW k \in workload.keys, NEW del \in BOOLEAN, Write(k, del) PROVE LevelsInv'
  BY <1>1, <1>2, WriteStep
<1>3. CASE SwitchMemTable
  BY <1>1, <1>3, SwitchStep
<1>4. CASE CompactMemTable
  BY <1>1, <1>4, FlushStep
<1>5. CASE GetSnapshot \/ (\E s \in snapshots_ : ReleaseSnapshot(s)) \/ UNCHANGED vars
  BY <1>1, <1>5, SameVersion DEF GetSnapshot, ReleaseSnapshot, vars
<1>6. ASSUME NEW l \in 0..kNumLevels - 2, NEW f \in files_[l], Compact(l, f) PROVE LevelsInv'
  BY <1>1, <1>6, CompactStep
<1>7. ASSUME NEW l \in 0..kNumLevels - 2, NEW lo \in Keys, NEW hi \in Keys, CompactRange(l, lo, hi)
      PROVE  LevelsInv'
  BY <1>1, <1>7, CompactRangeStep
<1>8. CASE InstallCompactionResults
  BY <1>1, <1>8, InstallResultsStep
<1> QED BY <1>2, <1>3, <1>4, <1>5, <1>6, <1>7, <1>8 DEF Next

\* The levels of a DB are in order, for any keys, levels and workloads, as
\* long as no table is put in a gap of a manual compaction.
THEOREM LevelsStayInOrder == Spec => [](gap \/ LevelsInv)
PROOF
<1>1. Init => CompactionInv /\ (gap \/ LevelsInv)
  <2> SUFFICES ASSUME Init PROVE CompactionInv /\ LevelsInv
    OBVIOUS
  <2>1. CompactionInv
    BY FS_EmptySet DEF Init, CompactionInv, TypeInv, MergeInv, Running, NoCompaction, LastSequence
  <2>2. StoredInv /\ Sorted
    BY FS_EmptySet DEF Init, StoredInv, VersionInv, Ordered, Sorted, SortedAt
  <2>3. OnTop
    BY DEF Init, OnTop, Over, Layer, Levels
  <2>4. WorkInv
    BY DEF Init, WorkInv, Running, NoCompaction
  <2> QED BY <2>1, <2>2, <2>3, <2>4 DEF LevelsInv
<1> QED BY <1>1, NextKeepsInv, NextKeepsLevels, PTL DEF Spec

\* Version::Builder: "Make sure there is no overlap in levels > 0" holds
\* whatever flushes and compactions do, but for that gap.
THEOREM OnlyGapsMakeOverlaps == Spec => []OnlyGapsOverlap
PROOF
<1>1. (gap \/ LevelsInv) => OnlyGapsOverlap
  <2> SUFFICES ASSUME LevelsInv, NEW l \in Levels \ {0}, NEW f \in files_[l], NEW g \in files_[l]
               PROVE  f = g \/ Before(Largest(f), Smallest(g)) \/ Before(Largest(g), Smallest(f))
    BY Zenon DEF OnlyGapsOverlap, LevelsAreSorted
  <2>1. Ordered(written) /\ f \in Files /\ g \in Files
    BY DEF LevelsInv, StoredInv, VersionInv
  <2>2. f = g \/ Precedes(f, g) \/ Precedes(g, f)
    BY Zenon DEF LevelsInv, Sorted, SortedAt
  <2> QED BY <2>1, <2>2, FilesInOrder
<1> QED BY <1>1, LevelsStayInOrder, PTL

\* DoCompactionWork: "data in lower levels will have larger sequence numbers",
\* for any keys, levels and workloads.
THEOREM NewestStaysOnTop == Spec => []NewestOnTop
PROOF
<1>1. (gap \/ LevelsInv) => NewestOnTop
  BY Zenon DEF LevelsInv, OnTop, Over, Layer, NewestOnTop
<1> QED BY <1>1, LevelsStayInOrder, PTL
==============================================================================
