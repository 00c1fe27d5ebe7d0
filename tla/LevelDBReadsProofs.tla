------------------------- MODULE LevelDBReadsProofs -------------------------
(***************************************************************************)
(* Proof that Get finds what was last written: for any keys, levels, writes *)
(* and snapshots, unless a flush put a table between the inputs of a manual *)
(* compaction.                                                             *)
(***************************************************************************)
EXTENDS LevelDBLevelsProofs

-----------------------------------------------------------------------------
(* The newest entry of a set                                               *)

\* What a reader at s may see of k.
Seen(S, k, s) == {e \in S : e.key = k /\ e.seq <= s}

\* If a reader sees anything, there is a newest entry.
LEMMA NewestExists ==
  ASSUME NEW S \in SUBSET Entry, NEW k, NEW s \in Nat, Seen(S, k, s) # {}
  PROVE  NewestIn(S, k, s) # {}
PROOF
<1> DEFINE T == {s - e.seq : e \in Seen(S, k, s)}
<1>1. \A e \in Seen(S, k, s) : e.seq \in Nat /\ e.seq <= s
  BY DEF Seen, Entry
<1>2. T \in SUBSET Nat /\ T # {}
  BY <1>1
<1>3. Min(T) \in T /\ \A y \in T : Min(T) <= y
  BY <1>2, MinOfSequenceNumbers
<1>4. PICK e \in Seen(S, k, s) : Min(T) = s - e.seq
  BY <1>3
<1>5. \A d \in Seen(S, k, s) : s - e.seq <= s - d.seq
  BY <1>3, <1>4
<1>6. \A d \in Seen(S, k, s) : d.seq <= e.seq
  BY <1>1, <1>5
<1> QED BY <1>6 DEF NewestIn, Seen

\* What NewestIn says of its elements.
LEMMA NewestIs ==
  ASSUME NEW S, NEW k, NEW s
  PROVE  \A e : e \in NewestIn(S, k, s) <=>
           /\ e \in S /\ e.key = k /\ e.seq <= s
           /\ \A d \in S : d.key = k /\ d.seq <= s => d.seq <= e.seq
BY Zenon DEF NewestIn

\* Of the key k, A has newer entries than B.
NewerOf(k, A, B) == \A e \in A, d \in B : e.key = k /\ d.key = k => e.seq > d.seq

\* Version::Get and DBImpl::Get stop at the first place with an entry of the
\* key: right if what is there is newer than what is in the places after it.
LEMMA FirstHitIsNewest ==
  ASSUME NEW A \in SUBSET Entry, NEW B \in SUBSET Entry, NEW k, NEW s \in Nat,
         NewerOf(k, A, B)
  PROVE  /\ NewestIn(A, k, s) # {} => NewestIn(A \cup B, k, s) = NewestIn(A, k, s)
         /\ NewestIn(A, k, s) = {} => NewestIn(A \cup B, k, s) = NewestIn(B, k, s)
PROOF
<1>1. \A e \in A \cup B : e.seq \in Nat
  BY DEF Entry
<1>2. ASSUME NEW n \in NewestIn(A, k, s) PROVE NewestIn(A \cup B, k, s) = NewestIn(A, k, s)
  <2>1. n \in A /\ n.key = k /\ n.seq <= s
    BY NewestIs
  <2>2. ASSUME NEW e \in NewestIn(A, k, s) PROVE e \in NewestIn(A \cup B, k, s)
    <3>1. e \in A /\ e.key = k /\ e.seq <= s /\ \A d \in A : d.key = k /\ d.seq <= s => d.seq <= e.seq
      BY NewestIs
    <3>2. \A d \in B : d.key = k => d.seq <= e.seq
      BY <1>1, <3>1 DEF NewerOf
    <3> QED BY <3>1, <3>2, NewestIs
  <2>3. ASSUME NEW e \in NewestIn(A \cup B, k, s) PROVE e \in NewestIn(A, k, s)
    <3>1. /\ e \in A \cup B /\ e.key = k /\ e.seq <= s
          /\ \A d \in A \cup B : d.key = k /\ d.seq <= s => d.seq <= e.seq
      BY NewestIs
    <3>2. e \notin B
      BY <1>1, <2>1, <3>1 DEF NewerOf
    <3> QED BY <3>1, <3>2, NewestIs
  <2> QED BY <2>2, <2>3
<1>3. ASSUME NewestIn(A, k, s) = {} PROVE NewestIn(A \cup B, k, s) = NewestIn(B, k, s)
  <2>1. \A e \in A : ~(e.key = k /\ e.seq <= s)
    BY <1>3, NewestExists DEF Seen
  <2> QED BY <2>1 DEF NewestIn
<1> QED BY <1>2, <1>3

\* Of the keys in base, the other entries are newer than the merged ones.
Outlived(rest, merged, base) ==
  \A d \in merged, e \in rest : d.key \in base /\ e.key = d.key => e.seq > d.seq

\* What a compaction drops is not missed in the whole DB: no entry of a key
\* that it may forget the deletion of is left elsewhere, but for newer ones.
LEMMA DropIsInvisible ==
  ASSUME NEW rest \in SUBSET Entry, NEW merged \in SUBSET Entry, NEW smallest_snapshot \in Nat,
         NEW base, NEW k \in Keys, NEW s \in Nat, smallest_snapshot <= s,
         Outlived(rest, merged, base)
  PROVE  Value(NewestIn(rest \cup Kept(merged, smallest_snapshot, base), k, s))
           = Value(NewestIn(rest \cup merged, k, s))
PROOF
<1> DEFINE kept == Kept(merged, smallest_snapshot, base)
           S == rest \cup merged
           R == rest \cup kept
           Hides(d, e) == d.key = e.key /\ d.seq > e.seq /\ d.seq <= smallest_snapshot
<1>1. \A e : e \in kept <=>
        e \in merged /\ ~((\E d \in merged : Hides(d, e)) \/ (e.del /\ e.seq <= smallest_snapshot /\ e.key \in base))
  BY Zenon DEF Kept, Drop
<1>2. kept \in SUBSET merged /\ S \in SUBSET Entry /\ \A e \in S : e.seq \in Nat
  BY <1>1 DEF Entry
<1> HIDE DEF kept
<1>3. ASSUME NEW n \in NewestIn(S, k, s), ~(n.del /\ k \in base) PROVE n \in NewestIn(R, k, s)
  <2>1. n \in S /\ n.key = k /\ n.seq <= s /\ \A d \in S : d.key = k /\ d.seq <= s => d.seq <= n.seq
    BY NewestIs
  <2>2. \A d \in merged : ~Hides(d, n)
    BY <1>2, <2>1
  <2>3. n \in R
    BY <1>1, <1>3, <2>1, <2>2
  <2> QED BY <1>2, <2>1, <2>3, NewestIs
<1>4. ASSUME NEW m \in NewestIn(R, k, s) , ~m.del PROVE m \in NewestIn(S, k, s)
  <2>1. m \in R /\ m.key = k /\ m.seq <= s /\ \A d \in R : d.key = k /\ d.seq <= s => d.seq <= m.seq
    BY NewestIs
  <2>2. m \in S /\ m \in Seen(S, k, s)
    BY <1>2, <2>1 DEF Seen
  <2>3. PICK n : n \in NewestIn(S, k, s)
    BY <1>2, <2>2, NewestExists
  <2>4. n \in S /\ n.key = k /\ n.seq <= s /\ \A d \in S : d.key = k /\ d.seq <= s => d.seq <= n.seq
    BY <2>3, NewestIs
  <2>5. m.seq <= n.seq
    BY <2>1, <2>2, <2>4
  <2>6. CASE n.seq <= m.seq
    <3>1. \A d \in S : d.key = k /\ d.seq <= s => d.seq <= m.seq
      BY <1>2, <2>2, <2>4, <2>6
    <3> QED BY <2>1, <2>2, <3>1, NewestIs
  <2>7. CASE m.seq < n.seq
    <3>1. n \notin R
      BY <1>2, <2>1, <2>2, <2>4, <2>7
    <3>2. n \in merged /\ n \notin kept /\ \A d \in merged : ~Hides(d, n)
      BY <1>2, <2>4, <3>1
    <3>3. n.del /\ n.seq <= smallest_snapshot /\ n.key \in base
      BY <1>1, <3>2
    <3>4. m \notin rest
      BY <1>2, <2>1, <2>2, <2>4, <2>7, <3>2, <3>3 DEF Outlived
    <3>5. m \notin kept
      BY <1>1, <2>1, <2>4, <2>7, <3>2, <3>3
    <3> QED BY <2>1, <3>4, <3>5
  <2> QED BY <1>2, <2>2, <2>4, <2>6, <2>7
<1> QED BY <1>3, <1>4 DEF Value, kept
-----------------------------------------------------------------------------
(* Looking for a key in the files of a level                               *)

\* A set of sequence numbers with an upper bound has a largest one.
LEMMA MaxOfSequenceNumbers ==
  ASSUME NEW b \in Nat, NEW T \in SUBSET (0..b), T # {}
  PROVE  Max(T) \in T /\ \A y \in T : y <= Max(T)
PROOF
<1> DEFINE U == {b - y : y \in T}
<1>1. U \in SUBSET Nat /\ U # {}
  <2>1. \A y \in T : b - y \in Nat
    OBVIOUS
  <2> QED BY <2>1
<1>2. Min(U) \in U /\ \A y \in U : Min(U) <= y
  BY <1>1, MinOfSequenceNumbers
<1>3. PICK x \in T : Min(U) = b - x
  BY <1>2
<1>4. \A y \in T : b - x <= b - y
  BY <1>2, <1>3
<1>5. \A y \in T : x >= y
  BY <1>4
<1> QED BY <1>5 DEF Max

\* All of A was written after all of B.
Later(A, B) == \A e \in A, d \in B : e.seq > d.seq

\* Memtables are flushed in the order in which they were filled, so that of
\* two level-0 files one is later.
Stacked ==
  /\ Later(mem_, imm_)
  /\ \A f \in files_[0] : Later(mem_, f) /\ Later(imm_, f)
  /\ \A f, g \in files_[0] : f = g \/ Later(f, g) \/ Later(g, f)

\* The number of a level-0 file tells which of two is the later one.
LEMMA LaterIsNewer ==
  ASSUME StoredInv, LastSequence \in Nat, NEW f \in Files, NEW g \in Files, Later(f, g)
  PROVE  Newer(f, g) /\ ~Newer(g, f)
PROOF
<1> DEFINE S(x) == {e.seq : e \in x}
<1>1. \A e \in f \cup g : e.seq \in 0..LastSequence
  BY DEF StoredInv, VersionInv, Ordered, Files, Entry
<1>2. S(f) \in SUBSET (0..LastSequence) /\ S(f) # {} /\ S(g) \in SUBSET (0..LastSequence) /\ S(g) # {}
  BY <1>1 DEF Files
<1>3. Max(S(f)) \in S(f) /\ Max(S(g)) \in S(g)
  BY <1>2, MaxOfSequenceNumbers
<1>4. Max(S(f)) > Max(S(g)) /\ Max(S(f)) \in Nat /\ Max(S(g)) \in Nat
  <2>1. PICK e \in f : Max(S(f)) = e.seq
    BY <1>3
  <2>2. PICK d \in g : Max(S(g)) = d.seq
    BY <1>3
  <2> QED BY <1>1, <2>1, <2>2 DEF Later
<1>5. ~(Max(S(g)) > Max(S(f)))
  BY <1>4
<1> QED BY <1>4, <1>5 DEF Newer

\* The files of a level in which Version::Get finds an entry, and the one that
\* it takes.
Hits(l, k, s) == {f \in Searched(l, k, s) : NewestIn(f, k, s) # {}}
FirstHit(l, k, s) == {f \in Hits(l, k, s) : \A g \in Hits(l, k, s) : f = g \/ Newer(f, g)}

\* A file with the key is looked into at level 0.
LEMMA HitsAtLevel0 ==
  ASSUME StoredInv, 0 \in Levels, NEW k, NEW s \in Nat
  PROVE  \A f : f \in Hits(0, k, s) <=> f \in files_[0] /\ NewestIn(f, k, s) # {}
PROOF
<1> SUFFICES ASSUME NEW f \in files_[0], NewestIn(f, k, s) # {} PROVE Overlaps(f, k, k)
  BY DEF Hits, Searched
<1>1. PICK e \in f : e.key = k
  BY NewestIs
<1> QED BY <1>1, RangeOfFile DEF StoredInv, VersionInv, Overlaps

\* FindFile finds the file with the newest entry of k, for the files of a
\* level are sorted.
LEMMA HitsFurtherDown ==
  ASSUME StoredInv, Sorted, NEW l \in Levels \ {0}, NEW k \in Int, NEW s \in Nat,
         NEW n \in NewestIn(UNION files_[l], k, s)
  PROVE  \E f \in files_[l] : Hits(l, k, s) = {f} /\ n \in f
PROOF
<1>1. PICK f \in files_[l] : n \in f
  BY NewestIs
<1>2. /\ n.key = k /\ n.seq <= s
      /\ \A g \in files_[l] : \A d \in g : d.key = k /\ d.seq <= s => d.seq <= n.seq
  BY NewestIs
<1>3. /\ Ordered(written) /\ files_[l] \subseteq Files /\ SortedAt(l)
      /\ \A g \in Files : \A d \in g : d \in written /\ d.key \in Int /\ d.seq \in Nat
  BY RangeOfFile DEF StoredInv, VersionInv, Sorted, Files
<1> DEFINE target == [key |-> k, seq |-> s]
           after == {g \in files_[l] : ~Before(Largest(g), target)}
<1>4. \A d \in written : d.key \in Int /\ d.seq \in Nat
  BY <1>3, CompactionAssumption DEF Ordered, Entry
<1>5. \A d : Before(d, target) <=> d.key < k \/ (d.key = k /\ d.seq > s)
  BY DEF Before
<1> HIDE DEF target
<1>6. ~Before(n, target)
  BY <1>1, <1>2, <1>3, <1>5
<1>7. ~Before(Largest(f), target)
  <2>1. Largest(f) \in f /\ (n = Largest(f) \/ Before(n, Largest(f)))
    BY <1>1, <1>3, EndsOfFile
  <2>2. Largest(f).key \in Int /\ Largest(f).seq \in Nat /\ n.key \in Int /\ n.seq \in Nat
    BY <1>1, <1>3, <2>1
  <2> QED BY <1>2, <1>5, <2>1, <2>2 DEF Before
<1>8. ASSUME NEW g \in after, g # f PROVE Precedes(f, g)
  <2>1. g \in files_[l] /\ ~Before(Largest(g), target)
    OBVIOUS
  <2>2. CASE Precedes(g, f)
    <3>1. Largest(g) \in g /\ Before(Largest(g), n)
      BY <1>1, <1>3, <2>1, <2>2, EndsOfFile DEF Precedes
    <3>2. Largest(g).key \in Int /\ Largest(g).seq \in Nat /\ n.key \in Int /\ n.seq \in Nat
      BY <1>1, <1>3, <2>1, <3>1
    <3>3. Largest(g).key = k /\ Largest(g).seq <= s => Largest(g).seq <= n.seq
      BY <1>2, <2>1, <3>1
    <3> QED BY <1>2, <1>5, <2>1, <3>1, <3>2, <3>3 DEF Before
  <2> QED BY <1>1, <1>3, <1>8, <2>1, <2>2 DEF SortedAt
<1>9. f \in after
  BY <1>1, <1>7
<1>10. \A g \in after : g = f \/ (Before(Smallest(f), Smallest(g)) /\ ~Before(Smallest(g), Smallest(f)))
  <2> SUFFICES ASSUME NEW g \in after, g # f
               PROVE  Before(Smallest(f), Smallest(g)) /\ ~Before(Smallest(g), Smallest(f))
    OBVIOUS
  <2>1. f \in Files /\ g \in Files /\ Precedes(f, g)
    BY <1>1, <1>3, <1>8
  <2>2. Before(Smallest(f), Smallest(g)) /\ Smallest(f) \in written /\ Smallest(g) \in written
    BY <1>3, <2>1, FilesInOrder, EndsOfFile
  <2>3. ~Before(Smallest(g), Smallest(f))
    BY <1>4, <2>2 DEF Before
  <2> QED BY <2>2, <2>3
<1>11. FindFile(files_[l], k, s) = {f}
  <2>1. FindFile(files_[l], k, s) = {x \in after : \A g \in after : g = x \/ Before(Smallest(x), Smallest(g))}
    BY DEF FindFile, target
  <2> HIDE DEF after
  <2> QED BY <1>9, <1>10, <2>1, Zenon
<1>12. Overlaps(f, k, k)
  BY <1>1, <1>2, <1>3, RangeOfFile DEF Overlaps
<1>13. n \in NewestIn(f, k, s)
  BY <1>1, <1>2, NewestIs
<1>14. Searched(l, k, s) = {f}
  BY <1>11, <1>12 DEF Searched
<1>15. Hits(l, k, s) = {f}
  BY <1>13, <1>14 DEF Hits
<1> QED BY <1>1, <1>15
\* What Version::Get takes at a level is the newest entry of the level, and it
\* goes on only if there is none.
LEMMA LevelIsSearched ==
  ASSUME StoredInv, LastSequence \in Nat, Sorted, Stacked, NEW l \in Levels, NEW k \in Int, NEW s \in Nat
  PROVE  /\ Hits(l, k, s) = {} <=> NewestIn(UNION files_[l], k, s) = {}
         /\ UNION {NewestIn(f, k, s) : f \in FirstHit(l, k, s)} = NewestIn(UNION files_[l], k, s)
PROOF
<1> DEFINE All == UNION files_[l]
<1>1. /\ Ordered(written) /\ files_[l] \subseteq Files /\ All \in SUBSET Entry
      /\ \A e \in All : e.seq \in Nat /\ e \in written
  BY DEF StoredInv, VersionInv, Files, Ordered, Entry
<1>2. \A f \in files_[l] : f \subseteq All
  OBVIOUS
<1> HIDE DEF All
<1>3. ASSUME NEW f \in Hits(l, k, s) PROVE f \in files_[l] /\ NewestIn(f, k, s) # {}
  <2>1. f \in Searched(l, k, s) /\ NewestIn(f, k, s) # {}
    BY <1>3 DEF Hits
  <2> QED BY <2>1 DEF Searched, FindFile
<1>4. NewestIn(All, k, s) = {} => Hits(l, k, s) = {}
  <2> SUFFICES ASSUME NEW f \in Hits(l, k, s) PROVE NewestIn(All, k, s) # {}
    OBVIOUS
  <2>1. PICK e : e \in NewestIn(f, k, s)
    BY <1>3
  <2>2. e \in All /\ e.key = k /\ e.seq <= s
    BY <1>2, <1>3, <2>1, NewestIs
  <2> QED BY <1>1, <2>2, NewestExists DEF Seen
<1>5. ASSUME NEW n \in NewestIn(All, k, s)
      PROVE  \E f \in files_[l] : FirstHit(l, k, s) = {f} /\ n \in f
  <2>1. CASE l # 0
    <3>1. PICK f \in files_[l] : Hits(l, k, s) = {f} /\ n \in f
      BY <1>5, <2>1, HitsFurtherDown DEF All
    <3>2. FirstHit(l, k, s) = {f}
      BY <3>1 DEF FirstHit
    <3> QED BY <3>1, <3>2
  <2>2. CASE l = 0
    <3>1. PICK f \in files_[l] : n \in f
      BY <1>5, NewestIs DEF All
    <3>2. n \in All /\ n.key = k /\ n.seq <= s /\ \A d \in All : d.key = k /\ d.seq <= s => d.seq <= n.seq
      BY <1>5, NewestIs
    <3>3. \A g : g \in Hits(l, k, s) <=> g \in files_[l] /\ NewestIn(g, k, s) # {}
      BY <2>2, HitsAtLevel0
    <3>4. n \in NewestIn(f, k, s)
      BY <1>2, <3>1, <3>2, NewestIs
    <3>5. ASSUME NEW g \in Hits(l, k, s), g # f PROVE Newer(f, g) /\ ~Newer(g, f)
      <4>1. g \in files_[l] /\ f \in Files /\ g \in Files
        BY <1>1, <3>1, <3>3, <3>5
      <4>2. PICK e : e \in NewestIn(g, k, s)
        BY <3>3, <3>5
      <4>3. e \in g /\ e \in All /\ e.seq <= n.seq
        BY <1>2, <3>2, <4>1, <4>2, NewestIs
      <4>4. ~Later(g, f)
        BY <1>1, <3>1, <3>2, <4>3 DEF Later
      <4>5. Later(f, g)
        BY <2>2, <3>1, <3>5, <4>1, <4>4 DEF Stacked
      <4> QED BY <4>1, <4>5, LaterIsNewer
    <3>6. f \in Hits(l, k, s)
      BY <3>1, <3>3, <3>4
    <3>7. FirstHit(l, k, s) = {f}
      BY <3>5, <3>6, Zenon DEF FirstHit
    <3> QED BY <3>1, <3>7
  <2> QED BY <2>1, <2>2
<1>6. CASE NewestIn(All, k, s) = {}
  BY <1>4, <1>6 DEF FirstHit, All
<1>7. CASE NewestIn(All, k, s) # {}
  <2>1. PICK n : n \in NewestIn(All, k, s)
    BY <1>7
  <2>2. PICK f \in files_[l] : FirstHit(l, k, s) = {f} /\ n \in f
    BY <1>5, <2>1
  <2>3. n \in All /\ n.key = k /\ n.seq <= s /\ \A d \in All : d.key = k /\ d.seq <= s => d.seq <= n.seq
    BY <2>1, NewestIs
  <2>4. n \in NewestIn(f, k, s)
    BY <1>2, <2>2, <2>3, NewestIs
  <2>5. \A e \in NewestIn(All, k, s) \cup NewestIn(f, k, s) : e = n
    <3> SUFFICES ASSUME NEW e \in NewestIn(All, k, s) \cup NewestIn(f, k, s) PROVE e = n
      OBVIOUS
    <3>1. e \in All /\ e.key = k /\ e.seq <= s
      BY <1>2, NewestIs
    <3>2. n.seq <= e.seq
      BY <2>2, <2>3, NewestIs
    <3>3. e.seq <= n.seq
      BY <2>3, <3>1
    <3> QED BY <1>1, <2>3, <3>1, <3>2, <3>3 DEF Ordered
  <2>6. NewestIn(All, k, s) = {n} /\ NewestIn(f, k, s) = {n}
    BY <2>1, <2>4, <2>5
  <2>7. UNION {NewestIn(x, k, s) : x \in FirstHit(l, k, s)} = {n}
    BY <2>2, <2>6
  <2> QED BY <2>2, <2>6, <2>7 DEF FirstHit, All
<1> QED BY <1>6, <1>7

-----------------------------------------------------------------------------
(* Get                                                                     *)

InFiles == UNION {UNION files_[l] : l \in Levels}
Stored == mem_ \cup imm_ \cup InFiles

\* An entry is in the files iff it is in a file of a level.
LEMMA InFilesAre ==
  /\ \A e : e \in InFiles <=> \E i \in Levels : \E g \in files_[i] : e \in g
  /\ \A e : e \in InFiles' <=> \E i \in Levels : \E g \in files_'[i] : e \in g
PROOF
<1>1. \A e : e \in InFiles <=> \E i \in Levels : \E g \in files_[i] : e \in g
  BY DEF InFiles
<1>2. InFiles' = UNION {UNION files_'[i] : i \in Levels}
  BY DEF InFiles, Levels
<1>3. \A e : e \in InFiles' <=> \E i \in Levels : \E g \in files_'[i] : e \in g
  BY <1>2
<1> QED BY <1>1, <1>3

\* Version::Get finds the newest entry in the files of the version.
LEMMA FilesAreSearched ==
  ASSUME LevelsInv, LastSequence \in Nat, Stacked, NEW k \in Int, NEW s \in Nat
  PROVE  GetFromFiles(k, s) = NewestIn(InFiles, k, s)
PROOF
<1> DEFINE At(l) == UNION files_[l]
           levels == {l \in Levels : Hits(l, k, s) # {}}
<1>1. /\ StoredInv /\ Sorted /\ \A l \in Levels : At(l) \in SUBSET Entry
      /\ \A i, j \in Levels : i < j => \A e \in At(i), d \in At(j) : e.key = d.key => e.seq > d.seq
  <2>1. \A i \in Levels : i \in -2..kNumLevels - 1 /\ i # -2 /\ i # -1 /\ i \in Int
    BY CompactionAssumption DEF Levels
  <2>2. \A i \in Levels : Layer(i) = At(i)
    BY <2>1 DEF Layer
  <2>3. \A i, j \in Levels : i < j => Over(i, j)
    BY <2>1 DEF LevelsInv, OnTop
  <2>4. \A l \in Levels : At(l) \in SUBSET Entry
    BY DEF LevelsInv, StoredInv, VersionInv, Files, Ordered
  <2> HIDE DEF At
  <2> QED BY <2>2, <2>3, <2>4, Zenon DEF LevelsInv, Over
<1>2. \A l \in Levels :
        /\ Hits(l, k, s) = {} <=> NewestIn(At(l), k, s) = {}
        /\ UNION {NewestIn(f, k, s) : f \in FirstHit(l, k, s)} = NewestIn(At(l), k, s)
  BY <1>1, LevelIsSearched
<1>3. GetFromFiles(k, s) =
        IF levels = {} THEN {} ELSE UNION {NewestIn(f, k, s) : f \in FirstHit(Min(levels), k, s)}
  BY DEF GetFromFiles, Hits, FirstHit
<1>4. InFiles = UNION {At(l) : l \in Levels}
  BY DEF InFiles
<1>5. \A e : e \in InFiles <=> \E l \in Levels : e \in At(l)
  BY <1>4
<1> HIDE DEF At
<1>6. CASE levels = {}
  <2>1. \A l \in Levels : \A e \in At(l) : ~(e.key = k /\ e.seq <= s)
    BY <1>1, <1>2, <1>6, NewestExists DEF Seen
  <2>2. NewestIn(InFiles, k, s) = {}
    BY <1>5, <2>1, NewestIs
  <2> QED BY <1>3, <1>6, <2>2
<1>7. CASE levels # {}
  <2> DEFINE m == Min(levels)
  <2>1. m \in levels /\ \A l \in levels : m <= l
    <3>1. levels \in SUBSET Nat
      BY DEF Levels
    <3> HIDE DEF levels
    <3> QED BY <1>7, <3>1, MinOfSequenceNumbers
  <2>2. GetFromFiles(k, s) = NewestIn(At(m), k, s) /\ NewestIn(At(m), k, s) # {} /\ m \in Levels
    BY <1>2, <1>3, <1>7, <2>1
  <2> HIDE DEF m
  <2> DEFINE Rest == UNION {At(l) : l \in Levels \ {m}}
  <2>3. InFiles = At(m) \cup Rest
    BY <1>4, <2>2
  <2>4. At(m) \in SUBSET Entry /\ Rest \in SUBSET Entry
    BY <1>1, <2>2
  <2>5. ASSUME NEW e \in At(m), NEW d \in Rest, e.key = k, d.key = k, d.seq <= s PROVE e.seq > d.seq
    <3>1. PICK l \in Levels \ {m} : d \in At(l)
      OBVIOUS
    <3>2. NewestIn(At(l), k, s) # {}
      BY <1>1, <2>5, <3>1, NewestExists DEF Seen
    <3>3. l \in levels
      BY <1>2, <3>1, <3>2
    <3>4. m < l
      BY <2>1, <2>2, <3>1, <3>3 DEF Levels
    <3> QED BY <1>1, <2>2, <2>5, <3>1, <3>4
  <2> HIDE DEF Rest
  <2>6. NewestIn(At(m) \cup Rest, k, s) = NewestIn(At(m) \cup Seen(Rest, k, s), k, s)
    BY Zenon DEF NewestIn, Seen
  <2>7. NewestIn(At(m) \cup Seen(Rest, k, s), k, s) = NewestIn(At(m), k, s)
    <3> DEFINE A == At(m)
               B == Seen(Rest, k, s)
    <3>1. A \in SUBSET Entry /\ B \in SUBSET Entry /\ NewestIn(A, k, s) # {}
      BY <2>2, <2>4 DEF Seen
    <3>2. NewerOf(k, A, B)
      BY <2>5 DEF Seen, NewerOf
    <3> HIDE DEF A, B
    <3>3. NewestIn(A \cup B, k, s) = NewestIn(A, k, s)
      BY <3>1, <3>2, FirstHitIsNewest
    <3> QED BY <3>3 DEF A, B
  <2> QED BY <2>2, <2>3, <2>6, <2>7
<1> QED BY <1>6, <1>7

\* DBImpl::Get finds the newest entry that is stored anywhere.
LEMMA GetFindsNewest ==
  ASSUME LevelsInv, LastSequence \in Nat, Stacked, NEW k \in Int, NEW s \in Nat
  PROVE  Get(k, s) = NewestIn(Stored, k, s)
PROOF
<1>1. mem_ \in SUBSET Entry /\ imm_ \in SUBSET Entry /\ InFiles \in SUBSET Entry
  BY DEF LevelsInv, StoredInv, VersionInv, Files, Ordered, InFiles
<1>2. /\ \A e \in mem_, d \in imm_ \cup InFiles : e.key = d.key => e.seq > d.seq
      /\ \A e \in imm_, d \in InFiles : e.key = d.key => e.seq > d.seq
  <2>1. /\ \A i \in Levels : i \in -2..kNumLevels - 1 /\ i \in Int /\ i > -1 /\ Layer(i) = UNION files_[i]
        /\ -2 \in -2..kNumLevels - 1 /\ -1 \in -2..kNumLevels - 1 /\ Layer(-2) = mem_ /\ Layer(-1) = imm_
    BY CompactionAssumption DEF Levels, Layer
  <2>2. Over(-2, -1) /\ \A i \in Levels : Over(-2, i) /\ Over(-1, i)
    BY <2>1 DEF LevelsInv, OnTop
  <2> QED BY <2>1, <2>2 DEF Over, InFiles
<1> DEFINE below == imm_ \cup InFiles
<1>3. below \in SUBSET Entry /\ NewerOf(k, mem_, below)
  BY <1>1, <1>2 DEF NewerOf
<1>4. Stored = mem_ \cup below
  BY DEF Stored
<1>5. IF NewestIn(imm_, k, s) # {} THEN NewestIn(below, k, s) = NewestIn(imm_, k, s)
      ELSE NewestIn(below, k, s) = NewestIn(InFiles, k, s)
  <2>1. NewerOf(k, imm_, InFiles)
    BY <1>2 DEF NewerOf
  <2>2. /\ NewestIn(imm_, k, s) # {} => NewestIn(imm_ \cup InFiles, k, s) = NewestIn(imm_, k, s)
        /\ NewestIn(imm_, k, s) = {} => NewestIn(imm_ \cup InFiles, k, s) = NewestIn(InFiles, k, s)
    <3> HIDE DEF below
    <3> QED BY <1>1, <2>1, FirstHitIsNewest
  <2> QED BY <2>2
<1> HIDE DEF below
<1>6. IF NewestIn(mem_, k, s) # {} THEN NewestIn(Stored, k, s) = NewestIn(mem_, k, s)
      ELSE NewestIn(Stored, k, s) = NewestIn(below, k, s)
  BY <1>1, <1>3, <1>4, FirstHitIsNewest
<1> QED BY <1>5, <1>6, FilesAreSearched DEF Get
-----------------------------------------------------------------------------
(* The inductive invariant                                                 *)

NoKeyOf(A, B) == \A e \in A, d \in B : e.key # d.key

\* A compaction that may forget the deletion of a key takes all older entries
\* of it: the other files of the output level have newer ones only, and none
\* of the keys that come from the level above; the levels further down have no
\* entry of a key in base (IsBaseLevelForKey), also after flushes.
Buried(l, in0, in1, base) ==
  /\ OldestOf(l + 1, in1)
  /\ \A g \in files_[l + 1] \ in1 : NoKeyOf(g, UNION in0)
  /\ \A i \in l + 2..kNumLevels - 1 : \A g \in files_[i] :
       \A d \in UNION (in0 \cup in1) : d.key \in base => NoKeyOf(g, {d})
BuriedInv == Running => Buried(compaction.level, Upper, Under, compaction.base)

\* What was dropped is not missed, although it is gone.
Readable ==
  \A k \in Keys, s \in snapshots_ \cup {LastSequence} :
    Value(NewestIn(Stored, k, s)) = Value(NewestIn(written, k, s))

ReadsInv == Stacked /\ BuriedInv /\ Readable

\* As long as the same entries are stored, readers find the same.
LEMMA SameStored ==
  ASSUME Readable, Stored' = Stored, UNCHANGED written, snapshots_' \subseteq snapshots_ \cup {LastSequence}
  PROVE  Readable'
PROOF
<1>1. LastSequence' = LastSequence
  BY DEF LastSequence
<1> SUFFICES ASSUME NEW k \in Keys, NEW s \in snapshots_' \cup {LastSequence'}
             PROVE  Value(NewestIn(Stored', k, s)) = Value(NewestIn(written', k, s))
  BY Zenon DEF Readable, Value, NewestIn
<1>2. s \in snapshots_ \cup {LastSequence}
  BY <1>1
<1>3. Value(NewestIn(Stored, k, s)) = Value(NewestIn(written, k, s))
  BY <1>2, Zenon DEF Readable
<1> QED BY <1>3

\* SetupOtherInputs always takes what overlaps at the next level.
LEMMA LowerInputs ==
  ASSUME NEW l, NEW chosen, NEW in \in SetupOtherInputs(l, chosen)
  PROVE  in[2] = Lower(l, in[1])
PROOF
<1> DEFINE in0 == AddBoundaryInputs(l, chosen)
           in1 == Lower(l, in0)
           all == in0 \cup in1
           ex0 == AddBoundaryInputs(l, GetOverlappingInputs(l, Lo(all), Hi(all)))
           ex1 == Lower(l, ex0)
<1>1. in = <<in0, in1>> \/ in = <<ex0, ex1>>
  <2> HIDE DEF in0, in1, all, ex0, ex1
  <2> QED BY Zenon DEF SetupOtherInputs, Lower, in0, in1, all, ex0, ex1
<1>2. in1 = Lower(l, in0) /\ ex1 = Lower(l, ex0)
  BY Zenon
<1> HIDE DEF in0, in1, ex0, ex1
<1> QED BY <1>1, <1>2

\* DoCompactionWork starts with everything older than its inputs buried.
LEMMA StartBuries ==
  ASSUME LevelsInv, NEW l \in 0..kNumLevels - 2, NEW in0, NEW in1, in1 = Lower(l, in0),
         GoodInputs(l, in0, in1)
  PROVE  Buried(l, in0, in1, {k \in Keys : IsBaseLevelForKey(l, k)})
PROOF
<1>1. /\ VersionInv /\ Ordered(written) /\ l + 1 \in Levels /\ l + 1 # 0 /\ SortedAt(l + 1)
      /\ \A i \in Levels : files_[i] \subseteq Files
  BY CompactionAssumption DEF LevelsInv, StoredInv, VersionInv, Sorted, Levels
<1>2. in0 # {} /\ in0 \in SUBSET Files /\ in1 \in SUBSET Files
  BY DEF GoodInputs
<1> DEFINE lo == Lo(in0)
           hi == Hi(in0)
           X == GetOverlappingInputs(l + 1, lo, hi)
<1>3. /\ lo \in Int /\ hi \in Int
      /\ \A f \in in0 : lo <= Smallest(f).key /\ Largest(f).key <= hi
  BY <1>1, <1>2, RangeOfFiles
<1>4. in1 = AddBoundaryInputs(l + 1, X)
  BY Zenon DEF Lower
<1> HIDE DEF lo, hi
<1>5. X = InRange(l + 1, lo, hi)
  BY <1>1, InputsByName
<1>6. X \in SUBSET files_[l + 1] /\ X \subseteq in1
  BY <1>4, <1>5, InputsByName DEF InRange
<1>7. OldestOf(l + 1, in1)
  <2>1. Whole(l + 1, X)
    BY <1>1, <1>3, OverlappingIsWhole
  <2> HIDE DEF X
  <2> QED BY <1>1, <1>4, <1>6, <2>1, BoundaryIsOldest
<1>8. ASSUME NEW g \in files_[l + 1] \ in1 PROVE NoKeyOf(g, UNION in0)
  <2>1. ~Overlaps(g, lo, hi) /\ g \in Files
    BY <1>1, <1>5, <1>6, <1>8 DEF InRange
  <2>2. /\ Smallest(g).key \in Int /\ Largest(g).key \in Int
        /\ \A e \in g : e.key \in Int /\ Smallest(g).key <= e.key /\ e.key <= Largest(g).key
    BY <1>1, <2>1, RangeOfFile
  <2>3. \A f \in in0 : \A d \in f : d.key \in Int /\ lo <= d.key /\ d.key <= hi
    <3> SUFFICES ASSUME NEW f \in in0, NEW d \in f PROVE d.key \in Int /\ lo <= d.key /\ d.key <= hi
      OBVIOUS
    <3>1. /\ Smallest(f).key \in Int /\ Largest(f).key \in Int /\ d.key \in Int
          /\ Smallest(f).key <= d.key /\ d.key <= Largest(f).key
      BY <1>1, <1>2, RangeOfFile
    <3> QED BY <1>3, <3>1
  <2> QED BY <1>3, <2>1, <2>2, <2>3 DEF NoKeyOf, Overlaps
<1>9. ASSUME NEW i \in l + 2..kNumLevels - 1, NEW g \in files_[i], NEW k \in Keys,
             IsBaseLevelForKey(l, k), NEW e \in g
      PROVE  e.key # k
  <2>1. i \in Levels /\ ~Overlaps(g, k, k) /\ k \in Int
    BY <1>9, CompactionAssumption DEF IsBaseLevelForKey, OverlapInLevel, Levels
  <2>2. /\ Smallest(g).key \in Int /\ Largest(g).key \in Int
        /\ e.key \in Int /\ Smallest(g).key <= e.key /\ e.key <= Largest(g).key
    BY <1>1, <2>1, RangeOfFile
  <2> QED BY <2>1, <2>2 DEF Overlaps
<1> QED BY <1>7, <1>8, <1>9 DEF Buried, NoKeyOf

\* A table that is flushed below level 0 has no key of the files above it and
\* of those at its level.
LEMMA FlushedHasNewKeys ==
  ASSUME LevelsInv, imm_ # {}, NEW l \in PickLevelForMemTableOutput(Smallest(imm_).key, Largest(imm_).key),
         l # 0, NEW i \in 0..l, NEW g \in files_[i]
  PROVE  NoKeyOf(imm_, g)
PROOF
<1> DEFINE lo == Smallest(imm_).key
           hi == Largest(imm_).key
<1>1. Ordered(written) /\ imm_ \in Files
  BY DEF LevelsInv, StoredInv, VersionInv, Files
<1>2. l \in Levels /\ ~Overlaps(g, lo, hi)
  BY PickedLevelIsFree
<1>3. g \in Files
  BY <1>2, CompactionAssumption DEF Levels, LevelsInv, StoredInv, VersionInv
<1>4. \A f \in Files : /\ Smallest(f).key \in Int /\ Largest(f).key \in Int
                       /\ \A d \in f : d.key \in Int /\ Smallest(f).key <= d.key /\ d.key <= Largest(f).key
  BY <1>1, RangeOfFile
<1> QED BY <1>1, <1>2, <1>3, <1>4 DEF Overlaps, NoKeyOf
-----------------------------------------------------------------------------
(* The steps                                                               *)

\* DBImpl::Write: a reader at the new sequence number finds the new entry, the
\* other readers what they found before.
LEMMA WriteReads ==
  ASSUME CompactionInv, LevelsInv, ReadsInv, NEW k \in workload.keys, NEW del \in BOOLEAN, Write(k, del)
  PROVE  ReadsInv'
PROOF
<1> DEFINE e == [key |-> k, seq |-> LastSequence + 1, del |-> del]
<1>1. /\ mem_' = mem_ \cup {e} /\ written' = written \cup {e}
      /\ UNCHANGED <<imm_, files_, snapshots_, compaction>>
  BY DEF Write
<1>2. /\ LastSequence \in Nat /\ IsFiniteSet(written) /\ snapshots_ \subseteq 0..LastSequence
      /\ 0 \in Levels
  <2>1. LastSequence \in Nat /\ IsFiniteSet(written)
    BY SequenceGrows, Zenon DEF CompactionInv, TypeInv
  <2> QED BY <2>1, CompactionAssumption DEF CompactionInv, Levels
<1>3. e.seq = LastSequence + 1 /\ e.key = k
  OBVIOUS
<1> HIDE DEF e
<1>4. /\ \A d \in written : d.seq \in Nat /\ d.seq <= LastSequence
      /\ mem_ \subseteq written /\ imm_ \subseteq written
      /\ \A l \in Levels : files_[l] \subseteq Files
  BY DEF LevelsInv, StoredInv, VersionInv, Ordered, Entry
<1>5. LastSequence' = LastSequence + 1
  <2>1. e \notin written
    BY <1>2, <1>3, <1>4
  <2> QED BY <1>1, <1>2, <2>1, FS_AddElement DEF LastSequence
<1>6. Stacked'
  <2>1. Stacked
    BY DEF ReadsInv
  <2>2. \A d \in written : e.seq > d.seq
    BY <1>2, <1>3, <1>4
  <2>3. Later(mem_', imm_) /\ \A f \in files_[0] : Later(mem_', f)
    BY <1>1, <1>2, <1>4, <2>1, <2>2 DEF Stacked, Later, Files
  <2> QED BY <1>1, <2>1, <2>3 DEF Stacked, Later
<1>7. BuriedInv'
  BY <1>1, Zenon DEF ReadsInv, BuriedInv, Buried, Running, Upper, Under, OldestOf
<1>8. Stored' = Stored \cup {e} /\ Stored \subseteq written
  <2>1. InFiles' = InFiles
    BY <1>1, Zenon DEF InFiles, Levels
  <2>2. InFiles \subseteq written
    BY <1>4 DEF InFiles, Files
  <2> QED BY <1>1, <1>4, <2>1, <2>2 DEF Stored
<1>9. Readable'
  <2> SUFFICES ASSUME NEW q \in Keys, NEW s \in snapshots_ \cup {LastSequence + 1}
               PROVE  Value(NewestIn(Stored \cup {e}, q, s)) = Value(NewestIn(written \cup {e}, q, s))
    BY <1>1, <1>5, <1>8, Zenon DEF Readable
  <2>1. \A r \in snapshots_ \cup {LastSequence} :
          Value(NewestIn(Stored, q, r)) = Value(NewestIn(written, q, r))
    BY Zenon DEF ReadsInv, Readable
  <2>2. CASE s \in snapshots_
    <3>1. ~(e.seq <= s)
      BY <1>2, <1>3, <2>2
    <3>2. \A S : NewestIn(S \cup {e}, q, s) = NewestIn(S, q, s)
      BY <3>1 DEF NewestIn
    <3> QED BY <2>1, <2>2, <3>2
  <2>3. CASE s = LastSequence + 1 /\ q = k
    <3>1. ASSUME NEW S \in SUBSET written PROVE NewestIn(S \cup {e}, q, s) = {e}
      <4>1. \A d \in S : d.seq \in Nat /\ d.seq < e.seq
        BY <1>2, <1>3, <1>4
      <4>2. e \in NewestIn(S \cup {e}, q, s)
        BY <1>2, <1>3, <2>3, <4>1, NewestIs
      <4>3. ASSUME NEW d \in NewestIn(S \cup {e}, q, s) PROVE d = e
        <5>1. d \in S \cup {e} /\ e.seq <= d.seq
          BY <1>2, <1>3, <2>3, NewestIs
        <5> QED BY <1>2, <1>3, <4>1, <5>1
      <4> QED BY <4>2, <4>3
    <3> QED BY <1>8, <3>1
  <2>4. CASE s = LastSequence + 1 /\ q # k
    <3>1. ASSUME NEW S \in SUBSET written PROVE NewestIn(S \cup {e}, q, s) = NewestIn(S, q, LastSequence)
      <4>1. \A d \in S \cup {e} : d.key = q /\ d.seq <= s <=> d \in S /\ d.key = q /\ d.seq <= LastSequence
        BY <1>2, <1>3, <1>4, <2>4
      <4> QED BY <4>1, Zenon DEF NewestIn
    <3> QED BY <1>8, <2>1, <3>1
  <2> QED BY <2>2, <2>3, <2>4
<1> QED BY <1>6, <1>7, <1>9 DEF ReadsInv

\* MakeRoomForWrite, and taking and releasing snapshots.
LEMMA SwitchReads ==
  ASSUME ReadsInv,
         \/ SwitchMemTable
         \/ GetSnapshot \/ (\E s \in snapshots_ : ReleaseSnapshot(s)) \/ UNCHANGED vars
  PROVE  ReadsInv'
PROOF
<1>1. /\ UNCHANGED <<files_, compaction, written>>
      /\ UNCHANGED <<mem_, imm_>> \/ (imm_ = {} /\ imm_' = mem_ /\ mem_' = {})
      /\ snapshots_' \subseteq snapshots_ \cup {LastSequence}
  BY DEF SwitchMemTable, GetSnapshot, ReleaseSnapshot, vars
<1>2. Stacked'
  BY <1>1 DEF ReadsInv, Stacked, Later
<1>3. BuriedInv'
  BY <1>1, Zenon DEF ReadsInv, BuriedInv, Buried, Running, Upper, Under, OldestOf
<1>4. Stored' = Stored
  BY <1>1 DEF Stored, InFiles
<1>5. Readable'
  BY <1>1, <1>4, SameStored DEF ReadsInv
<1> QED BY <1>2, <1>3, <1>5 DEF ReadsInv

\* CompactMemTable, also in the middle of a compaction.
LEMMA FlushReads ==
  ASSUME CompactionInv, LevelsInv, ReadsInv, CompactMemTable
  PROVE  ReadsInv'
PROOF
<1> DEFINE lo == Smallest(imm_).key
           hi == Largest(imm_).key
<1>1. /\ imm_ # {} /\ imm_' = {} /\ UNCHANGED <<mem_, snapshots_, compaction, written>>
  BY DEF CompactMemTable
<1>2. PICK l \in PickLevelForMemTableOutput(lo, hi) : files_' = [files_ EXCEPT ![l] = @ \cup {imm_}]
  BY Zenon DEF CompactMemTable
<1>3. l \in Levels /\ l \in Int /\ l >= 0 /\ 0 \in Levels /\ kNumLevels \in Nat
  BY <1>2, PickedLevelIsFree, CompactionAssumption DEF Levels
<1>4. /\ files_'[l] = files_[l] \cup {imm_}
      /\ \A i \in Levels \ {l} : files_'[i] = files_[i]
  BY <1>2, <1>3 DEF CompactionInv, TypeInv
<1>5. l # 0 => \A i \in 0..l : \A g \in files_[i] : NoKeyOf(imm_, g)
  BY <1>1, <1>2, FlushedHasNewKeys
<1> HIDE DEF lo, hi
<1>6. Stacked'
  <2>1. Stacked
    BY DEF ReadsInv
  <2>2. files_'[0] \subseteq files_[0] \cup {imm_}
    BY <1>3, <1>4
  <2>3. \A f \in files_'[0] : Later(mem_, f)
    BY <2>1, <2>2 DEF Stacked
  <2>4. \A f, g \in files_'[0] : f = g \/ Later(f, g) \/ Later(g, f)
    BY <2>1, <2>2 DEF Stacked
  <2> QED BY <1>1, <2>3, <2>4 DEF Stacked, Later
<1>7. BuriedInv'
  <2> SUFFICES ASSUME Running PROVE Buried(compaction.level, Upper, Under, compaction.base)'
    BY <1>1 DEF BuriedInv, Running
  <2> DEFINE n == compaction.level
             base == compaction.base
  <2>1. /\ Buried(n, Upper, Under, base) /\ GoodInputs(n, Upper, Under) /\ n \in 0..kNumLevels - 2
    BY DEF ReadsInv, BuriedInv, LevelsInv, WorkInv, CompactionInv, MergeInv
  <2>2. n \in Levels /\ n + 1 \in Levels /\ n \in Int /\ n >= 0
    BY <1>3, <2>1 DEF Levels
  <2>3. n' = n /\ base' = base /\ Upper' = Upper /\ Under' = Under
    BY <1>1 DEF Upper, Under
  <2> HIDE DEF n, base
  <2>4. Upper \in SUBSET files_[n] /\ Under \in SUBSET files_[n + 1]
    BY <2>1, Zenon DEF GoodInputs
  <2>5. ASSUME NEW g \in files_'[n + 1] \ Under, NEW e \in g, NEW d \in UNION Under, e.key = d.key
        PROVE  e.seq > d.seq
    <3>1. CASE g \in files_[n + 1]
      BY <2>1, <2>5, <3>1, Zenon DEF Buried, OldestOf
    <3>2. CASE g \notin files_[n + 1]
      <4>1. l = n + 1 /\ g = imm_
        BY <1>4, <2>2, <3>2
      <4>2. \A f \in files_[l] : NoKeyOf(imm_, f)
        BY <1>3, <1>5, <2>2, <4>1
      <4> QED BY <2>4, <2>5, <4>1, <4>2 DEF NoKeyOf
    <3> QED BY <3>1, <3>2
  <2>6. ASSUME NEW g \in files_'[n + 1] \ Under PROVE NoKeyOf(g, UNION Upper)
    <3>1. CASE g \in files_[n + 1]
      BY <2>1, <2>6, <3>1, Zenon DEF Buried
    <3>2. CASE g \notin files_[n + 1]
      <4>1. l = n + 1 /\ g = imm_
        BY <1>4, <2>2, <3>2
      <4>2. \A f \in files_[n] : NoKeyOf(imm_, f)
        BY <1>5, <2>2, <4>1
      <4> QED BY <2>4, <4>1, <4>2 DEF NoKeyOf
    <3> QED BY <3>1, <3>2
  <2>7. ASSUME NEW i \in n + 2..kNumLevels - 1, NEW g \in files_'[i],
               NEW d \in UNION (Upper \cup Under), d.key \in base
        PROVE  NoKeyOf(g, {d})
    <3>1. CASE g \in files_[i]
      BY <2>1, <2>7, <3>1, Zenon DEF Buried
    <3>2. CASE g \notin files_[i]
      <4>1. i \in Levels /\ i # 0
        BY <1>3, <2>2 DEF Levels
      <4>2. l = i /\ g = imm_
        BY <1>4, <3>2, <4>1
      <4>3. n \in 0..l /\ n + 1 \in 0..l /\ l # 0
        BY <1>3, <2>2, <4>1, <4>2
      <4>4. \A f \in files_[n] \cup files_[n + 1] : NoKeyOf(imm_, f)
        BY <1>5, <4>3
      <4> QED BY <2>4, <4>2, <4>4 DEF NoKeyOf
    <3> QED BY <3>1, <3>2
  <2>8. Buried(n, Upper, Under, base)'
    BY <2>3, <2>5, <2>6, <2>7, Zenon DEF Buried, OldestOf
  <2> QED BY <2>8 DEF n, base
<1>8. Stored' = Stored
  <2>1. \A e : e \in InFiles' <=> e \in InFiles \/ e \in imm_
    <3>1. /\ \A e : e \in InFiles <=> \E i \in Levels : \E g \in files_[i] : e \in g
          /\ \A e : e \in InFiles' <=> \E i \in Levels : \E g \in files_'[i] : e \in g
      BY InFilesAre
    <3>2. \A i \in Levels : \A g : g \in files_'[i] <=> g \in files_[i] \/ (i = l /\ g = imm_)
      BY <1>4
    <3> QED BY <1>3, <3>1, <3>2, Zenon
  <2> QED BY <1>1, <2>1 DEF Stored
<1>9. Readable'
  BY <1>1, <1>8, SameStored DEF ReadsInv
<1> QED BY <1>6, <1>7, <1>9 DEF ReadsInv
\* StartCompaction: the files stay where they are.
LEMMA StartReads ==
  ASSUME LevelsInv, LevelsInv', ReadsInv, NEW l \in 0..kNumLevels - 2, NEW chosen,
         NEW in \in SetupOtherInputs(l, chosen), NEW is_manual,
         StartCompaction(l, in[1], in[2], is_manual),
         UNCHANGED <<mem_, imm_, snapshots_, written>>
  PROVE  ReadsInv'
PROOF
<1>1. /\ compaction'.level = l /\ Upper' = in[1] /\ Under' = in[2] /\ UNCHANGED files_
      /\ compaction'.base = {k \in Keys : IsBaseLevelForKey(l, k)}
  BY DEF StartCompaction, Upper, Under
<1>2. Running'
  BY <1>1 DEF Running
<1>3. GoodInputs(compaction.level, Upper, Under)'
  BY <1>2 DEF LevelsInv, WorkInv
<1>4. GoodInputs(l, in[1], in[2])
  BY <1>1, <1>3, Zenon DEF GoodInputs, OldestOf, Files
<1>5. in[2] = Lower(l, in[1])
  BY LowerInputs
<1> DEFINE in0 == in[1]
           in1 == in[2]
           base == {k \in Keys : IsBaseLevelForKey(l, k)}
<1>6. in1 = Lower(l, in0) /\ GoodInputs(l, in0, in1)
  BY <1>4, <1>5
<1> HIDE DEF in0, in1
<1>7. Buried(l, in0, in1, base)
  BY <1>6, StartBuries
<1> HIDE DEF base
<1>8. Buried(l, in0, in1, base)'
  BY <1>1, <1>7, Zenon DEF Buried, OldestOf, in0, in1, base, IsBaseLevelForKey, OverlapInLevel
<1>9. BuriedInv'
  <2>1. base' = base /\ in0' = in0 /\ in1' = in1
    BY <1>1 DEF base, in0, in1, IsBaseLevelForKey, OverlapInLevel
  <2>2. compaction'.level = l /\ Upper' = in0' /\ Under' = in1' /\ compaction'.base = base'
    BY <1>1, <2>1 DEF base, in0, in1
  <2> QED BY <1>8, <2>2, Zenon DEF BuriedInv, Buried, OldestOf
<1>10. Stacked'
  BY <1>1 DEF ReadsInv, Stacked, Later
<1>11. Stored' = Stored
  BY <1>1 DEF Stored, InFiles
<1>12. Readable'
  BY <1>11, SameStored DEF ReadsInv
<1> QED BY <1>9, <1>10, <1>12 DEF ReadsInv

\* BackgroundCompaction with PickCompaction: a trivial move takes a file down
\* a level as it is.
LEMMA CompactReads ==
  ASSUME CompactionInv, LevelsInv, LevelsInv', ReadsInv, NEW l \in 0..kNumLevels - 2, NEW f \in files_[l],
         Compact(l, f)
  PROVE  ReadsInv'
PROOF
<1> DEFINE chosen == IF l = 0 THEN GetOverlappingInputs(0, Lo({f}), Hi({f})) ELSE {f}
<1>1. PICK in \in SetupOtherInputs(l, chosen) :
        \/ Cardinality(in[1]) = 1 /\ TrivialMove(l, CHOOSE g \in in[1] : TRUE)
        \/ StartCompaction(l, in[1], in[2], FALSE)
  BY Zenon DEF Compact
<1>2. ~Running /\ UNCHANGED <<mem_, imm_, snapshots_, written>>
  BY DEF Compact
<1>3. chosen \in SUBSET files_[l]
  BY DEF GetOverlappingInputs, Reached
<1> HIDE DEF chosen
<1>4. CASE StartCompaction(l, in[1], in[2], FALSE)
  BY <1>2, <1>4, StartReads, Zenon
<1>5. CASE Cardinality(in[1]) = 1 /\ TrivialMove(l, CHOOSE g \in in[1] : TRUE)
  <2> DEFINE g == CHOOSE x \in in[1] : TRUE
  <2>1. in[1] # {}
    BY <1>5, FS_EmptySet
  <2>2. g \in in[1]
    BY <2>1
  <2>3. g \in files_[l]
    BY <1>3, <2>2, InputsAreFiles
  <2> HIDE DEF g
  <2>4. files_' = [files_ EXCEPT ![l] = @ \ {g}, ![l + 1] = @ \cup {g}] /\ UNCHANGED compaction
    BY <1>5, Zenon DEF TrivialMove, g
  <2>5. l \in Levels /\ l + 1 \in Levels /\ l # l + 1 /\ 0 \in Levels /\ l + 1 # 0 /\ DOMAIN files_ = Levels
    BY CompactionAssumption DEF Levels, CompactionInv, TypeInv
  <2>6. /\ files_'[l] = files_[l] \ {g} /\ files_'[l + 1] = files_[l + 1] \cup {g}
        /\ \A i \in Levels : i # l /\ i # l + 1 => files_'[i] = files_[i]
    BY <2>4, <2>5
  <2>7. Stacked'
    <3>1. files_'[0] \subseteq files_[0]
      BY <2>5, <2>6
    <3> QED BY <1>2, <3>1 DEF ReadsInv, Stacked, Later
  <2>8. BuriedInv'
    BY <1>2, <2>4 DEF BuriedInv, Running
  <2>9. Stored' = Stored
    <3>1. /\ \A e : e \in InFiles <=> \E i \in Levels : \E h \in files_[i] : e \in h
          /\ \A e : e \in InFiles' <=> \E i \in Levels : \E h \in files_'[i] : e \in h
      BY InFilesAre
    <3>2. \A i \in Levels : \A h \in files_[i] : \E j \in Levels : h \in files_'[j]
      BY <2>5, <2>6, Zenon
    <3>3. \A i \in Levels : \A h \in files_'[i] : \E j \in Levels : h \in files_[j]
      BY <2>3, <2>5, <2>6, Zenon
    <3>4. InFiles' = InFiles
      BY <3>1, <3>2, <3>3, Zenon
    <3> QED BY <1>2, <3>4 DEF Stored
  <2>10. Readable'
    BY <1>2, <2>9, SameStored DEF ReadsInv
  <2> QED BY <2>7, <2>8, <2>10 DEF ReadsInv
<1> QED BY <1>1, <1>4, <1>5

\* BackgroundCompaction with CompactRange.
LEMMA CompactRangeReads ==
  ASSUME LevelsInv, LevelsInv', ReadsInv, NEW l \in 0..kNumLevels - 2, NEW lo, NEW hi, CompactRange(l, lo, hi)
  PROVE  ReadsInv'
PROOF
<1>1. UNCHANGED <<mem_, imm_, snapshots_, written>>
  BY DEF CompactRange
<1>2. \E chosen : \E in \in SetupOtherInputs(l, chosen) : StartCompaction(l, in[1], in[2], TRUE)
  BY Zenon DEF CompactRange
<1>3. PICK chosen : \E in \in SetupOtherInputs(l, chosen) : StartCompaction(l, in[1], in[2], TRUE)
  BY <1>2
<1>4. PICK in \in SetupOtherInputs(l, chosen) : StartCompaction(l, in[1], in[2], TRUE)
  BY <1>3
<1> QED BY <1>1, <1>4, StartReads, Zenon

\* The output files hold all entries that are kept.
LEMMA OutputsAreAll ==
  ASSUME NEW entries, NEW out \in Outputs(entries)
  PROVE  entries \subseteq UNION out
PROOF
<1>1. PICK cuts \in SUBSET entries :
        out = {{e \in entries : {c \in cuts : Before(c, e)} = {c \in cuts : Before(c, d)}} : d \in entries}
  BY Zenon DEF Outputs
<1> SUFFICES ASSUME NEW e \in entries PROVE e \in UNION out
  OBVIOUS
<1> DEFINE file == {d \in entries : {c \in cuts : Before(c, d)} = {c \in cuts : Before(c, e)}}
<1>2. file \in out
  BY <1>1, Zenon
<1>3. e \in file
  BY Zenon
<1> QED BY <1>2, <1>3, Zenon

\* InstallCompactionResults: what is dropped is not missed, as all older
\* entries are buried.
LEMMA InstallReads ==
  ASSUME CompactionInv, LevelsInv, ReadsInv, InstallCompactionResults
  PROVE  ReadsInv'
PROOF
<1> DEFINE l == compaction.level
           base == compaction.base
           smallest == compaction.smallest_snapshot
           merged == UNION (Upper \cup Under)
           kept == Kept(merged, smallest, base)
<1>1. /\ Running /\ compaction' = NoCompaction /\ UNCHANGED <<mem_, imm_, snapshots_, written>>
  BY DEF InstallCompactionResults
<1>2. PICK out \in Outputs(kept) :
        files_' = [files_ EXCEPT ![l] = @ \ Upper, ![l + 1] = (@ \ Under) \cup out]
  BY Zenon DEF InstallCompactionResults, Upper, Under
<1>3. /\ l \in 0..kNumLevels - 2 /\ GoodInputs(l, Upper, Under) /\ Buried(l, Upper, Under, base)
      /\ smallest \in 0..LastSequence /\ \A s \in snapshots_ : smallest <= s
      /\ snapshots_ \subseteq 0..LastSequence /\ DOMAIN files_ = Levels
  BY <1>1 DEF CompactionInv, TypeInv, MergeInv, LevelsInv, WorkInv, ReadsInv, BuriedInv
<1>4. Upper \in SUBSET files_[l] /\ Under \in SUBSET files_[l + 1] /\ OldestOf(l, Upper)
  BY <1>3, Zenon DEF GoodInputs
<1>5. /\ l \in Levels /\ l + 1 \in Levels /\ l # l + 1 /\ 0 \in Levels /\ l + 1 # 0
      /\ l \in Int /\ kNumLevels \in Int
  BY <1>3, CompactionAssumption DEF Levels
<1>6. LastSequence \in Nat
  BY SequenceGrows, Zenon DEF CompactionInv
<1>7. UNION out = kept /\ kept \in SUBSET merged
  <2>1. kept \in SUBSET merged
    BY Zenon DEF Kept
  <2> HIDE DEF kept
  <2> QED BY <1>2, <2>1, OutputsAreAll, OutputsAreCut
<1> HIDE DEF l, base, smallest
<1>8. /\ files_'[l] = files_[l] \ Upper /\ files_'[l + 1] = (files_[l + 1] \ Under) \cup out
      /\ \A i \in Levels : i # l /\ i # l + 1 => files_'[i] = files_[i]
  BY <1>2, <1>3, <1>5
<1>9. Stacked'
  <2>1. files_'[0] \subseteq files_[0]
    BY <1>5, <1>8
  <2> QED BY <1>1, <2>1 DEF ReadsInv, Stacked, Later
<1>10. BuriedInv'
  BY <1>1 DEF BuriedInv, Running, NoCompaction
<1> DEFINE others == UNION {UNION files_[i] : i \in Levels \ {l, l + 1}}
           above == UNION (files_[l] \ Upper)
           beside == UNION (files_[l + 1] \ Under)
           rest == mem_ \cup imm_ \cup others \cup above \cup beside
<1>11. Stored = rest \cup merged /\ Stored' = rest \cup kept
  <2>1. /\ \A e : e \in InFiles <=> \E i \in Levels : \E h \in files_[i] : e \in h
        /\ \A e : e \in InFiles' <=> \E i \in Levels : \E h \in files_'[i] : e \in h
    BY InFilesAre
  <2>2. \A e : /\ e \in others <=> \E i \in Levels \ {l, l + 1} : \E h \in files_[i] : e \in h
               /\ e \in above <=> \E h \in files_[l] \ Upper : e \in h
               /\ e \in beside <=> \E h \in files_[l + 1] \ Under : e \in h
               /\ e \in merged <=> \E h \in Upper \cup Under : e \in h
               /\ e \in kept <=> \E h \in out : e \in h
    <3> SUFFICES ASSUME NEW e
                 PROVE  /\ e \in others <=> \E i \in Levels \ {l, l + 1} : \E h \in files_[i] : e \in h
                        /\ e \in above <=> \E h \in files_[l] \ Upper : e \in h
                        /\ e \in beside <=> \E h \in files_[l + 1] \ Under : e \in h
                        /\ e \in merged <=> \E h \in Upper \cup Under : e \in h
                        /\ e \in kept <=> \E h \in out : e \in h
      OBVIOUS
    <3>1. e \in others <=> \E i \in Levels \ {l, l + 1} : \E h \in files_[i] : e \in h
      OBVIOUS
    <3>2. e \in kept <=> \E h \in out : e \in h
      <4> HIDE DEF kept
      <4> QED BY <1>7
    <3> QED BY <3>1, <3>2
  <2> HIDE DEF others, above, beside, merged, kept
  <2>3. InFiles = others \cup above \cup beside \cup merged
    <3>1. ASSUME NEW e \in InFiles PROVE e \in others \cup above \cup beside \cup merged
      <4>1. PICK i \in Levels : \E h \in files_[i] : e \in h
        BY <2>1
      <4> QED BY <2>2, <4>1, Zenon
    <3>2. ASSUME NEW e \in others \cup above \cup beside \cup merged PROVE e \in InFiles
      BY <1>4, <1>5, <2>1, <2>2, Zenon
    <3> QED BY <3>1, <3>2
  <2>4. InFiles' = others \cup above \cup beside \cup kept
    <3>1. ASSUME NEW e \in InFiles' PROVE e \in others \cup above \cup beside \cup kept
      <4>1. PICK i \in Levels : \E h \in files_'[i] : e \in h
        BY <2>1
      <4> QED BY <1>8, <2>2, <4>1, Zenon
    <3>2. ASSUME NEW e \in others \cup above \cup beside \cup kept PROVE e \in InFiles'
      <4>1. CASE e \in others
        <5>1. PICK i \in Levels \ {l, l + 1} : \E h \in files_[i] : e \in h
          BY <2>2, <4>1
        <5> QED BY <1>8, <2>1, <5>1
      <4>2. CASE e \in above
        BY <1>5, <1>8, <2>1, <2>2, <4>2
      <4>3. CASE e \in beside \cup kept
        BY <1>5, <1>8, <2>1, <2>2, <4>3
      <4> QED BY <3>2, <4>1, <4>2, <4>3
    <3> QED BY <3>1, <3>2
  <2> QED BY <1>1, <2>3, <2>4 DEF Stored
<1>12. ASSUME NEW d \in merged, NEW e \in rest, d.key \in base, e.key = d.key
       PROVE  e.seq > d.seq
  <2>1. d \in UNION Upper \/ d \in UNION Under
    OBVIOUS
  <2>2. /\ \A i \in Levels : i \in -2..kNumLevels - 1 /\ Layer(i) = UNION files_[i]
        /\ -2 \in -2..kNumLevels - 1 /\ -1 \in -2..kNumLevels - 1 /\ Layer(-2) = mem_ /\ Layer(-1) = imm_
    BY <1>5 DEF Levels, Layer
  <2>3. \A i, j \in -2..kNumLevels - 1 : i < j => Over(i, j)
    BY DEF LevelsInv, OnTop
  <2>4. ASSUME NEW i \in -2..kNumLevels - 1, i < l, e \in Layer(i) PROVE e.seq > d.seq
    <3>1. Over(i, l) /\ Over(i, l + 1)
      BY <1>5, <2>2, <2>3, <2>4
    <3>2. d \in Layer(l) \/ d \in Layer(l + 1)
      BY <1>4, <1>5, <2>1, <2>2
    <3> QED BY <1>12, <2>4, <3>1, <3>2 DEF Over
  <2>5. CASE e \in mem_ \cup imm_
    <3>1. -2 < l /\ -1 < l
      BY <1>3 DEF l
    <3> QED BY <2>2, <2>4, <2>5, <3>1
  <2>6. CASE e \in others
    <3>1. PICK i \in Levels \ {l, l + 1} : e \in UNION files_[i]
      BY <2>6
    <3>2. CASE i < l
      BY <2>2, <2>4, <3>1, <3>2
    <3>3. CASE ~(i < l)
      <4>1. i \in l + 2..kNumLevels - 1
        BY <1>5, <3>1, <3>3 DEF Levels
      <4>2. PICK g \in files_[i] : e \in g
        BY <3>1
      <4>3. NoKeyOf(g, {d})
        BY <1>3, <1>12, <4>1, <4>2, Zenon DEF Buried
      <4> QED BY <1>12, <4>2, <4>3 DEF NoKeyOf
    <3> QED BY <3>2, <3>3
  <2>7. CASE e \in above
    <3>1. CASE d \in UNION Upper
      BY <1>4, <1>12, <2>7, <3>1 DEF OldestOf
    <3>2. CASE d \in UNION Under
      <4>1. Over(l, l + 1) /\ e \in Layer(l) /\ d \in Layer(l + 1)
        BY <1>4, <1>5, <2>2, <2>3, <2>7, <3>2
      <4> QED BY <1>12, <4>1 DEF Over
    <3> QED BY <2>1, <3>1, <3>2
  <2>8. CASE e \in beside
    <3>1. PICK g \in files_[l + 1] \ Under : e \in g
      BY <2>8
    <3>2. CASE d \in UNION Under
      BY <1>3, <1>12, <3>1, <3>2 DEF Buried, OldestOf
    <3>3. CASE d \in UNION Upper
      BY <1>3, <1>12, <3>1, <3>3 DEF Buried, NoKeyOf
    <3> QED BY <2>1, <3>2, <3>3
  <2> QED BY <1>12, <2>5, <2>6, <2>7, <2>8
<1>13. rest \in SUBSET Entry /\ merged \in SUBSET Entry
  <2>1. Stored \in SUBSET Entry
    BY InFilesAre DEF Stored, LevelsInv, StoredInv, VersionInv, Files, Ordered
  <2> HIDE DEF rest, merged
  <2> QED BY <1>11, <2>1
<1> HIDE DEF rest, merged, kept
<1>14. ASSUME NEW k \in Keys, NEW s \in snapshots_ \cup {LastSequence}
       PROVE  Value(NewestIn(rest \cup kept, k, s)) = Value(NewestIn(rest \cup merged, k, s))
  <2>1. s \in Nat /\ smallest \in Nat /\ smallest <= s
    BY <1>3, <1>6, <1>14 DEF smallest
  <2>2. Outlived(rest, merged, base)
    BY <1>12, Zenon DEF Outlived
  <2>3. /\ rest \in SUBSET Entry /\ merged \in SUBSET Entry /\ smallest \in Nat /\ s \in Nat
        /\ smallest <= s
    BY <1>13, <2>1
  <2>4. Value(NewestIn(rest \cup Kept(merged, smallest, base), k, s)) = Value(NewestIn(rest \cup merged, k, s))
    BY <2>2, <2>3, DropIsInvisible
  <2>5. kept = Kept(merged, smallest, base)
    BY Zenon DEF kept
  <2> QED BY <2>4, <2>5
<1>15. Readable'
  <2> SUFFICES ASSUME NEW k \in Keys, NEW s \in snapshots_ \cup {LastSequence}
               PROVE  Value(NewestIn(Stored', k, s)) = Value(NewestIn(written, k, s))
    BY <1>1, Zenon DEF Readable, LastSequence
  <2>1. Value(NewestIn(Stored, k, s)) = Value(NewestIn(written, k, s))
    BY Zenon DEF ReadsInv, Readable
  <2> QED BY <1>11, <1>14, <2>1
<1> QED BY <1>9, <1>10, <1>15 DEF ReadsInv

\* Unless a table is put in a gap, each step keeps it.
LEMMA NextKeepsReads ==
  CompactionInv /\ (gap \/ LevelsInv) /\ (gap \/ LevelsInv)' /\ (gap \/ ReadsInv) /\ [Next]_vars
    => (gap \/ ReadsInv)'
PROOF
<1> SUFFICES ASSUME CompactionInv, gap \/ LevelsInv, LevelsInv', gap \/ ReadsInv, [Next]_vars, ~gap'
             PROVE  ReadsInv'
  BY Zenon
<1>1. LevelsInv /\ ReadsInv
  <2>1. gap => gap'
    BY Zenon DEF Next, Write, SwitchMemTable, CompactMemTable, GetSnapshot, ReleaseSnapshot, Compact,
           CompactRange, InstallCompactionResults, vars
  <2> QED BY <2>1, Zenon
<1>2. ASSUME NEW k \in workload.keys, NEW del \in BOOLEAN, Write(k, del) PROVE ReadsInv'
  BY <1>1, <1>2, WriteReads
<1>3. CASE SwitchMemTable \/ GetSnapshot \/ (\E s \in snapshots_ : ReleaseSnapshot(s)) \/ UNCHANGED vars
  BY <1>1, <1>3, SwitchReads
<1>4. CASE CompactMemTable
  BY <1>1, <1>4, FlushReads
<1>5. ASSUME NEW l \in 0..kNumLevels - 2, NEW f \in files_[l], Compact(l, f) PROVE ReadsInv'
  BY <1>1, <1>5, CompactReads
<1>6. ASSUME NEW l \in 0..kNumLevels - 2, NEW lo \in Keys, NEW hi \in Keys, CompactRange(l, lo, hi)
      PROVE  ReadsInv'
  BY <1>1, <1>6, CompactRangeReads
<1>7. CASE InstallCompactionResults
  BY <1>1, <1>7, InstallReads
<1> QED BY <1>2, <1>3, <1>4, <1>5, <1>6, <1>7 DEF Next

\* Get returns the value that the key was last given, and none if it was last
\* deleted, now and at every snapshot that is held, for any keys, levels and
\* workloads, as long as no table is put in a gap of a manual compaction.
THEOREM ReadsStayRight == Spec => []ReadsAreRight
PROOF
<1>1. Init => CompactionInv /\ (gap \/ ReadsInv)
  <2> SUFFICES ASSUME Init PROVE CompactionInv /\ ReadsInv
    OBVIOUS
  <2>1. CompactionInv
    BY FS_EmptySet DEF Init, CompactionInv, TypeInv, MergeInv, Running, NoCompaction, LastSequence
  <2>2. Stacked /\ BuriedInv
    BY CompactionAssumption DEF Init, Stacked, Later, BuriedInv, Running, NoCompaction, Levels
  <2>3. Stored = {} /\ written = {}
    BY DEF Init, Stored, InFiles
  <2>4. Readable
    BY <2>3 DEF Readable
  <2> QED BY <2>1, <2>2, <2>4 DEF ReadsInv
<1>2. CompactionInv /\ (gap \/ LevelsInv) /\ (gap \/ ReadsInv) => ReadsAreRight
  <2> SUFFICES ASSUME CompactionInv, LevelsInv, ReadsInv, NEW k \in Keys, NEW s \in snapshots_ \cup {LastSequence}
               PROVE  Value(Get(k, s)) = Value(NewestIn(written, k, s))
    BY Zenon DEF ReadsAreRight
  <2>1. LastSequence \in Nat
    BY SequenceGrows, Zenon DEF CompactionInv
  <2>2. k \in Int /\ s \in Nat
    BY <2>1, CompactionAssumption DEF CompactionInv
  <2>3. Get(k, s) = NewestIn(Stored, k, s)
    BY <2>1, <2>2, GetFindsNewest DEF ReadsInv
  <2> QED BY <2>3, Zenon DEF ReadsInv, Readable
<1> QED BY <1>1, <1>2, LevelsStayInOrder, NextKeepsInv, NextKeepsReads, PTL DEF Spec
=============================================================================
