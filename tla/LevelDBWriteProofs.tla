------------------------- MODULE LevelDBWriteProofs -------------------------
(***************************************************************************)
(* The threads of LevelDBWrite: the queue of writers, and when the background *)
(* thread is scheduled.  Proofs for any number of writers and of callers of *)
(* TEST_CompactRange, any batches, sizes and triggers, with or without failing *)
(* files.                                                                  *)
(***************************************************************************)
EXTENDS LevelDBWrite, TLAPS

-----------------------------------------------------------------------------
(* The queue of writers                                                    *)

\* The stages of a call of Write: in TEST_CompactMemTable's wait after it, on
\* the writer's condition variable, and in MakeRoomForWrite.
Draining == {"drain", "drain_wait"}
Waiting == {"wait", "woken"}
MakingRoom == {"room", "room_wait", "sleep"}
WriterStates == {"idle"} \cup Draining \cup Waiting \cup MakingRoom \cup Committing

Calls ==
  [n : Nat, batch : Nat, sync : BOOLEAN, done : BOOLEAN, ok : BOOLEAN, force : BOOLEAN,
   allow_delay : BOOLEAN]

QueueTypes ==
  /\ DOMAIN pc = Threads
  /\ \A w \in Writers : pc[w] \in WriterStates
  /\ call \in [Writers -> Calls]
  /\ writers_ \in Seq(Writers)
  /\ group \in Seq(Writers)
  /\ bg_error_ \in BOOLEAN

\* Each writer is in the queue at most once.
EachOnce == \A i, j \in 1..Len(writers_) : writers_[i] = writers_[j] => i = j

\* Those in it are inside Write, and have not been told a status.
QueuedAreInside ==
  \A i \in 1..Len(writers_) : /\ pc[writers_[i]] \notin {"idle"} \cup Draining
                              /\ ~call[writers_[i]].done

\* Only the one in front makes room and commits.
OnlyFrontWorks ==
  \A w \in Writers : pc[w] \in MakingRoom \cup Committing =>
    Len(writers_) >= 1 /\ writers_[1] = w

\* Whoever waits for another to commit its batch is in the queue.
WaitersAreQueued ==
  \A w \in Writers : pc[w] \in Waiting /\ ~call[w].done =>
    \E i \in 1..Len(writers_) : writers_[i] = w

\* The group is what the queue starts with.
GroupIsFront ==
  \A w \in Writers : pc[w] \in Committing =>
    Len(group) \in 1..Len(writers_) /\ \A i \in 1..Len(group) : group[i] = writers_[i]

QueueInv ==
  /\ QueueTypes
  /\ EachOnce /\ QueuedAreInside /\ OnlyFrontWorks /\ WaitersAreQueued /\ GroupIsFront

\* What FailsAfterError says of one step.
FailsStep ==
  \A w \in Writers : bg_error_ /\ Undecided(w) =>
    \/ Undecided(w)' /\ Id(w)' = Id(w)
    \/ At(w, "idle")' /\ Answer(w, FALSE) \in returned'

\* A pc in which every writer is in the stage of its call that it is in.
SameStages(p) ==
  /\ DOMAIN p = Threads
  /\ \A w \in Writers :
       \/ p[w] = pc[w]
       \/ {p[w], pc[w]} \subseteq Draining
       \/ {p[w], pc[w]} \subseteq Waiting
       \/ {p[w], pc[w]} \subseteq MakingRoom
       \/ {p[w], pc[w]} \subseteq Committing

\* A pc in which some that wait have been woken up, and nobody has moved else.
WakesUp(p) ==
  /\ DOMAIN p = Threads
  /\ \A w \in Writers :
       \/ p[w] = pc[w]
       \/ {p[w], pc[w]} \subseteq Draining
       \/ {p[w], pc[w]} \subseteq Waiting
       \/ {p[w], pc[w]} \subseteq MakingRoom

\* The records of the calls but for the two flags of MakeRoomForWrite.
SameCalls ==
  /\ call' \in [Writers -> Calls]
  /\ \A w \in Writers : /\ call'[w].done = call[w].done
                        /\ call'[w].ok = call[w].ok
                        /\ call'[w].n = call[w].n

\* Closer, BG and the callers are different threads.
LEMMA Threadness ==
  /\ BG \in Threads /\ Closer \in Threads /\ BG # Closer
  /\ \A w \in Writers : w \in Threads /\ w # BG /\ w # Closer
  /\ \A c \in Compactors : c \in Threads /\ c # BG /\ c # Closer
BY Distinct DEF Threads

\* The types, and what they say of the queue's elements.
LEMMA QueueFacts ==
  ASSUME QueueInv
  PROVE  /\ QueueTypes /\ DOMAIN pc = Threads /\ call \in [Writers -> Calls]
         /\ \A w \in Writers : pc[w] \in WriterStates
         /\ writers_ \in Seq(Writers) /\ Len(writers_) \in Nat
         /\ \A i \in 1..Len(writers_) : writers_[i] \in Writers
         /\ group \in Seq(Writers) /\ Len(group) \in Nat
         /\ \A i \in 1..Len(group) : group[i] \in Writers
         /\ bg_error_ \in BOOLEAN
<1>1. QueueTypes
  BY Zenon DEF QueueInv
<1> QED
  BY <1>1 DEF QueueTypes

\* Waking up leaves everybody in its stage.
LEMMA WakingKeepsStages ==
  ASSUME NEW p, WakesUp(p)
  PROVE  SameStages(p)
BY DEF WakesUp, SameStages

\* A step that leaves the queue and every writer's stage alone.
LEMMA StageStep ==
  ASSUME QueueInv, SameStages(pc'), SameCalls, bg_error_' \in BOOLEAN,
         bg_error_ => bg_error_', UNCHANGED <<writers_, group, returned>>
  PROVE  QueueInv' /\ FailsStep
<1>1. QueueTypes'
  BY QueueFacts DEF QueueTypes, SameStages, SameCalls, WriterStates
<1>2. \A w \in Writers : /\ pc'[w] \in Draining <=> pc[w] \in Draining
                         /\ pc'[w] \in Waiting <=> pc[w] \in Waiting
                         /\ pc'[w] \in MakingRoom <=> pc[w] \in MakingRoom
                         /\ pc'[w] \in Committing <=> pc[w] \in Committing
                         /\ pc'[w] = "idle" <=> pc[w] = "idle"
  BY DEF SameStages, Draining, Waiting, MakingRoom, Committing
<1>3. EachOnce' /\ QueuedAreInside' /\ OnlyFrontWorks'
  BY <1>2, QueueFacts
  DEF QueueInv, EachOnce, QueuedAreInside, OnlyFrontWorks, SameCalls
<1>4. WaitersAreQueued' /\ GroupIsFront'
  BY <1>2 DEF QueueInv, WaitersAreQueued, GroupIsFront, SameCalls
<1>5. QueueInv'
  BY <1>1, <1>3, <1>4, Zenon DEF QueueInv
<1>6. ASSUME NEW w \in Writers, Undecided(w) PROVE Undecided(w)' /\ Id(w)' = Id(w)
  <2>1. pc[w] \in Waiting \cup MakingRoom /\ ~call[w].done
    BY <1>6 DEF Undecided, Waiting, MakingRoom
  <2>2. pc'[w] \in Waiting \cup MakingRoom /\ ~call'[w].done /\ call'[w].n = call[w].n
    BY <1>2, <2>1 DEF SameCalls
  <2> QED
    BY <1>6, <2>2 DEF Undecided, Waiting, MakingRoom, Id
<1> QED
  BY <1>5, <1>6 DEF FailsStep

\* Wakeups of background_work_finished_signal_ keep every writer's stage.
LEMMA SignalAllStages ==
  ASSUME QueueTypes, NEW p, WakesUp(p)
  PROVE  WakesUp(SignalAll(p))
<1>1. \A w \in Writers : w \in Threads
  BY DEF Threads
<1>2. \A w \in Writers : p[w] \in WriterStates
  BY DEF WakesUp, QueueTypes, WriterStates
<1> QED
  BY <1>1, <1>2
  DEF SignalAll, WakesUp, WriterStates, Draining, Waiting, MakingRoom, Committing

\* So do those of RecordBackgroundError.
LEMMA AfterErrorStages ==
  ASSUME QueueTypes, NEW failed
  PROVE  WakesUp(AfterError(pc, failed))
<1>1. WakesUp(pc)
  BY DEF WakesUp, QueueTypes
<1> QED
  BY <1>1, SignalAllStages DEF AfterError

\* A thread that is not a writer keeps every writer's stage when it moves.
LEMMA OtherStages ==
  ASSUME NEW p, WakesUp(p), NEW t \in Threads \ Writers, NEW place
  PROVE  WakesUp([p EXCEPT ![t] = place])
BY DEF WakesUp, Threads

\* MaybeScheduleCompaction queues the background call, a writer's stage stays.
LEMMA ScheduleStages ==
  ASSUME NEW p, WakesUp(p), NEW busy, MaybeScheduleCompaction(p, busy)
  PROVE  WakesUp(pc')
BY OtherStages, Threadness DEF MaybeScheduleCompaction

\* The end of BackgroundCall keeps every writer's stage.
LEMMA EndCallStages ==
  ASSUME QueueTypes, NEW p, WakesUp(p), EndCall(p)
  PROVE  WakesUp(pc')
<1> DEFINE q == [SignalAll(p) EXCEPT ![BG] = "idle"]
<1>1. WakesUp(q)
  BY SignalAllStages, OtherStages, Threadness
<1>2. MaybeScheduleCompaction(q, FALSE)
  BY Zenon DEF EndCall
<1> HIDE DEF q
<1> QED
  BY <1>1, <1>2, ScheduleStages, Zenon

\* The same of a manual compaction's end.
LEMMA EndManualStages ==
  ASSUME QueueTypes, NEW p, WakesUp(p), NEW ok, NEW done, EndManual(p, ok, done)
  PROVE  WakesUp(pc')
<1>1. pc' = [p EXCEPT ![BG] = "died"] \/ EndCall(p)
  BY DEF EndManual
<1> QED
  BY <1>1, OtherStages, EndCallStages, Threadness

\* The same of a merge's end.
LEMMA EndMergeStages ==
  ASSUME QueueTypes, NEW p, WakesUp(p), NEW ok, EndMerge(p, ok)
  PROVE  WakesUp(pc')
BY EndManualStages, EndCallStages, Zenon DEF EndMerge

\* The same of a flush's end.
LEMMA AfterFlushStages ==
  ASSUME QueueTypes, NEW p, WakesUp(p), AfterFlush(p)
  PROVE  WakesUp(pc')
<1>1. pc' = [SignalAll(p) EXCEPT ![BG] = "merge"] \/ EndCall(p)
  BY DEF AfterFlush
<1> QED
  BY <1>1, SignalAllStages, OtherStages, EndCallStages, Threadness

\* The background thread only wakes writers up.
LEMMA BackgroundStages ==
  ASSUME QueueTypes, BackgroundStep
  PROVE  WakesUp(pc')
<1>1. WakesUp(pc) /\ \A failed : WakesUp(AfterError(pc, failed))
  BY AfterErrorStages DEF WakesUp, QueueTypes
<1>2. CASE \E place : pc' = [pc EXCEPT ![BG] = place]
  <2>1. PICK place : pc' = [pc EXCEPT ![BG] = place]
    BY <1>2, Zenon
  <2>2. BG \in Threads \ Writers
    BY Threadness
  <2> QED
    BY <1>1, <2>1, <2>2, OtherStages, Zenon
<1>3. CASE \E p : WakesUp(p) /\ (EndCall(p) \/ AfterFlush(p))
  BY <1>3, EndCallStages, AfterFlushStages
<1>4. CASE \E p, ok : WakesUp(p) /\ (EndManual(p, ok, TRUE) \/ EndMerge(p, ok))
  BY <1>4, EndManualStages, EndMergeStages, Zenon
<1>5. CASE BackgroundCall
  BY <1>1, <1>2, <1>3, <1>4, <1>5, Zenon
  DEF BackgroundCall, BackgroundCompaction, StartMerge
<1>6. CASE TableBuilt
  BY <1>1, <1>2, <1>3, <1>6, Zenon DEF TableBuilt
<1>7. CASE FlushApplied \/ FilesRemoved
  BY <1>1, <1>2, <1>3, <1>7, Zenon DEF FlushApplied, FilesRemoved
<1>8. CASE MergeYields \/ MergeDone
  BY <1>1, <1>2, <1>4, <1>8, Zenon DEF MergeYields, MergeDone
<1>9. CASE MergeInstalled \/ MergeCleanedUp
  BY <1>1, <1>2, <1>4, <1>9, Zenon DEF MergeInstalled, MergeCleanedUp
<1>10. CASE FileMoved
  BY <1>1, <1>3, <1>10 DEF FileMoved
<1> QED
  BY <1>5, <1>6, <1>7, <1>8, <1>9, <1>10 DEF BackgroundStep

\* So do the callers of TEST_CompactRange and the destructor.
LEMMA CallerStages ==
  ASSUME QueueTypes,
         \/ \E c \in Compactors : TEST_CompactRange(c) \/ ManualLoop(c)
         \/ StartClose \/ WaitForBackground
  PROVE  WakesUp(pc')
<1>1. WakesUp(pc)
  BY DEF WakesUp, QueueTypes
<1>2. ASSUME NEW c \in Compactors, TEST_CompactRange(c) \/ ManualLoop(c)
      PROVE  WakesUp(pc')
  <2>1. c \in Threads \ Writers
    BY Distinct DEF Threads
  <2>2. \A place : WakesUp([pc EXCEPT ![c] = place])
    BY <1>1, <2>1, OtherStages
  <2> QED
    BY <1>2, <2>2, ScheduleStages, Zenon DEF TEST_CompactRange, ManualLoop
<1>3. CASE StartClose \/ WaitForBackground
  BY <1>1, <1>3, OtherStages, Distinct DEF StartClose, WaitForBackground, Threads
<1> QED
  BY <1>2, <1>3

\* A call of Write goes to the end of the queue.
LEMMA WriteStep ==
  ASSUME QueueInv, NEW w \in Writers, Write(w)
  PROVE  QueueInv' /\ FailsStep
<1> DEFINE place == IF writers_ = <<>> THEN "room" ELSE "wait"
<1>1. /\ pc[w] = "idle" /\ pc' = [pc EXCEPT ![w] = place]
      /\ writers_' = Append(writers_, w)
      /\ UNCHANGED <<group, returned, bg_error_>>
  <2>1. /\ pc[w] = "idle" /\ writers_' = Append(writers_, w)
        /\ UNCHANGED <<group, returned, bg_error_>>
    BY Zenon DEF Write, AtLocked, At, bgVars
  <2>2. IF writers_ = <<>> THEN pc' = [pc EXCEPT ![w] = "room"]
                           ELSE pc' = [pc EXCEPT ![w] = "wait"]
    BY Zenon DEF Write
  <2> QED
    BY <2>1, <2>2
<1>2. PICK c \in Calls : call' = [call EXCEPT ![w] = c] /\ ~c.done
  <2>1. PICK b \in Batches, sync \in Syncs \cup {FALSE} :
          call' = [call EXCEPT ![w] =
                     [n |-> @.n + 1, batch |-> b, sync |-> sync, done |-> FALSE,
                      ok |-> TRUE, force |-> (b = 0), allow_delay |-> (b # 0)]]
    BY Zenon DEF Write
  <2> DEFINE c == [n |-> call[w].n + 1, batch |-> b, sync |-> sync, done |-> FALSE,
                   ok |-> TRUE, force |-> (b = 0), allow_delay |-> (b # 0)]
  <2>2. c \in Calls
    <3>1. b \in Nat /\ sync \in BOOLEAN
      BY Sizes
    <3>2. call[w].n + 1 \in Nat
      BY QueueFacts DEF Calls
    <3> QED
      BY <3>1, <3>2 DEF Calls
  <2>3. call' = [call EXCEPT ![w] = c] /\ ~c.done
    BY <2>1
  <2> QED
    BY <2>2, <2>3, Zenon
<1>3. /\ w \in Threads /\ DOMAIN pc = Threads /\ call \in [Writers -> Calls]
      /\ writers_ \in Seq(Writers) /\ group \in Seq(Writers)
  BY Threadness, QueueFacts
<1>4. /\ pc'[w] = place
      /\ \A v \in Writers \ {w} : pc'[v] = pc[v] /\ call'[v] = call[v]
      /\ call'[w] = c
  BY <1>1, <1>2, <1>3
<1>5. QueueTypes'
  BY <1>1, <1>2, <1>3, <1>4, QueueFacts DEF QueueTypes, WriterStates, Waiting, MakingRoom
<1>6. /\ Len(writers_') = Len(writers_) + 1 /\ Len(writers_) \in Nat
      /\ writers_'[Len(writers_) + 1] = w
      /\ \A i \in 1..Len(writers_) : writers_'[i] = writers_[i] /\ writers_[i] \in Writers
  BY <1>1, <1>3
<1>7. \A i \in 1..Len(writers_) : writers_[i] # w
  BY <1>1 DEF QueueInv, QueuedAreInside
<1>8. pc'[w] \notin {"idle"} \cup Draining \cup Committing
  BY <1>4 DEF Draining, Committing
<1>9. EachOnce'
  BY <1>6, <1>7 DEF QueueInv, EachOnce
<1>10. QueuedAreInside'
  BY <1>2, <1>4, <1>6, <1>7, <1>8 DEF QueueInv, QueuedAreInside
<1>11. OnlyFrontWorks'
  <2>1. CASE writers_ = <<>>
    <3>1. Len(writers_) = 0
      BY <2>1
    <3> QED
      BY <1>4, <1>6, <3>1 DEF QueueInv, OnlyFrontWorks
  <2>2. CASE writers_ # <<>>
    <3>1. Len(writers_) >= 1
      BY <1>3, <2>2
    <3>2. pc'[w] \notin MakingRoom
      BY <1>4, <2>2 DEF MakingRoom
    <3> QED
      BY <1>4, <1>6, <1>8, <3>1, <3>2 DEF QueueInv, OnlyFrontWorks
  <2> QED
    BY <2>1, <2>2
<1>12. WaitersAreQueued'
  BY <1>4, <1>6 DEF QueueInv, WaitersAreQueued
<1>13. GroupIsFront'
  <2> SUFFICES ASSUME NEW v \in Writers, pc'[v] \in Committing
               PROVE  /\ Len(group) \in 1..Len(writers_')
                      /\ \A i \in 1..Len(group) : group[i] = writers_'[i]
    BY <1>1 DEF GroupIsFront
  <2>1. pc[v] \in Committing
    BY <1>4, <1>8
  <2>2. Len(group) \in 1..Len(writers_) /\ \A i \in 1..Len(group) : group[i] = writers_[i]
    BY <2>1 DEF QueueInv, GroupIsFront
  <2> QED
    BY <1>6, <2>2
<1>14. QueueInv'
  BY <1>5, <1>9, <1>10, <1>11, <1>12, <1>13, Zenon DEF QueueInv
<1>15. ASSUME NEW v \in Writers, Undecided(v) PROVE Undecided(v)' /\ Id(v)' = Id(v)
  <2>1. v # w
    BY <1>1, <1>15 DEF Undecided
  <2> QED
    BY <1>1, <1>4, <1>15, <2>1 DEF Undecided, Id
<1> QED
  BY <1>14, <1>15 DEF FailsStep

\* A writer forgets its call when it returns.
LEMMA ForgetCall ==
  ASSUME NEW c \in [Writers -> Calls], NEW w \in Writers
  PROVE  /\ Forget(c, w) \in [Writers -> Calls]
         /\ \A v \in Writers \ {w} : Forget(c, w)[v] = c[v]
         /\ Forget(c, w)[w] = [NoCall EXCEPT !.n = c[w].n]
         /\ ~Forget(c, w)[w].done
<1>1. [NoCall EXCEPT !.n = c[w].n] \in Calls
  BY Zenon DEF NoCall, Calls
<1>2. ~[NoCall EXCEPT !.n = c[w].n].done
  BY DEF NoCall
<1> QED
  BY <1>1, <1>2 DEF Forget

\* What Finish does to the queue and to the records.
LEMMA FinishEffect ==
  ASSUME QueueInv, NEW p, SameStages(p), NEW w \in Writers,
         pc[w] \in MakingRoom \cup Committing, NEW n \in 1..Len(writers_), NEW ok \in BOOLEAN,
         Finish(p, w, n, ok)
  PROVE  /\ writers_[1] = w
         /\ writers_' \in Seq(Writers) /\ Len(writers_') = Len(writers_) - n
         /\ \A i \in 1..Len(writers_') : n + i \in 1..Len(writers_)
                                         /\ writers_'[i] = writers_[n + i]
         /\ DOMAIN pc' = Threads
         /\ pc'[w] = AfterWrite(w, ok)
         /\ \A v \in Writers \ {w} : \/ pc'[v] = p[v]
                                     \/ p[v] = "wait" /\ pc'[v] = "woken"
<1>1. writers_ \in Seq(Writers) /\ Len(writers_) \in Nat /\ writers_[1] = w
  <2>1. writers_[1] = w
    BY Zenon DEF QueueInv, OnlyFrontWorks
  <2> QED
    BY <2>1, QueueFacts
<1>2. writers_' = SubSeq(writers_, n + 1, Len(writers_))
  BY Zenon DEF Finish, RestAfter
<1>3. /\ writers_' \in Seq(Writers) /\ Len(writers_') = Len(writers_) - n
      /\ \A i \in 1..Len(writers_') : n + i \in 1..Len(writers_)
                                      /\ writers_'[i] = writers_[n + i]
  <2>1. SubSeq(writers_, n + 1, Len(writers_)) \in Seq(Writers)
    BY <1>1
  <2>2. Len(SubSeq(writers_, n + 1, Len(writers_))) = Len(writers_) - n
    BY <1>1
  <2>3. \A i \in 1..Len(writers_) - n :
          SubSeq(writers_, n + 1, Len(writers_))[i] = writers_[n + i]
    BY <1>1
  <2> QED
    BY <1>1, <1>2, <2>1, <2>2, <2>3
<1>4. /\ DOMAIN pc' = Threads
      /\ pc'[w] = AfterWrite(w, ok)
      /\ \A v \in Writers \ {w} : \/ pc'[v] = p[v]
                                  \/ p[v] = "wait" /\ pc'[v] = "woken"
  <2> DEFINE ws == {writers_[i] : i \in 2..n} \cup NewFront(RestAfter(n))
             q == Signal(p, ws)
  <2>1. pc' = [q EXCEPT ![w] = AfterWrite(w, ok)]
    BY Zenon DEF Finish
  <2> HIDE DEF ws
  <2>2. DOMAIN q = Threads
    BY DEF Signal
  <2>3. ASSUME NEW v \in Threads PROVE q[v] = p[v] \/ (p[v] = "wait" /\ q[v] = "woken")
    <3>1. q[v] = IF v \in ws /\ p[v] = "wait" THEN "woken" ELSE p[v]
      BY DEF Signal
    <3> HIDE DEF q
    <3> QED
      BY <3>1
  <2> HIDE DEF q
  <2> QED
    BY <2>1, <2>2, <2>3, Threadness
<1> QED
  BY <1>1, <1>3, <1>4, Zenon

\* The followers have been told, and w has forgotten its call or still drains.
Told(w, n, ok) ==
  /\ call' \in [Writers -> Calls]
  /\ call'[w] = IF Returns(w, ok) THEN [NoCall EXCEPT !.n = call[w].n] ELSE call[w]
  /\ ~call'[w].done
  /\ \A i \in 2..n :
       /\ call'[writers_[i]] = [call[writers_[i]] EXCEPT !.done = TRUE, !.ok = ok]
       /\ call'[writers_[i]].done /\ call'[writers_[i]].ok = ok
  /\ \A v \in Writers \ {w} : (\A i \in 2..n : writers_[i] # v) => call'[v] = call[v]

\* What Finish does to the records of the calls.
LEMMA FinishCalls ==
  ASSUME QueueInv, NEW p, NEW w \in Writers,
         pc[w] \in MakingRoom \cup Committing, NEW n \in 1..Len(writers_), NEW ok \in BOOLEAN,
         Finish(p, w, n, ok)
  PROVE  Told(w, n, ok)
<1> DEFINE followers == {writers_[i] : i \in 2..n}
           told == [v \in Writers |-> IF v \in followers
                                      THEN [call[v] EXCEPT !.done = TRUE, !.ok = ok]
                                      ELSE call[v]]
<1>1. /\ writers_ \in Seq(Writers) /\ Len(writers_) \in Nat /\ writers_[1] = w
      /\ call \in [Writers -> Calls]
  <2>1. writers_[1] = w
    BY Zenon DEF QueueInv, OnlyFrontWorks
  <2> QED
    BY <2>1, QueueFacts
<1>2. call' = AfterReturn(told, w, ok)
  BY Zenon DEF Finish
<1>3. \A i \in 2..n : writers_[i] \in Writers /\ writers_[i] # w
  BY <1>1 DEF QueueInv, EachOnce
<1>4. \A c \in Calls : /\ [c EXCEPT !.done = TRUE, !.ok = ok] \in Calls
                       /\ [c EXCEPT !.done = TRUE, !.ok = ok].done
                       /\ [c EXCEPT !.done = TRUE, !.ok = ok].ok = ok
  BY Zenon DEF Calls
<1>5. told \in [Writers -> Calls]
  BY <1>1, <1>4, Zenon
<1>6. \A i \in 2..n :
        /\ told[writers_[i]] = [call[writers_[i]] EXCEPT !.done = TRUE, !.ok = ok]
        /\ told[writers_[i]].done
        /\ told[writers_[i]].ok = ok
  <2> SUFFICES ASSUME NEW i \in 2..n
               PROVE  /\ told[writers_[i]] = [call[writers_[i]] EXCEPT !.done = TRUE, !.ok = ok]
                      /\ told[writers_[i]].done
                      /\ told[writers_[i]].ok = ok
    BY Zenon
  <2>1. writers_[i] \in followers /\ writers_[i] \in Writers
    BY <1>3, Zenon
  <2>2. told[writers_[i]] = [call[writers_[i]] EXCEPT !.done = TRUE, !.ok = ok]
    BY <2>1, Zenon
  <2> HIDE DEF told
  <2> QED
    BY <1>1, <1>4, <2>1, <2>2, Zenon
<1>7. ASSUME NEW v \in Writers, \A i \in 2..n : writers_[i] # v
      PROVE  told[v] = call[v]
  <2>1. v \notin followers
    BY <1>7, Zenon
  <2> HIDE DEF followers
  <2> QED
    BY <2>1
<1>8. told[w] = call[w]
  BY <1>3, <1>7, Zenon
<1>9. ~call[w].done
  BY <1>1 DEF QueueInv, QueuedAreInside
<1> HIDE DEF told, followers
<1>10. CASE call' = told /\ ~Returns(w, ok)
  BY <1>5, <1>6, <1>7, <1>8, <1>9, <1>10 DEF Told
<1>11. CASE call' = Forget(told, w) /\ Returns(w, ok)
  <2>1. /\ call' \in [Writers -> Calls]
        /\ \A v \in Writers \ {w} : call'[v] = told[v]
        /\ call'[w] = [NoCall EXCEPT !.n = told[w].n]
        /\ ~call'[w].done
    <3> DEFINE c == Forget(told, w)
    <3>1. /\ c \in [Writers -> Calls]
          /\ \A v \in Writers \ {w} : c[v] = told[v]
          /\ c[w] = [NoCall EXCEPT !.n = told[w].n]
          /\ ~c[w].done
      BY <1>5, ForgetCall
    <3>2. call' = c
      BY <1>11
    <3> HIDE DEF c
    <3> QED
      BY <3>1, <3>2, Zenon
  <2>2. call'[w] = IF Returns(w, ok) THEN [NoCall EXCEPT !.n = call[w].n] ELSE call[w]
    BY <1>8, <1>11, <2>1, Zenon
  <2>3. \A i \in 2..n : call'[writers_[i]] = told[writers_[i]]
    BY <1>3, <2>1, Zenon
  <2>4. \A v \in Writers \ {w} : (\A i \in 2..n : writers_[i] # v) => call'[v] = call[v]
    BY <1>7, <2>1, Zenon
  <2> QED
    BY <1>6, <2>1, <2>2, <2>3, <2>4, Zenon DEF Told
<1> QED
  BY <1>2, <1>10, <1>11 DEF AfterReturn

\* The writer in front pops its group, tells its followers and returns.
LEMMA FinishStep ==
  ASSUME QueueInv, NEW p, SameStages(p), NEW w \in Writers,
         pc[w] \in MakingRoom \cup Committing, NEW n \in 1..Len(writers_), NEW ok \in BOOLEAN,
         Finish(p, w, n, ok), bg_error_' \in BOOLEAN, bg_error_ => bg_error_',
         bg_error_ => \A i \in 1..n : Undecided(writers_[i]) => i = 1 /\ ~ok
  PROVE  QueueInv' /\ FailsStep
<1>1. /\ writers_[1] = w
      /\ writers_' \in Seq(Writers) /\ Len(writers_') = Len(writers_) - n
      /\ \A i \in 1..Len(writers_') : n + i \in 1..Len(writers_)
                                      /\ writers_'[i] = writers_[n + i]
      /\ DOMAIN pc' = Threads
      /\ pc'[w] = AfterWrite(w, ok)
      /\ \A v \in Writers \ {w} : \/ pc'[v] = p[v]
                                  \/ p[v] = "wait" /\ pc'[v] = "woken"
  BY FinishEffect
<1>2. /\ call' \in [Writers -> Calls]
      /\ ~call'[w].done
      /\ \A i \in 2..n : /\ call'[writers_[i]].done
                         /\ call'[writers_[i]].ok = ok
      /\ \A v \in Writers \ {w} : (\A i \in 2..n : writers_[i] # v) => call'[v] = call[v]
  <2>1. Told(w, n, ok)
    BY FinishCalls, Zenon
  <2> QED
    BY <2>1 DEF Told
<1>3. group' = <<>> /\ returned' = returned \cup ReturnedBy(w, ok)
  BY Zenon DEF Finish
<1>4. /\ \A i \in 1..Len(writers_) : writers_[i] \in Writers
      /\ Len(writers_) \in Nat
      /\ \A v \in Writers : pc[v] \in WriterStates
      /\ \A i, j \in 1..Len(writers_) : writers_[i] = writers_[j] => i = j
  BY QueueFacts DEF QueueInv, EachOnce
<1>5. pc'[w] \in {"idle", "drain"} /\ (pc'[w] = "drain" => ok)
  BY <1>1 DEF AfterWrite
<1>6. \A v \in Writers \ {w} : /\ pc'[v] \in WriterStates
                               /\ pc'[v] \in Draining => pc[v] \in Draining
                               /\ pc'[v] \in Waiting <=> pc[v] \in Waiting
                               /\ pc'[v] = "idle" => pc[v] = "idle"
                               /\ pc'[v] \in MakingRoom \cup Committing =>
                                    pc[v] \in MakingRoom \cup Committing
  BY <1>1, <1>4
  DEF SameStages, WriterStates, Draining, Waiting, MakingRoom, Committing
<1>7. \A v \in Writers : pc'[v] \notin MakingRoom \cup Committing
  BY <1>1, <1>5, <1>6 DEF QueueInv, OnlyFrontWorks, MakingRoom, Committing
<1>8. QueueTypes'
  BY <1>1, <1>2, <1>3, <1>5, <1>6 DEF QueueTypes, WriterStates, Draining
<1>9. \A i \in 1..Len(writers_') :
        /\ writers_'[i] \in Writers \ {w}
        /\ call'[writers_'[i]] = call[writers_'[i]]
        /\ pc[writers_'[i]] \notin {"idle"} \cup Draining /\ ~call[writers_'[i]].done
  <2> SUFFICES ASSUME NEW i \in 1..Len(writers_')
               PROVE  /\ writers_'[i] \in Writers \ {w}
                      /\ call'[writers_'[i]] = call[writers_'[i]]
                      /\ pc[writers_'[i]] \notin {"idle"} \cup Draining
                      /\ ~call[writers_'[i]].done
    OBVIOUS
  <2>1. n + i \in 1..Len(writers_) /\ writers_'[i] = writers_[n + i]
    BY <1>1, Zenon
  <2>2. writers_[n + i] \in Writers
    BY <1>4, <2>1
  <2>3. ASSUME NEW j \in 1..n PROVE writers_[j] # writers_[n + i]
    <3>1. j \in 1..Len(writers_) /\ j # n + i
      BY <1>4
    <3> QED
      BY <1>4, <2>1, <3>1
  <2>4. writers_[n + i] # w /\ \A j \in 2..n : writers_[j] # writers_[n + i]
    BY <1>1, <2>3
  <2> QED
    BY <1>2, <2>1, <2>2, <2>4 DEF QueueInv, QueuedAreInside
<1>10. EachOnce'
  <2> SUFFICES ASSUME NEW i \in 1..Len(writers_'), NEW j \in 1..Len(writers_'),
                      writers_'[i] = writers_'[j]
               PROVE  i = j
    BY DEF EachOnce
  <2>1. /\ n + i \in 1..Len(writers_) /\ writers_'[i] = writers_[n + i]
        /\ n + j \in 1..Len(writers_) /\ writers_'[j] = writers_[n + j]
    BY <1>1, Zenon
  <2>2. n + i = n + j
    BY <1>4, <2>1, Zenon
  <2> QED
    BY <1>4, <2>2
<1>11. QueuedAreInside'
  BY <1>6, <1>9 DEF QueuedAreInside
<1>12. ASSUME NEW v \in Writers, pc'[v] \in Waiting, ~call'[v].done
       PROVE  \E i \in 1..Len(writers_') : writers_'[i] = v
  <2>1. v # w
    BY <1>5, <1>12 DEF Waiting
  <2>2. \A i \in 2..n : writers_[i] # v
    BY <1>2, <1>12
  <2>3. pc[v] \in Waiting /\ ~call[v].done
    <3>1. call'[v] = call[v]
      BY <1>2, <2>1, <2>2, Zenon
    <3> QED
      BY <1>6, <1>12, <2>1, <3>1, Zenon
  <2>4. PICK i \in 1..Len(writers_) : writers_[i] = v
    BY <2>3, Zenon DEF QueueInv, WaitersAreQueued
  <2>5. i > n
    BY <1>1, <1>4, <2>1, <2>2, <2>4
  <2>6. i - n \in 1..Len(writers_') /\ writers_'[i - n] = v
    BY <1>1, <1>4, <2>4, <2>5
  <2> QED
    BY <2>6
<1>13. QueueInv'
  <2>1. OnlyFrontWorks' /\ GroupIsFront'
    BY <1>7 DEF OnlyFrontWorks, GroupIsFront
  <2>2. WaitersAreQueued'
    BY <1>12 DEF WaitersAreQueued
  <2> QED
    BY <1>8, <1>10, <1>11, <2>1, <2>2, Zenon DEF QueueInv
<1>14. ASSUME bg_error_, Undecided(w)
       PROVE  At(w, "idle")' /\ Answer(w, FALSE) \in returned'
  <2>1. ~ok
    <3>1. 1 \in 1..n
      BY <1>4
    <3> QED
      BY <1>1, <1>14, <3>1, Zenon
  <2>2. AfterWrite(w, ok) = "idle" /\ ReturnedBy(w, ok) = {Answer(w, FALSE)}
    BY <2>1 DEF AfterWrite, ReturnedBy, Returns
  <2> QED
    BY <1>1, <1>3, <2>2 DEF At
<1>15. ASSUME bg_error_, NEW v \in Writers, Undecided(v), v # w
       PROVE  Undecided(v)' /\ Id(v)' = Id(v)
  <2>1. ASSUME NEW i \in 2..n PROVE writers_[i] # v
    <3>1. i \in 1..n /\ i # 1
      BY <1>4
    <3> QED
      BY <1>15, <3>1, Zenon
  <2>2. call'[v] = call[v] /\ ~call[v].done
    BY <1>2, <1>15, <2>1, Zenon DEF Undecided
  <2>3. pc[v] \in Waiting
    BY <1>1, <1>15 DEF Undecided, QueueInv, OnlyFrontWorks, Waiting, MakingRoom
  <2>4. pc'[v] \in Waiting
    BY <1>6, <1>15, <2>3, Zenon
  <2> QED
    BY <1>3, <2>2, <2>4 DEF Undecided, Waiting, Id
<1>16. FailsStep
  BY <1>14, <1>15, Zenon DEF FailsStep
<1> QED
  BY <1>13, <1>16

\* A writer returns, from its wait or after the flush: it is not in the queue.
LEMMA ReturnStep ==
  ASSUME QueueInv, NEW w \in Writers,
         \/ pc[w] \in Draining
         \/ pc[w] \in Waiting /\ call[w].done,
         NEW place \in {"idle", "drain"},
         pc' = [pc EXCEPT ![w] = place],
         call' \in {call, Forget(call, w)},
         UNCHANGED <<writers_, group, bg_error_>>
  PROVE  QueueInv' /\ FailsStep
<1>1. /\ call \in [Writers -> Calls] /\ DOMAIN pc = Threads /\ w \in Threads
      /\ writers_ \in Seq(Writers) /\ group \in Seq(Writers)
  BY Threadness, QueueFacts
<1>2. ASSUME NEW i \in 1..Len(writers_)
      PROVE  writers_[i] \in Writers \ {w}
  <2>1. writers_[i] \in Writers
    BY <1>1
  <2>2. pc[writers_[i]] \notin {"idle"} \cup Draining /\ ~call[writers_[i]].done
    BY Zenon DEF QueueInv, QueuedAreInside
  <2>3. pc[w] \in Draining \/ call[w].done
    BY Zenon
  <2> QED
    BY <2>1, <2>2, <2>3, Zenon
<1>3. /\ call' \in [Writers -> Calls]
      /\ \A v \in Writers \ {w} : call'[v] = call[v] /\ pc'[v] = pc[v]
      /\ pc'[w] = place /\ DOMAIN pc' = Threads
  <2>1. /\ Forget(call, w) \in [Writers -> Calls]
        /\ \A v \in Writers \ {w} : Forget(call, w)[v] = call[v]
    BY <1>1, ForgetCall, Zenon
  <2> QED
    BY <1>1, <2>1 DEF Threads
<1>5. pc'[w] \notin Waiting \cup MakingRoom \cup Committing
  BY <1>3 DEF Waiting, MakingRoom, Committing
<1>6. QueueTypes'
  BY <1>1, <1>3, QueueFacts DEF QueueTypes, WriterStates, Draining
<1>7. QueueInv'
  <2>1. EachOnce'
    BY DEF QueueInv, EachOnce
  <2>2. QueuedAreInside'
    BY <1>2, <1>3 DEF QueueInv, QueuedAreInside
  <2>3. OnlyFrontWorks'
    BY <1>3, <1>5 DEF QueueInv, OnlyFrontWorks
  <2>4. WaitersAreQueued'
    BY <1>3, <1>5 DEF QueueInv, WaitersAreQueued
  <2>5. GroupIsFront'
    BY <1>3, <1>5 DEF QueueInv, GroupIsFront
  <2> QED
    BY <1>6, <2>1, <2>2, <2>3, <2>4, <2>5, Zenon DEF QueueInv
<1>8. ASSUME NEW v \in Writers, Undecided(v) PROVE Undecided(v)' /\ Id(v)' = Id(v)
  <2>1. v # w
    BY <1>8 DEF Undecided, Draining
  <2> QED
    BY <1>3, <1>8, <2>1 DEF Undecided, Id
<1> QED
  BY <1>7, <1>8 DEF FailsStep

\* cv.Wait() returned.
LEMMA WokenStep ==
  ASSUME QueueInv, NEW w \in Writers, Woken(w)
  PROVE  QueueInv' /\ FailsStep
<1>1. /\ pc[w] = "woken" /\ UNCHANGED <<writers_, group, bg_error_>>
      /\ call \in [Writers -> Calls] /\ DOMAIN pc = Threads /\ w \in Threads
      /\ bg_error_ \in BOOLEAN
  BY Threadness, QueueFacts DEF Woken, AtLocked, At, bgVars
<1>2. CASE /\ call[w].done
           /\ pc' = [pc EXCEPT ![w] = AfterWrite(w, call[w].ok)]
           /\ returned' = returned \cup ReturnedBy(w, call[w].ok)
           /\ call' = AfterReturn(call, w, call[w].ok)
  <2> DEFINE place == AfterWrite(w, call[w].ok)
  <2>1. call' \in {call, Forget(call, w)}
    BY <1>2 DEF AfterReturn
  <2>2. place \in {"idle", "drain"}
    BY DEF AfterWrite
  <2>3. pc[w] \in Waiting
    BY <1>1 DEF Waiting
  <2>4. pc' = [pc EXCEPT ![w] = place]
    BY <1>2
  <2> HIDE DEF place
  <2> QED
    BY <1>1, <1>2, <2>1, <2>2, <2>3, <2>4, ReturnStep, Zenon
<1>3. CASE /\ ~call[w].done /\ pc' = [pc EXCEPT ![w] = "wait"]
           /\ UNCHANGED <<call, returned>>
  <2>1. SameStages(pc')
    BY <1>1, <1>3 DEF SameStages, Waiting
  <2>2. SameCalls
    BY <1>1, <1>3 DEF SameCalls
  <2> QED
    BY <1>1, <1>3, <2>1, <2>2, StageStep
<1>4. CASE /\ ~call[w].done /\ MayProceed(w) /\ pc' = [pc EXCEPT ![w] = "room"]
           /\ UNCHANGED <<call, returned>>
  <2>1. /\ writers_ \in Seq(Writers) /\ Len(writers_) \in Nat
        /\ \E i \in 1..Len(writers_) : writers_[i] = w
    BY <1>1, <1>4, QueueFacts DEF QueueInv, WaitersAreQueued, Waiting
  <2>2. Len(writers_) >= 1 /\ writers_[1] = w
    BY <1>4, <2>1 DEF MayProceed, Front
  <2>3. /\ pc'[w] = "room" /\ DOMAIN pc' = Threads
        /\ \A v \in Writers \ {w} : pc'[v] = pc[v]
    BY <1>1, <1>4 DEF Threads
  <2>4. "room" \notin {"idle"} \cup Draining \cup Waiting \cup Committing
    BY DEF Draining, Waiting, Committing
  <2>5. QueueTypes'
    BY <1>1, <1>4, <2>3, QueueFacts DEF QueueTypes, WriterStates, MakingRoom
  <2>6. QueueInv'
    <3>1. EachOnce'
      BY <1>1 DEF QueueInv, EachOnce
    <3>2. QueuedAreInside'
      BY <1>1, <1>4, <2>3, <2>4, QueueFacts DEF QueueInv, QueuedAreInside
    <3>3. OnlyFrontWorks'
      BY <1>1, <2>2, <2>3 DEF QueueInv, OnlyFrontWorks
    <3>4. WaitersAreQueued'
      BY <1>1, <1>4, <2>3, <2>4 DEF QueueInv, WaitersAreQueued
    <3>5. GroupIsFront'
      BY <1>1, <2>3, <2>4 DEF QueueInv, GroupIsFront
    <3> QED
      BY <2>5, <3>1, <3>2, <3>3, <3>4, <3>5, Zenon DEF QueueInv
  <2>7. ASSUME NEW v \in Writers, Undecided(v) PROVE Undecided(v)' /\ Id(v)' = Id(v)
    BY <1>1, <1>4, <2>3, <2>7 DEF Undecided, Id
  <2> QED
    BY <2>6, <2>7 DEF FailsStep
<1> QED
  BY <1>2, <1>3, <1>4, Zenon DEF Woken

\* The writer in front has room, and builds its group.
LEMMA BuildStep ==
  ASSUME QueueInv, NEW w \in Writers, pc[w] \in MakingRoom, ~bg_error_,
         \E n \in 1..Len(writers_) : group' = SubSeq(writers_, 1, n),
         pc' = [pc EXCEPT ![w] = "log"],
         UNCHANGED <<writers_, call, returned, bg_error_>>
  PROVE  QueueInv' /\ FailsStep
<1>1. /\ QueueTypes /\ writers_ \in Seq(Writers) /\ Len(writers_) \in Nat
      /\ Len(writers_) >= 1 /\ writers_[1] = w
      /\ w \in Threads /\ DOMAIN pc = Threads
  BY Threadness, QueueFacts DEF QueueInv, OnlyFrontWorks
<1>2. PICK n \in 1..Len(writers_) : group' = SubSeq(writers_, 1, n)
  OBVIOUS
<1>3. /\ group' \in Seq(Writers) /\ Len(group') = n
      /\ \A i \in 1..n : group'[i] = writers_[i] /\ group'[i] \in Writers
  BY <1>1, <1>2
<1>4. /\ pc'[w] = "log" /\ DOMAIN pc' = Threads
      /\ \A v \in Writers \ {w} : pc'[v] = pc[v]
  BY <1>1 DEF Threads
<1>5. "log" \in Committing /\ "log" \notin {"idle"} \cup Draining \cup Waiting
  BY DEF Committing, Draining, Waiting
<1>6. QueueTypes'
  BY <1>1, <1>3, <1>4, <1>5 DEF QueueTypes, WriterStates
<1>7. QueueInv'
  <2>1. EachOnce'
    BY DEF QueueInv, EachOnce
  <2>2. QueuedAreInside'
    BY <1>4, <1>5, QueueFacts DEF QueueInv, QueuedAreInside
  <2>3. OnlyFrontWorks'
    BY <1>1, <1>4 DEF QueueInv, OnlyFrontWorks
  <2>4. WaitersAreQueued'
    BY <1>4, <1>5 DEF QueueInv, WaitersAreQueued
  <2>5. GroupIsFront'
    BY <1>3 DEF GroupIsFront
  <2> QED
    BY <1>6, <2>1, <2>2, <2>3, <2>4, <2>5, Zenon DEF QueueInv
<1> QED
  BY <1>7 DEF FailsStep

\* Every step of a writer.
LEMMA WriterQueueStep ==
  ASSUME QueueInv, NEW w \in Writers,
         Write(w) \/ SpuriousWakeup(w) \/ WriterStep(w)
  PROVE  QueueInv' /\ FailsStep
<1>1. /\ QueueTypes /\ call \in [Writers -> Calls] /\ bg_error_ \in BOOLEAN
      /\ w \in Threads /\ DOMAIN pc = Threads
      /\ SameStages(pc)
  BY Threadness, QueueFacts DEF SameStages
<1>2. SameCalls \/ call' # call
  BY <1>1 DEF SameCalls
<1>3. ASSUME NEW place, pc' = [pc EXCEPT ![w] = place],
             \/ {place, pc[w]} \subseteq Draining
             \/ {place, pc[w]} \subseteq Waiting
             \/ {place, pc[w]} \subseteq MakingRoom
             \/ {place, pc[w]} \subseteq Committing
      PROVE  SameStages(pc')
  BY <1>1, <1>3 DEF SameStages, Threads
<1>5. CASE Write(w)
  BY <1>5, WriteStep
<1>6. CASE SpuriousWakeup(w)
  <2>1. SameStages(pc')
    BY <1>3, <1>6, Zenon DEF SpuriousWakeup, At, Waiting
  <2> QED
    BY <1>1, <1>2, <1>6, <2>1, StageStep DEF SpuriousWakeup, queueVars, bgVars
<1>7. CASE Woken(w)
  BY <1>7, WokenStep
<1>8. CASE WakeAfterDelay(w)
  <2>1. SameStages(pc')
    BY <1>3, <1>8, Zenon DEF WakeAfterDelay, At, MakingRoom
  <2>2. SameCalls
    BY <1>1, <1>8, Zenon DEF WakeAfterDelay, SameCalls, Calls
  <2> QED
    BY <1>1, <1>8, <2>1, <2>2, StageStep DEF WakeAfterDelay, bgVars
<1>9. CASE AddRecord(w) \/ SyncLog(w) \/ InsertInto(w)
  <2>1. \E place \in Committing : pc' = [pc EXCEPT ![w] = place] /\ pc[w] \in Committing
    BY <1>9 DEF AddRecord, SyncLog, InsertInto, At, Committing
  <2>2. SameStages(pc')
    BY <1>3, <2>1, Zenon
  <2>3. UNCHANGED <<queueVars, bgVars>>
    BY <1>9 DEF AddRecord, SyncLog, InsertInto
  <2> QED
    BY <1>1, <1>2, <2>2, <2>3, StageStep DEF queueVars, bgVars
<1>10. CASE CommitGroup(w)
  <2>1. /\ pc[w] \in Committing
        /\ bg_error_' \in BOOLEAN /\ (bg_error_ => bg_error_')
        /\ Finish(AfterError(pc, At(w, "sync_failed")), w, Len(group), At(w, "inserted"))
    BY <1>1, <1>10 DEF CommitGroup, Committing, RecordBackgroundError
  <2>2. /\ Len(group) \in 1..Len(writers_)
        /\ \A i \in 1..Len(group) : ~Undecided(writers_[i])
    <3>1. Len(group) \in 1..Len(writers_) /\ \A i \in 1..Len(group) : group[i] = writers_[i]
      BY <2>1, Zenon DEF QueueInv, GroupIsFront
    <3>2. DOMAIN group = 1..Len(group)
      BY QueueFacts
    <3> QED
      BY <3>1, <3>2, Zenon DEF Undecided
  <2> DEFINE p == AfterError(pc, At(w, "sync_failed"))
             ok == At(w, "inserted")
  <2>3. SameStages(p) /\ ok \in BOOLEAN
    BY <1>1, AfterErrorStages, WakingKeepsStages DEF At
  <2>4. Finish(p, w, Len(group), ok)
    BY <2>1
  <2> HIDE DEF p, ok
  <2> QED
    BY <2>1, <2>2, <2>3, <2>4, FinishStep, Zenon
<1>11. CASE Drain(w)
  <2>1. pc[w] \in Draining /\ UNCHANGED <<writers_, group, bg_error_>>
    BY <1>11 DEF Drain, AtLocked, At, Draining, bgVars
  <2>2. CASE pc' = [pc EXCEPT ![w] = "drain_wait"] /\ UNCHANGED <<call, returned>>
    <3>1. SameStages(pc')
      BY <1>3, <2>1, <2>2, Zenon DEF Draining
    <3> QED
      BY <1>1, <1>2, <2>1, <2>2, <3>1, StageStep
  <2>3. CASE /\ pc' = [pc EXCEPT ![w] = "idle"]
             /\ returned' = returned \cup {Answer(w, ~has_imm_)}
             /\ call' = Forget(call, w)
    BY <2>1, <2>3, ReturnStep, Zenon
  <2> QED
    BY <1>11, <2>2, <2>3 DEF Drain
<1>12. CASE MakeRoomForWrite(w)
  <2>1. pc[w] = "room" /\ pc[w] \in MakingRoom /\ Len(writers_) >= 1 /\ writers_[1] = w
    BY <1>12, Zenon
    DEF MakeRoomForWrite, AtLocked, At, MakingRoom, QueueInv, OnlyFrontWorks
  <2>2. CASE DelayOnce(w) \/ Block(w)
    <3>1. SameStages(pc')
      BY <1>3, <2>1, <2>2 DEF DelayOnce, Block, MakingRoom
    <3> QED
      BY <1>1, <1>2, <2>2, <3>1, StageStep DEF DelayOnce, Block, queueVars, bgVars
  <2>3. CASE /\ \E ok \in BOOLEAN : Finish(pc, w, 1, ok) /\ (ok => ~bg_error_)
             /\ UNCHANGED bg_error_
    <3>1. PICK ok \in BOOLEAN : Finish(pc, w, 1, ok) /\ (ok => ~bg_error_)
      BY <2>3
    <3>2. 1 \in 1..Len(writers_)
      BY <1>1, <2>1 DEF QueueTypes
    <3>3. bg_error_ => \A i \in 1..1 : Undecided(writers_[i]) => i = 1 /\ ~ok
      BY <3>1
    <3> QED
      BY <1>1, <2>1, <2>3, <3>1, <3>2, <3>3, FinishStep, Zenon
  <2>4. CASE HaveRoom(w) /\ ~bg_error_ /\ UNCHANGED bg_error_
    <3>1. CASE call[w].batch = 0
      BY <2>3, <2>4, <3>1, Zenon DEF HaveRoom
    <3>2. CASE call[w].batch # 0
      <4>1. /\ \E n \in 1..Len(writers_) : group' = SubSeq(writers_, 1, n)
            /\ pc' = [pc EXCEPT ![w] = "log"]
            /\ UNCHANGED <<writers_, call, returned>>
        BY <2>4, <3>2, Zenon DEF HaveRoom
      <4> QED
        BY <2>1, <2>4, <4>1, BuildStep, Zenon
    <3> QED
      BY <3>1, <3>2
  <2>5. CASE \E closed \in Outcomes : SwitchMemTable(w, closed)
    <3>1. PICK closed \in Outcomes : SwitchMemTable(w, closed)
      BY <2>5
    <3>2. SameStages(pc')
      BY <1>1, <3>1, AfterErrorStages, ScheduleStages, WakingKeepsStages DEF SwitchMemTable
    <3>3. SameCalls
      BY <1>1, <3>1, Zenon DEF SwitchMemTable, SameCalls, Calls
    <3>4. bg_error_' \in BOOLEAN /\ (bg_error_ => bg_error_')
      BY <3>1, Zenon DEF SwitchMemTable, RecordBackgroundError
    <3>5. UNCHANGED <<writers_, group, returned>>
      BY <3>1 DEF SwitchMemTable
    <3> QED
      BY <3>2, <3>3, <3>4, <3>5, StageStep
  <2>6. CASE YieldError(w)
    BY <2>3, <2>6, Zenon DEF YieldError, bgVars
  <2> QED
    BY <1>12, <2>2, <2>4, <2>5, <2>6, Zenon
    DEF MakeRoomForWrite, NewLogFails, RefusesWrites, bgVars
<1> QED
  BY <1>5, <1>6, <1>7, <1>8, <1>9, <1>10, <1>11, <1>12 DEF WriterStep

\* The other threads leave the queue and the records alone.
LEMMA OtherQueueStep ==
  ASSUME QueueInv,
         \/ BackgroundStep
         \/ \E c \in Compactors : TEST_CompactRange(c) \/ ManualLoop(c)
         \/ StartClose \/ WaitForBackground
  PROVE  QueueInv' /\ FailsStep
<1>1. QueueTypes
  BY DEF QueueInv
<1>2. SameStages(pc')
  BY <1>1, BackgroundStages, CallerStages, WakingKeepsStages
<1>3. UNCHANGED queueVars /\ bg_error_' \in BOOLEAN /\ (bg_error_ => bg_error_')
  <2>1. CASE BackgroundStep
    BY <1>1, <2>1, Zenon
    DEF QueueTypes, BackgroundStep, BackgroundCall, TableBuilt, FlushApplied, FilesRemoved,
        MergeYields, MergeDone, MergeInstalled, MergeCleanedUp, FileMoved,
        RecordBackgroundError, bgVars
  <2>2. CASE \E c \in Compactors : TEST_CompactRange(c) \/ ManualLoop(c)
    BY <1>1, <2>2 DEF QueueTypes, TEST_CompactRange, ManualLoop, bgVars
  <2>3. CASE StartClose \/ WaitForBackground
    BY <1>1, <2>3, Zenon DEF QueueTypes, StartClose, WaitForBackground, bgVars
  <2> QED
    BY <2>1, <2>2, <2>3
<1>4. SameCalls
  BY <1>1, <1>3 DEF SameCalls, queueVars, QueueTypes
<1> QED
  BY <1>2, <1>3, <1>4, StageStep DEF queueVars

\* Every step keeps the invariant of the queue, and is as FailsAfterError says.
LEMMA QueueStep == QueueInv /\ [Next]_vars => QueueInv' /\ FailsStep
<1> SUFFICES ASSUME QueueInv, [Next]_vars PROVE QueueInv' /\ FailsStep
  OBVIOUS
<1>1. CASE UNCHANGED vars
  <2>1. SameStages(pc') /\ SameCalls /\ bg_error_' \in BOOLEAN
    BY <1>1, QueueFacts DEF vars, queueVars, bgVars, SameStages, SameCalls
  <2> QED
    BY <1>1, <2>1, StageStep DEF vars, queueVars, bgVars
<1> QED
  BY <1>1, WriterQueueStep, OtherQueueStep DEF Next

\* The invariant of the queue holds in every state.
THEOREM QueueInvHolds == Spec => []QueueInv
<1>1. Init => QueueInv
  <2> SUFFICES ASSUME Init PROVE QueueInv
    OBVIOUS
  <2>1. NoCall \in Calls /\ ~NoCall.done
    BY DEF NoCall, Calls
  <2>2. QueueTypes
    <3>1. /\ DOMAIN pc = Threads /\ (\A w \in Writers : pc[w] = "idle") /\ call = [w \in Writers |-> NoCall]
          /\ writers_ = <<>> /\ group = <<>> /\ bg_error_ = FALSE
      BY Threadness DEF Init
    <3>2. call \in [Writers -> Calls]
      BY <2>1, <3>1
    <3>3. \A w \in Writers : pc[w] \in WriterStates
      BY <3>1, Threadness DEF WriterStates
    <3>4. DOMAIN pc = Threads /\ bg_error_ \in BOOLEAN
      BY <3>1, Zenon
    <3>5. writers_ \in Seq(Writers) /\ group \in Seq(Writers)
      BY <3>1
    <3> QED
      BY <3>2, <3>3, <3>4, <3>5 DEF QueueTypes
  <2>3. /\ writers_ = <<>> /\ Len(writers_) = 0
        /\ \A w \in Writers : pc[w] = "idle" /\ call[w] = NoCall
    BY Threadness DEF Init
  <2> QED
    BY <2>1, <2>2, <2>3
    DEF Init, QueueInv, EachOnce, QueuedAreInside, OnlyFrontWorks, WaitersAreQueued, GroupIsFront,
        Draining, Waiting, MakingRoom, Committing
<1> QED
  BY <1>1, QueueStep, PTL DEF Spec

\* "&w is currently responsible for logging and protects against concurrent
\* loggers and concurrent writes into mem_" (Write).
THEOREM CommitterIsAlone == Spec => []OneCommitter
<1>1. QueueInv => OneCommitter
  <2> SUFFICES ASSUME QueueInv PROVE OneCommitter
    OBVIOUS
  <2>1. /\ writers_ \in Seq(Writers) /\ group \in Seq(Writers)
        /\ DOMAIN writers_ = 1..Len(writers_)
    BY QueueFacts
  <2>2. ASSUME NEW w \in Writers, pc[w] \in Committing
        PROVE  /\ w = Front
               /\ group # <<>> /\ Len(group) <= Len(writers_)
               /\ group = SubSeq(writers_, 1, Len(group))
               /\ \A v \in Writers \ {w} :
                    pc[v] \notin Committing \cup {"room", "room_wait", "sleep"}
    <3>1. /\ Len(writers_) >= 1 /\ writers_[1] = w
          /\ Len(group) \in 1..Len(writers_)
          /\ \A i \in 1..Len(group) : group[i] = writers_[i]
      BY <2>2, Zenon DEF QueueInv, OnlyFrontWorks, GroupIsFront
    <3>2. w = Front /\ group # <<>> /\ Len(group) <= Len(writers_)
      BY <2>1, <3>1 DEF Front
    <3>3. group = SubSeq(writers_, 1, Len(group))
      <4> DEFINE s == SubSeq(writers_, 1, Len(group))
      <4>1. /\ s \in Seq(Writers) /\ Len(s) = Len(group)
            /\ \A i \in 1..Len(group) : s[i] = writers_[i]
        BY <2>1, <3>1
      <4> HIDE DEF s
      <4>2. group = s
        BY <2>1, <3>1, <4>1
      <4> QED
        BY <4>2 DEF s
    <3>4. \A v \in Writers \ {w} :
            pc[v] \notin Committing \cup {"room", "room_wait", "sleep"}
      BY <3>1 DEF QueueInv, OnlyFrontWorks, MakingRoom
    <3> QED
      BY <3>2, <3>3, <3>4
  <2> QED
    BY <2>1, <2>2 DEF OneCommitter, QueueInv, EachOnce, QueuedAreInside, Draining
<1> QED
  BY <1>1, QueueInvHolds, PTL

\* "So we force the DB into a mode where all future writes fail" (Write): once
\* a background error is recorded, a call whose batch is in no group yet, made
\* before or after, keeps waiting or returns the error.
THEOREM WritesFailAfterError == Spec => FailsAfterError
<1>1. QueueInv /\ [Next]_vars => [FailsStep]_vars
  BY QueueStep
<1> QED
  BY <1>1, QueueInvHolds, PTL DEF Spec, FailsAfterError, FailsStep

-----------------------------------------------------------------------------
(* The background thread and the destructor                                *)

BackgroundStates ==
  {"idle", "queued", "build", "manifest", "remove", "merge", "install", "cleanup", "move", "died"}
Closing == {"closing", "close_wait", "closed"}

\* background_compaction_scheduled_ is set exactly while a background call is
\* queued or running, and the destructor waits only after shutting_down_.
BackgroundInv ==
  /\ DOMAIN pc = Threads
  /\ pc[BG] \in BackgroundStates
  /\ scheduled <=> pc[BG] # "idle"
  /\ pc[Closer] \in Closing => shutting_down_
  /\ WorkIsScheduled
  /\ ClosedIsQuiet

\* A pc in which the destructor has not come further than it is.
Follows(p) ==
  /\ DOMAIN p = Threads
  /\ p[Closer] \in Closing => pc[Closer] \in Closing
  /\ p[Closer] = "closed" => pc[Closer] = "closed"

\* SignalAll keeps the background thread where it is, and does not bring the
\* destructor to its end.
LEMMA SignalAllFollows ==
  ASSUME NEW p, Follows(p)
  PROVE  /\ Follows(SignalAll(p))
         /\ p[BG] \in BackgroundStates => SignalAll(p)[BG] = p[BG]
BY Threadness DEF SignalAll, Follows, Closing, BackgroundStates

\* So does RecordBackgroundError.
LEMMA AfterErrorFollows ==
  ASSUME BackgroundInv, NEW failed
  PROVE  /\ Follows(AfterError(pc, failed))
         /\ AfterError(pc, failed)[BG] = pc[BG]
<1>1. Follows(pc)
  BY DEF BackgroundInv, Follows
<1> QED
  BY <1>1, SignalAllFollows DEF AfterError, BackgroundInv

\* A background call that ends looks for work once more.
LEMMA EndCallStep ==
  ASSUME BackgroundInv, NEW p, Follows(p), EndCall(p), UNCHANGED shutting_down_
  PROVE  BackgroundInv'
<1> DEFINE q == [SignalAll(p) EXCEPT ![BG] = "idle"]
<1>1. Follows(q) /\ q[BG] = "idle"
  BY SignalAllFollows, Threadness DEF Follows
<1>2. MaybeScheduleCompaction(q, FALSE)
  BY Zenon DEF EndCall
<1> HIDE DEF q
<1>3. CASE pc' = q /\ ~scheduled'
  <2>1. WorkIsScheduled'
    BY <1>2, <1>3, Zenon DEF MaybeScheduleCompaction, NeedsCompaction, WorkIsScheduled
  <2> QED
    BY <1>1, <1>3, <2>1 DEF BackgroundInv, Follows, ClosedIsQuiet, At, BackgroundStates
<1>4. CASE pc' = [q EXCEPT ![BG] = "queued"] /\ scheduled' /\ ~shutting_down_'
  BY <1>1, <1>4, Threadness
  DEF BackgroundInv, Follows, ClosedIsQuiet, At, BackgroundStates, WorkIsScheduled, Closing
<1> QED
  BY <1>2, <1>3, <1>4, Zenon DEF MaybeScheduleCompaction

\* A background call that goes on is still scheduled.
LEMMA GoesOn ==
  ASSUME BackgroundInv, pc[BG] # "idle", Follows(pc'),
         pc'[BG] \in BackgroundStates \ {"idle"}, UNCHANGED <<scheduled, shutting_down_>>
  PROVE  BackgroundInv'
BY DEF BackgroundInv, Follows, ClosedIsQuiet, At, WorkIsScheduled

\* Steps of other threads that bring no work.
LEMMA BringsNoWork ==
  ASSUME BackgroundInv, Follows(pc'), pc'[BG] = pc[BG], bg_error_ => bg_error_',
         UNCHANGED <<scheduled, shutting_down_, has_imm_, level0, manual_compaction_>>
  PROVE  BackgroundInv'
BY DEF BackgroundInv, Follows, ClosedIsQuiet, At, WorkIsScheduled

\* The end of a manual compaction, also when the pointer is gone.
LEMMA EndManualStep ==
  ASSUME BackgroundInv, NEW p, Follows(p), p[BG] = pc[BG], pc[BG] # "idle",
         NEW ok, NEW done, EndManual(p, ok, done), UNCHANGED shutting_down_
  PROVE  BackgroundInv'
<1>1. CASE manual_compaction_ = Nobody
  <2>1. pc' = [p EXCEPT ![BG] = "died"] /\ UNCHANGED scheduled
    BY <1>1 DEF EndManual
  <2>2. Follows(pc') /\ pc'[BG] = "died"
    BY <2>1, Threadness DEF Follows
  <2> QED
    BY <2>1, <2>2, GoesOn DEF BackgroundStates
<1>2. CASE manual_compaction_ # Nobody
  BY <1>2, EndCallStep DEF EndManual
<1> QED
  BY <1>1, <1>2

\* The end of a merge.
LEMMA EndMergeStep ==
  ASSUME BackgroundInv, NEW p, Follows(p), p[BG] = pc[BG], pc[BG] # "idle",
         NEW ok, EndMerge(p, ok), UNCHANGED shutting_down_
  PROVE  BackgroundInv'
BY EndManualStep, EndCallStep, Zenon DEF EndMerge

\* The end of a flush, which may be in the middle of a merge.
LEMMA AfterFlushStep ==
  ASSUME BackgroundInv, NEW p, Follows(p), p[BG] = pc[BG], pc[BG] # "idle",
         AfterFlush(p), UNCHANGED shutting_down_
  PROVE  BackgroundInv'
<1>1. CASE merging.running
  <2>1. pc' = [SignalAll(p) EXCEPT ![BG] = "merge"] /\ UNCHANGED scheduled
    BY <1>1 DEF AfterFlush
  <2>2. Follows(pc') /\ pc'[BG] = "merge"
    BY <2>1, SignalAllFollows, Threadness DEF Follows
  <2> QED
    BY <2>1, <2>2, GoesOn DEF BackgroundStates
<1>2. CASE ~merging.running
  BY <1>2, EndCallStep DEF AfterFlush
<1> QED
  BY <1>1, <1>2

\* The background thread goes to another place of its own.
LEMMA MovesOn ==
  ASSUME BackgroundInv, pc[BG] # "idle", NEW place \in BackgroundStates \ {"idle"},
         pc' = [pc EXCEPT ![BG] = place], UNCHANGED <<scheduled, shutting_down_>>
  PROVE  BackgroundInv'
<1>1. Follows(pc') /\ pc'[BG] = place
  BY Threadness DEF BackgroundInv, Follows
<1> QED
  BY <1>1, GoesOn

\* Every step of the background thread.
LEMMA BackgroundStepKeeps == BackgroundInv /\ BackgroundStep => BackgroundInv'
<1> SUFFICES ASSUME BackgroundInv, BackgroundStep PROVE BackgroundInv'
  OBVIOUS
<1>1. Follows(pc)
  BY DEF BackgroundInv, Follows
<1>2. \A failed : Follows(AfterError(pc, failed)) /\ AfterError(pc, failed)[BG] = pc[BG]
  BY AfterErrorFollows
<1>3. pc[BG] # "idle" /\ UNCHANGED shutting_down_
  BY Zenon
  DEF BackgroundStep, BackgroundCall, TableBuilt, FlushApplied, FilesRemoved, MergeYields,
         MergeDone, MergeInstalled, MergeCleanedUp, FileMoved, AtLocked, At, bgVars,
         BackgroundCompaction, StartMerge
<1> USE <1>1, <1>3 DEF BackgroundStates
<1>4. CASE BackgroundCall
  <2>1. CASE EndCall(pc)
    BY <2>1, EndCallStep
  <2>2. CASE pc' = [pc EXCEPT ![BG] = "build"] /\ UNCHANGED bgVars
    BY <2>2, MovesOn, Zenon DEF bgVars
  <2>3. CASE BackgroundCompaction
    <3>1. CASE EndManual(pc, TRUE, TRUE)
      BY <3>1, EndManualStep, Zenon
    <3>2. CASE \E isManual, inputs : StartMerge(isManual, inputs)
      BY <3>2, MovesOn, Zenon DEF StartMerge
    <3>3. CASE pc' = [pc EXCEPT ![BG] = "move"] /\ UNCHANGED scheduled
      BY <3>3, MovesOn, Zenon
    <3>4. CASE EndCall(pc)
      BY <3>4, EndCallStep
    <3> QED
      BY <2>3, <3>1, <3>2, <3>3, <3>4, Zenon DEF BackgroundCompaction
  <2> QED
    BY <1>4, <2>1, <2>2, <2>3 DEF BackgroundCall
<1>5. CASE TableBuilt
  <2>1. \/ pc' = [pc EXCEPT ![BG] = "manifest"] /\ UNCHANGED scheduled
        \/ AfterFlush(AfterError(pc, TRUE))
    BY <1>5, Zenon DEF TableBuilt
  <2> QED
    BY <1>2, <2>1, MovesOn, AfterFlushStep, Zenon
<1>6. CASE FlushApplied
  <2>1. \/ pc' = [pc EXCEPT ![BG] = "remove"] /\ UNCHANGED scheduled
        \/ AfterFlush(pc)
        \/ AfterFlush(AfterError(pc, TRUE))
    BY <1>6, Zenon DEF FlushApplied
  <2> QED
    BY <1>2, <2>1, MovesOn, AfterFlushStep, Zenon
<1>7. CASE FilesRemoved
  BY <1>7, AfterFlushStep DEF FilesRemoved
<1>8. CASE MergeYields
  BY <1>8, MovesOn, Zenon DEF MergeYields, bgVars
<1>9. CASE MergeDone
  <2>1. \/ pc' = [pc EXCEPT ![BG] = "install"] /\ UNCHANGED scheduled
        \/ EndMerge(AfterError(pc, TRUE), FALSE)
    BY <1>9, Zenon DEF MergeDone
  <2> QED
    BY <1>2, <2>1, MovesOn, EndMergeStep, Zenon
<1>10. CASE MergeInstalled
  <2>1. \/ pc' = [pc EXCEPT ![BG] = "cleanup"] /\ UNCHANGED scheduled
        \/ EndMerge(pc, TRUE)
        \/ EndMerge(AfterError(pc, TRUE), FALSE)
    BY <1>10, Zenon DEF MergeInstalled
  <2> QED
    BY <1>2, <2>1, MovesOn, EndMergeStep, Zenon
<1>11. CASE MergeCleanedUp
  BY <1>11, EndMergeStep, Zenon DEF MergeCleanedUp
<1>12. CASE FileMoved
  <2>1. PICK moved \in Outcomes : EndCall(AfterError(pc, ~moved))
    BY <1>12 DEF FileMoved
  <2> QED
    BY <1>2, <2>1, EndCallStep
<1> QED
  BY <1>4, <1>5, <1>6, <1>7, <1>8, <1>9, <1>10, <1>11, <1>12 DEF BackgroundStep

\* MaybeScheduleCompaction by another thread.
LEMMA ScheduleStep ==
  ASSUME BackgroundInv, NEW p, Follows(p), p[BG] = pc[BG],
         MaybeScheduleCompaction(p, scheduled), UNCHANGED shutting_down_
  PROVE  BackgroundInv'
<1>1. CASE scheduled
  <2>1. pc' = p /\ scheduled'
    BY <1>1, Zenon DEF MaybeScheduleCompaction
  <2> QED
    BY <1>1, <2>1 DEF BackgroundInv, Follows, ClosedIsQuiet, At, WorkIsScheduled
<1>2. CASE ~scheduled /\ pc' = p /\ ~scheduled'
  <2>1. WorkIsScheduled'
    BY <1>2, Zenon DEF MaybeScheduleCompaction, NeedsCompaction, WorkIsScheduled
  <2> QED
    BY <1>2, <2>1 DEF BackgroundInv, Follows, ClosedIsQuiet, At
<1>3. CASE ~scheduled /\ pc' = [p EXCEPT ![BG] = "queued"] /\ scheduled' /\ ~shutting_down_'
  BY <1>3, Threadness
  DEF BackgroundInv, Follows, ClosedIsQuiet, At, BackgroundStates, WorkIsScheduled, Closing
<1> QED
  BY <1>1, <1>2, <1>3, Zenon DEF MaybeScheduleCompaction

\* A caller that goes to another place leaves the other threads alone.
LEMMA CallerMoves ==
  ASSUME NEW p, Follows(p), NEW t \in Writers \cup Compactors, NEW place
  PROVE  Follows([p EXCEPT ![t] = place]) /\ [p EXCEPT ![t] = place][BG] = p[BG]
BY Threadness DEF Follows

\* So does a writer that finishes, and signals other writers.
LEMMA FinishMoves ==
  ASSUME NEW p, Follows(p), p[BG] \in BackgroundStates, NEW w \in Writers, NEW n, NEW ok,
         Finish(p, w, n, ok)
  PROVE  Follows(pc') /\ pc'[BG] = p[BG]
<1> DEFINE ws == {writers_[i] : i \in 2..n} \cup NewFront(RestAfter(n))
<1>1. pc' = [Signal(p, ws) EXCEPT ![w] = AfterWrite(w, ok)]
  BY Zenon DEF Finish
<1> HIDE DEF ws
<1>2. Follows(Signal(p, ws)) /\ Signal(p, ws)[BG] = p[BG]
  BY Threadness DEF Signal, Follows, Closing, BackgroundStates
<1> QED
  BY <1>1, <1>2, CallerMoves, Zenon

\* Every step of a writer.
LEMMA WriterStepKeeps ==
  ASSUME BackgroundInv, NEW w \in Writers, Write(w) \/ SpuriousWakeup(w) \/ WriterStep(w)
  PROVE  BackgroundInv'
<1>1. Follows(pc) /\ pc[BG] \in BackgroundStates
  BY DEF BackgroundInv, Follows
<1>2. \A failed : Follows(AfterError(pc, failed)) /\ AfterError(pc, failed)[BG] = pc[BG]
  BY AfterErrorFollows
<1>3. CASE (\E place : pc' = [pc EXCEPT ![w] = place]) /\ UNCHANGED bgVars
           /\ UNCHANGED <<has_imm_, level0, manual_compaction_>>
  <2>0. PICK place : pc' = [pc EXCEPT ![w] = place]
    BY <1>3, Zenon
  <2>1. Follows(pc') /\ pc'[BG] = pc[BG]
    BY <1>1, <2>0, Threadness DEF Follows
  <2> QED
    BY <1>3, <2>1, BringsNoWork DEF bgVars
<1>4. CASE (\E n, ok : Finish(pc, w, n, ok)) /\ UNCHANGED <<dataVars, bgVars, manualVars>>
  <2>1. Follows(pc') /\ pc'[BG] = pc[BG]
    BY <1>1, <1>4, FinishMoves
  <2> QED
    BY <1>4, <2>1, BringsNoWork DEF bgVars, dataVars, manualVars
<1>5. CASE \E closed \in Outcomes : SwitchMemTable(w, closed)
  <2>1. PICK closed \in Outcomes : SwitchMemTable(w, closed)
    BY <1>5
  <2>2. /\ MaybeScheduleCompaction(AfterError(pc, ~closed), scheduled)
        /\ UNCHANGED shutting_down_
    BY <2>1 DEF SwitchMemTable
  <2> QED
    BY <1>2, <2>2, ScheduleStep
<1>6. CASE CommitGroup(w)
  <2>1. PICK p : /\ Follows(p) /\ p[BG] = pc[BG]
                 /\ \E n, ok : Finish(p, w, n, ok)
    BY <1>2, <1>6 DEF CommitGroup
  <2>2. Follows(pc') /\ pc'[BG] = pc[BG]
    BY <1>1, <2>1, FinishMoves
  <2>3. UNCHANGED <<scheduled, shutting_down_, has_imm_, level0, manual_compaction_>>
    BY <1>6 DEF CommitGroup, manualVars
  <2>4. bg_error_ => bg_error_'
    BY <1>6, Zenon DEF CommitGroup, RecordBackgroundError
  <2> QED
    BY <2>2, <2>3, <2>4, BringsNoWork
<1>7. CASE MakeRoomForWrite(w)
  <2>1. \/ YieldError(w) \/ DelayOnce(w) \/ Block(w)
        \/ HaveRoom(w) /\ UNCHANGED <<dataVars, bgVars, manualVars>>
        \/ \E closed \in Outcomes : SwitchMemTable(w, closed)
    BY <1>7 DEF MakeRoomForWrite, NewLogFails
  <2> QED
    BY <1>3, <1>4, <1>5, <2>1, Zenon
    DEF YieldError, DelayOnce, Block, HaveRoom, dataVars, bgVars, manualVars
<1>8. CASE Write(w)
  BY <1>3, <1>8 DEF Write, dataVars, manualVars
<1>9. CASE SpuriousWakeup(w) \/ Woken(w)
  BY <1>3, <1>9 DEF SpuriousWakeup, Woken, dataVars, manualVars
<1>10. CASE WakeAfterDelay(w) \/ Drain(w)
  BY <1>3, <1>10 DEF WakeAfterDelay, Drain, dataVars, manualVars
<1>11. CASE AddRecord(w)
  BY <1>3, <1>11 DEF AddRecord, manualVars
<1>12. CASE SyncLog(w)
  BY <1>3, <1>12 DEF SyncLog, manualVars
<1>13. CASE InsertInto(w)
  BY <1>3, <1>13, Zenon DEF InsertInto, manualVars
<1> QED
  BY <1>6, <1>7, <1>8, <1>9, <1>10, <1>11, <1>12, <1>13 DEF WriterStep

\* Every step of TEST_CompactRange and of the destructor.
LEMMA CallerStepKeeps ==
  ASSUME BackgroundInv,
         \/ \E c \in Compactors : TEST_CompactRange(c) \/ ManualLoop(c)
         \/ StartClose \/ WaitForBackground
  PROVE  BackgroundInv'
<1>1. Follows(pc)
  BY DEF BackgroundInv, Follows
<1>2. ASSUME NEW c \in Compactors, TEST_CompactRange(c)
      PROVE  BackgroundInv'
  <2>1. Follows(pc') /\ pc'[BG] = pc[BG]
    BY <1>1, <1>2, CallerMoves, Zenon DEF TEST_CompactRange
  <2> QED
    BY <1>2, <2>1, BringsNoWork DEF TEST_CompactRange, bgVars, dataVars
<1>3. ASSUME NEW c \in Compactors, ManualLoop(c)
      PROVE  BackgroundInv'
  <2>1. CASE UNCHANGED scheduled /\ manual_compaction_' \in {manual_compaction_, Nobody}
             /\ \E place : pc' = [pc EXCEPT ![c] = place]
    <3>0. PICK place : pc' = [pc EXCEPT ![c] = place]
      BY <2>1, Zenon
    <3>1. Follows(pc') /\ pc'[BG] = pc[BG]
      BY <1>1, <3>0, Threadness DEF Follows
    <3>2. UNCHANGED <<bg_error_, shutting_down_, has_imm_, level0>>
      BY <1>3 DEF ManualLoop, dataVars
    <3> QED
      BY <2>1, <3>1, <3>2 DEF BackgroundInv, Follows, ClosedIsQuiet, At, WorkIsScheduled
  <2>2. CASE MaybeScheduleCompaction([pc EXCEPT ![c] = "manual_wait"], scheduled)
    <3> DEFINE p == [pc EXCEPT ![c] = "manual_wait"]
    <3>1. Follows(p) /\ p[BG] = pc[BG]
      BY <1>1, CallerMoves
    <3>2. UNCHANGED shutting_down_
      BY <1>3 DEF ManualLoop
    <3>3. MaybeScheduleCompaction(p, scheduled)
      BY <2>2
    <3> HIDE DEF p
    <3> QED
      BY <3>1, <3>2, <3>3, ScheduleStep
  <2> QED
    BY <1>3, <2>1, <2>2 DEF ManualLoop, manualVars
<1>4. CASE StartClose
  BY <1>4, Threadness
  DEF StartClose, dataVars, manualVars, BackgroundInv, ClosedIsQuiet, At, WorkIsScheduled
<1>5. CASE WaitForBackground
  BY <1>5, Threadness
  DEF WaitForBackground, AtLocked, StillRunning, dataVars, manualVars, bgVars, BackgroundInv,
      ClosedIsQuiet, At, WorkIsScheduled, Closing
<1> QED
  BY <1>2, <1>3, <1>4, <1>5

\* The invariant holds in every state.
THEOREM BackgroundInvHolds == Spec => []BackgroundInv
<1>1. Init => BackgroundInv
  BY Threadness
  DEF Init, ScheduledByOpen, BackgroundInv, BackgroundStates, Closing, WorkIsScheduled, ClosedIsQuiet, At
<1>2. BackgroundInv /\ [Next]_vars => BackgroundInv'
  <2> SUFFICES ASSUME BackgroundInv, [Next]_vars PROVE BackgroundInv'
    OBVIOUS
  <2>1. CASE UNCHANGED vars
    BY <2>1
    DEF vars, dataVars, bgVars, manualVars, BackgroundInv, ClosedIsQuiet, At, WorkIsScheduled
  <2> QED
    BY <2>1, BackgroundStepKeeps, WriterStepKeeps, CallerStepKeeps DEF Next
<1> QED
  BY <1>1, <1>2, PTL DEF Spec

\* MaybeScheduleCompaction forgets no work, however it races with the end of
\* the previous background call.
THEOREM NoWorkIsForgotten == Spec => []WorkIsScheduled
<1>1. BackgroundInv => WorkIsScheduled
  BY DEF BackgroundInv
<1> QED
  BY <1>1, BackgroundInvHolds, PTL

\* After ~DBImpl's wait the background thread does not touch the DB.
THEOREM DestructorWaits == Spec => []ClosedIsQuiet
<1>1. BackgroundInv => ClosedIsQuiet
  BY DEF BackgroundInv
<1> QED
  BY <1>1, BackgroundInvHolds, PTL
=============================================================================
