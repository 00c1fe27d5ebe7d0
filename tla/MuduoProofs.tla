---------------------------- MODULE MuduoProofs ----------------------------
(***************************************************************************)
(* Proofs about muduo: MuduoThreadPool for any workers, callers, queue     *)
(* size and number of tasks, and MuduoEventLoop for any threads and any    *)
(* number of functors and I/O events.                                      *)
(***************************************************************************)
EXTENDS MuduoEventLoop, MuduoThreadPool, SequenceTheorems, TLAPS

-----------------------------------------------------------------------------
(* ThreadPool                                                              *)

\* Only the types that the theorems below need.
QueueTypes ==
  /\ tasks \in Nat
  /\ queue_ \in Seq(Nat) /\ accepted \in Seq(Nat) /\ started \in Seq(Nat)
  /\ offered \in [Callers -> Nat]

\* Moving the head of one sequence to the end of another leaves what they
\* make together as it was: what take() does to the queue.
LEMMA MoveHead ==
  ASSUME NEW s \in Seq(Nat), NEW q \in Seq(Nat), q # <<>>
  PROVE  Append(s, Head(q)) \o Tail(q) = s \o q
<1>1. /\ Head(q) \in Nat /\ Tail(q) \in Seq(Nat)
      /\ Len(Tail(q)) = Len(q) - 1 /\ \A i \in 1..Len(Tail(q)) : Tail(q)[i] = q[i + 1]
  BY HeadTailProperties
<1>2. Head(q) = q[1] /\ Len(q) \in Nat \ {0} /\ Len(s) \in Nat
  BY EmptySeq, LenProperties
<1> DEFINE a == Append(s, Head(q))
<1>3. /\ a \in Seq(Nat) /\ Len(a) = Len(s) + 1
      /\ \A i \in 1..Len(s) : a[i] = s[i]
      /\ a[Len(s) + 1] = Head(q)
  BY <1>1, AppendProperties
<1> HIDE DEF a
<1>4. /\ a \o Tail(q) \in Seq(Nat)
      /\ Len(a \o Tail(q)) = Len(a) + Len(Tail(q))
      /\ \A i \in 1..Len(a) + Len(Tail(q)) :
           (a \o Tail(q))[i] = IF i <= Len(a) THEN a[i] ELSE Tail(q)[i - Len(a)]
  BY <1>1, <1>3, ConcatProperties
<1>5. /\ s \o q \in Seq(Nat)
      /\ Len(s \o q) = Len(s) + Len(q)
      /\ \A i \in 1..Len(s) + Len(q) :
           (s \o q)[i] = IF i <= Len(s) THEN s[i] ELSE q[i - Len(s)]
  BY ConcatProperties
<1>6. Len(a \o Tail(q)) = Len(s \o q)
  BY <1>1, <1>2, <1>3, <1>4, <1>5
<1>7. ASSUME NEW i \in 1..Len(a \o Tail(q)) PROVE (a \o Tail(q))[i] = (s \o q)[i]
  <2>1. CASE i <= Len(s)
    BY <1>2, <1>3, <1>4, <1>5, <1>6, <2>1
  <2>2. CASE i = Len(s) + 1
    <3>1. i <= Len(a) /\ i > Len(s) /\ i - Len(s) = 1
      BY <1>2, <1>3, <2>2
    <3>2. i \in 1..Len(a) + Len(Tail(q)) /\ i \in 1..Len(s) + Len(q)
      BY <1>4, <1>5, <1>6
    <3>3. (a \o Tail(q))[i] = a[i] /\ (s \o q)[i] = q[1]
      BY <1>2, <1>4, <1>5, <2>2, <3>1, <3>2
    <3> QED
      BY <1>2, <1>3, <2>2, <3>3
  <2>3. CASE i > Len(s) + 1
    <3>1. i - Len(a) \in 1..Len(Tail(q)) /\ (i - Len(a)) + 1 = i - Len(s)
      BY <1>1, <1>2, <1>3, <1>4, <2>3
    <3> QED
      <4>1. ~(i <= Len(a)) /\ ~(i <= Len(s))
        BY <1>2, <1>3, <2>3
      <4>2. i \in 1..Len(a) + Len(Tail(q)) /\ i \in 1..Len(s) + Len(q)
        BY <1>4, <1>5, <1>6
      <4>3. /\ (a \o Tail(q))[i] = Tail(q)[i - Len(a)]
            /\ (s \o q)[i] = q[i - Len(s)]
        BY <1>4, <1>5, <4>1, <4>2
      <4> QED
        BY <1>1, <3>1, <4>3
  <2>4. i \in Int
    BY <1>1, <1>2, <1>3, <1>4
  <2>5. i <= Len(s) \/ i = Len(s) + 1 \/ i > Len(s) + 1
    BY <1>2, <2>4
  <2> QED
    BY <2>1, <2>2, <2>3, <2>5, Zenon
<1> QED
  BY <1>4, <1>5, <1>6, <1>7, SeqEqual DEF a

\* Adding to the end of the second sequence adds to the end of both.
LEMMA AddLast ==
  ASSUME NEW s \in Seq(Nat), NEW q \in Seq(Nat), NEW x \in Nat
  PROVE  s \o Append(q, x) = Append(s \o q, x)
<1>1. Append(q, x) = q \o <<x>> /\ <<x>> \in Seq(Nat) /\ s \o q \in Seq(Nat)
  BY AppendIsConcat, ConcatProperties
<1>2. Append(s \o q, x) = (s \o q) \o <<x>>
  BY <1>1, AppendIsConcat
<1> QED
  BY <1>1, <1>2, ConcatAssociative

\* One step keeps the types.
LEMMA QueueTypesStep == QueueTypes /\ [PoolNext]_poolVars => QueueTypes'
<1> SUFFICES ASSUME QueueTypes, [PoolNext]_poolVars PROVE QueueTypes'
  OBVIOUS
<1> USE DEF QueueTypes
<1>1. ASSUME NEW w \in Workers, Worker(w) PROVE QueueTypes'
  <2>1. CASE TakeTask(w)
    <3>1. Head(queue_) \in Nat /\ Tail(queue_) \in Seq(Nat)
      BY <2>1, HeadTailProperties DEF TakeTask
    <3> QED
      BY <2>1, <3>1 DEF TakeTask
  <2>2. CASE CheckRunning(w)
    BY <2>2 DEF CheckRunning
  <2>3. CASE WaitNotEmpty(w)
    BY <2>3 DEF WaitNotEmpty
  <2>4. CASE TakeNothing(w)
    BY <2>4 DEF TakeNothing
  <2>5. CASE FinishTask(w)
    BY <2>5 DEF FinishTask
  <2> QED
    BY <1>1, <2>1, <2>2, <2>3, <2>4, <2>5 DEF Worker
<1>2. ASSUME NEW c \in Callers, Run(c) \/ Caller(c) PROVE QueueTypes'
  <2>1. CASE Run(c)
    BY <2>1 DEF Run
  <2>2. CASE WaitNotFull(c)
    BY <2>2 DEF WaitNotFull
  <2>3. CASE RunHere(c) \/ RefuseTask(c)
    BY <2>3 DEF RunHere, RefuseTask, Return
  <2>4. CASE QueueTask(c)
    <3>1. Append(queue_, offered[c]) \in Seq(Nat) /\ Append(accepted, offered[c]) \in Seq(Nat)
      BY AppendProperties
    <3> QED
      BY <2>4, <3>1 DEF QueueTask, Return, PushBack
  <2> QED
    BY <1>2, <2>1, <2>2, <2>3, <2>4 DEF Caller
<1>3. CASE SpuriousWakeup \/ Stop \/ JoinAll
  BY <1>3 DEF SpuriousWakeup, Stop, JoinAll
<1>4. CASE UNCHANGED poolVars
  BY <1>4 DEF poolVars
<1> QED
  BY <1>1, <1>2, <1>3, <1>4 DEF PoolNext

\* The types hold always.
THEOREM TypesHold == PoolSpec => []QueueTypes
<1>1. PoolInit => QueueTypes
  BY DEF PoolInit, QueueTypes
<1> QED
  BY <1>1, QueueTypesStep, PTL DEF PoolSpec

\* The queue of a ThreadPool with a limit never exceeds it, for any limit and
\* any number of callers that wait for a place: run()'s assertion holds.
THEOREM BoundIsKept == PoolSpec => []QueueIsBounded
<1>1. PoolInit => QueueIsBounded
  BY PoolBounds DEF PoolInit, QueueIsBounded
<1>2. QueueTypes /\ QueueIsBounded /\ [PoolNext]_poolVars => QueueIsBounded'
  <2> SUFFICES ASSUME QueueTypes, QueueIsBounded, [PoolNext]_poolVars PROVE QueueIsBounded'
    OBVIOUS
  <2> USE PoolBounds DEF QueueTypes, QueueIsBounded
  <2>1. ASSUME NEW w \in Workers, Worker(w) PROVE QueueIsBounded'
    <3>1. CASE TakeTask(w)
      <4>1. Len(Tail(queue_)) = Len(queue_) - 1
        BY <3>1, HeadTailProperties DEF TakeTask
      <4> QED
        BY <3>1, <4>1 DEF TakeTask
    <3> QED
      BY <2>1, <3>1 DEF Worker, CheckRunning, WaitNotEmpty, TakeNothing, FinishTask
  <2>2. ASSUME NEW c \in Callers, Run(c) \/ Caller(c) PROVE QueueIsBounded'
    <3>1. CASE QueueTask(c)
      BY <3>1 DEF QueueTask, PushBack, isFull
    <3> QED
      BY <2>2, <3>1 DEF Run, Caller, RunHere, WaitNotFull, RefuseTask
  <2>3. CASE SpuriousWakeup \/ Stop \/ JoinAll
    BY <2>3 DEF SpuriousWakeup, Stop, JoinAll
  <2>4. CASE UNCHANGED poolVars
    BY <2>4 DEF poolVars
  <2> QED
    BY <2>1, <2>2, <2>3, <2>4 DEF PoolNext
<1> QED
  BY <1>1, <1>2, TypesHold, PTL DEF PoolSpec

\* Workers begin the queued tasks in order and each one once.
THEOREM OrderIsKept == PoolSpec => []TakenInOrder
<1>1. PoolInit => TakenInOrder
  BY DEF PoolInit, TakenInOrder
<1>2. QueueTypes /\ TakenInOrder /\ [PoolNext]_poolVars => TakenInOrder'
  <2> SUFFICES ASSUME QueueTypes, TakenInOrder, [PoolNext]_poolVars PROVE TakenInOrder'
    OBVIOUS
  <2> USE DEF QueueTypes, TakenInOrder
  <2>1. ASSUME NEW w \in Workers, Worker(w) PROVE TakenInOrder'
    <3>1. CASE TakeTask(w)
      <4>1. Append(started, Head(queue_)) \o Tail(queue_) = started \o queue_
        BY <3>1, MoveHead DEF TakeTask
      <4> QED
        BY <3>1, <4>1 DEF TakeTask
    <3> QED
      BY <2>1, <3>1 DEF Worker, CheckRunning, WaitNotEmpty, TakeNothing, FinishTask
  <2>2. ASSUME NEW c \in Callers, Run(c) \/ Caller(c) PROVE TakenInOrder'
    <3>1. CASE QueueTask(c)
      <4>1. offered[c] \in Nat
        OBVIOUS
      <4>2. started \o Append(queue_, offered[c]) = Append(started \o queue_, offered[c])
        BY <4>1, AddLast
      <4> QED
        BY <3>1, <4>2 DEF QueueTask, PushBack
    <3> QED
      BY <2>2, <3>1 DEF Run, Caller, RunHere, WaitNotFull, RefuseTask
  <2>3. CASE SpuriousWakeup \/ Stop \/ JoinAll
    BY <2>3 DEF SpuriousWakeup, Stop, JoinAll
  <2>4. CASE UNCHANGED poolVars
    BY <2>4 DEF poolVars
  <2> QED
    BY <2>1, <2>2, <2>3, <2>4 DEF PoolNext
<1> QED
  BY <1>1, <1>2, TypesHold, PTL DEF PoolSpec

\* Once stop() has notified everybody, nobody waits in take() or in run().
THEOREM NobodyWaitsAfterStop == PoolSpec => []NoWaitAfterStop
<1>1. PoolInit => NoWaitAfterStop
  BY DEF PoolInit, NoWaitAfterStop
<1>2. NoWaitAfterStop /\ [PoolNext]_poolVars => NoWaitAfterStop'
  <2> SUFFICES ASSUME NoWaitAfterStop, [PoolNext]_poolVars PROVE NoWaitAfterStop'
    OBVIOUS
  <2> USE DEF NoWaitAfterStop
  <2>1. ASSUME NEW w \in Workers, Worker(w) PROVE NoWaitAfterStop'
    BY <2>1 DEF Worker, CheckRunning, WaitNotEmpty, TakeNothing, TakeTask, FinishTask, Notify
  <2>2. ASSUME NEW c \in Callers, Run(c) \/ Caller(c) PROVE NoWaitAfterStop'
    BY <2>2 DEF Run, Caller, RunHere, WaitNotFull, RefuseTask, QueueTask
  <2>3. CASE SpuriousWakeup \/ Stop \/ JoinAll
    BY <2>3 DEF SpuriousWakeup, Stop, JoinAll, NotifyEverybody
  <2>4. CASE UNCHANGED poolVars
    BY <2>4 DEF poolVars
  <2> QED
    BY <2>1, <2>2, <2>3, <2>4 DEF PoolNext
<1> QED
  BY <1>1, <1>2, PTL DEF PoolSpec

-----------------------------------------------------------------------------
(* EventLoop                                                               *)

\* The types that the proofs need, and what the phases of the loop say of
\* callingPendingFunctors_ and of the list that doPendingFunctors works on.
LoopTypes ==
  /\ thread \in [Threads -> {"idle", "wakeup"}]
  /\ queued \in Nat /\ early \in Nat
  /\ ran \in Seq(Nat) /\ functors \in Seq(Nat) /\ pendingFunctors_ \in Seq(Nat)
  /\ pc \in {"swap", "run"} => callingPendingFunctors_
  /\ functors # <<>> => pc = "run"
  /\ owner = "created" => pc = "created"

\* Where each functor is: those run are the first ones, then come those taken
\* and then those pending.
Numbered ==
  /\ queued = Len(ran) + Len(functors) + Len(pendingFunctors_)
  /\ \A i \in 1..Len(ran) : ran[i] = i
  /\ \A i \in 1..Len(functors) : functors[i] = Len(ran) + i
  /\ \A i \in 1..Len(pendingFunctors_) : pendingFunctors_[i] = Len(ran) + Len(functors) + i

\* NoSleepOnPending, not only in poll but wherever the functors of this
\* iteration have been taken or the loop has yet to begin.
WakeupIsOwed ==
  pc \notin {"handle", "swap"} /\ queued > early /\ pendingFunctors_ # <<>> =>
    eventfd \/ \E t \in Threads : thread[t] = "wakeup"

LoopInv == LoopTypes /\ Numbered /\ WakeupIsOwed

\* Queueing a functor at the end keeps all of them numbered (queueInLoop).
LEMMA PushStep ==
  ASSUME LoopTypes, Numbered, Push
  PROVE  /\ pendingFunctors_' \in Seq(Nat) /\ queued' \in Nat /\ queued' > 0
         /\ Len(pendingFunctors_') = Len(pendingFunctors_) + 1
         /\ queued' = Len(ran) + Len(functors) + Len(pendingFunctors_')
         /\ \A i \in 1..Len(pendingFunctors_') :
              pendingFunctors_'[i] = Len(ran) + Len(functors) + i
<1>1. queued + 1 \in Nat /\ queued' = queued + 1
      /\ pendingFunctors_' = Append(pendingFunctors_, queued + 1)
  BY DEF LoopTypes, Push
<1>2. /\ pendingFunctors_' \in Seq(Nat)
      /\ Len(pendingFunctors_') = Len(pendingFunctors_) + 1
      /\ \A i \in 1..Len(pendingFunctors_) : pendingFunctors_'[i] = pendingFunctors_[i]
      /\ pendingFunctors_'[Len(pendingFunctors_) + 1] = queued + 1
  BY <1>1, AppendProperties DEF LoopTypes
<1>3. Len(ran) \in Nat /\ Len(functors) \in Nat /\ Len(pendingFunctors_) \in Nat
  BY LenProperties DEF LoopTypes
<1>4. ASSUME NEW i \in 1..Len(pendingFunctors_')
      PROVE  pendingFunctors_'[i] = Len(ran) + Len(functors) + i
  <2>1. i \in 1..Len(pendingFunctors_) \/ i = Len(pendingFunctors_) + 1
    BY <1>2, <1>3
  <2> QED
    BY <1>2, <1>3, <2>1 DEF Numbered
<1> QED
  BY <1>1, <1>2, <1>3, <1>4 DEF Numbered

\* What a functor or a handler does keeps the functors numbered; if it queues
\* one while doPendingFunctors runs, the eventfd becomes readable.
LEMMA EffectStep ==
  ASSUME LoopTypes, Numbered, Effect
  PROVE  /\ pendingFunctors_' \in Seq(Nat) /\ queued' \in Nat
         /\ queued' = Len(ran) + Len(functors) + Len(pendingFunctors_')
         /\ \A i \in 1..Len(pendingFunctors_') :
              pendingFunctors_'[i] = Len(ran) + Len(functors) + i
         /\ \/ UNCHANGED <<pendingFunctors_, queued, eventfd>>
            \/ callingPendingFunctors_ => eventfd'
<1>1. CASE QueueInLoop
  BY <1>1, PushStep DEF QueueInLoop, NeedsWakeup
<1>2. CASE Nothing \/ Quit
  BY <1>2 DEF Nothing, Quit, LoopTypes, Numbered
<1> QED
  BY <1>1, <1>2 DEF Effect

\* One step of any thread keeps the types.
LEMMA TypesStep == LoopTypes /\ Numbered /\ [Next]_vars => LoopTypes'
<1> SUFFICES ASSUME LoopTypes, Numbered, [Next]_vars PROVE LoopTypes'
  OBVIOUS
<1>1. CASE RunInitCallback
  <2>1. pendingFunctors_' \in Seq(Nat) /\ queued' \in Nat
    BY <1>1, EffectStep DEF RunInitCallback, Effect
  <2> QED
    BY <1>1, <2>1 DEF LoopTypes, ownership, RunInitCallback
<1>2. CASE HandleEvent
  BY <1>2, EffectStep DEF LoopTypes, ownership, HandleEvent
<1>3. CASE RunFunctor
  <2>1. Head(functors) \in Nat /\ Tail(functors) \in Seq(Nat)
    BY <1>3, HeadTailProperties DEF LoopTypes, ownership, RunFunctor
  <2>2. Append(ran, Head(functors)) \in Seq(Nat)
    BY <2>1, AppendProperties DEF LoopTypes
  <2> QED
    BY <1>3, <2>1, <2>2, EffectStep DEF LoopTypes, ownership, RunFunctor
<1>4. CASE SwapFunctors
  BY <1>4 DEF LoopTypes, SwapFunctors, Taken, ownership, history
<1>5. CASE PublishLoop \/ EnterLoop \/ CheckQuit \/ Poll \/ PollTimesOut \/ LeaveThread
  BY <1>5 DEF LoopTypes, PublishLoop, EnterLoop, CheckQuit, Poll, PollTimesOut,
              LeaveThread, NotifyOwner, ownership, history
<1>6. CASE HandleRead \/ BeginPending \/ EndPending \/ IoEvent
  <2>1. CASE HandleRead \/ IoEvent
    BY <2>1 DEF LoopTypes, HandleRead, IoEvent, ownership, history
  <2>2. CASE BeginPending
    BY <2>2 DEF LoopTypes, BeginPending, ownership, history
  <2>3. CASE EndPending
    BY <2>3 DEF LoopTypes, EndPending, ownership, history
  <2> QED
    BY <1>6, <2>1, <2>2, <2>3
<1>7. CASE Owner \/ StartThread \/ BeginDestruct
  BY <1>7 DEF LoopTypes, Owner, WaitForLoop, QuitLoop, WakeupLoop, Join, StartThread,
              BeginDestruct, loopState, history
<1>8. ASSUME NEW t \in Threads, Outside(t) \/ Wakeup(t) PROVE LoopTypes'
  <2>1. CASE QueueFromOutside(t)
    BY <2>1, PushStep DEF LoopTypes, ownership, QueueFromOutside
  <2>2. CASE QuitFromOutside(t)
    BY <2>2 DEF LoopTypes, QuitFromOutside, WakeupNext, ownership, history
  <2>3. CASE Wakeup(t)
    BY <2>3 DEF LoopTypes, Wakeup, ownership, history
  <2> QED
    BY <1>8, <2>1, <2>2, <2>3 DEF Outside
<1>9. CASE UNCHANGED vars
  BY <1>9 DEF LoopTypes, vars, ownership, history
<1> QED
  BY <1>1, <1>2, <1>3, <1>4, <1>5, <1>6, <1>7, <1>8, <1>9 DEF Next, LoopThread

\* One step of any thread keeps the functors numbered.
LEMMA NumberedStep == LoopTypes /\ Numbered /\ [Next]_vars => Numbered'
<1> SUFFICES ASSUME LoopTypes, Numbered, [Next]_vars PROVE Numbered'
  OBVIOUS
<1>1. CASE RunInitCallback
  BY <1>1, EffectStep DEF Numbered, RunInitCallback, Effect
<1>2. CASE HandleEvent
  BY <1>2, EffectStep DEF Numbered, HandleEvent
<1>3. CASE RunFunctor
  <2>1. /\ Head(functors) = functors[1] /\ Len(functors) \in Nat \ {0}
        /\ Len(functors') = Len(functors) - 1
        /\ \A i \in 1..Len(functors') : functors'[i] = functors[i + 1]
    BY <1>3, HeadTailProperties, EmptySeq, LenProperties DEF LoopTypes, RunFunctor
  <2>2. Len(ran) \in Nat /\ Head(functors) = Len(ran) + 1
    BY <2>1, LenProperties DEF LoopTypes, Numbered
  <2>3. /\ Len(ran') = Len(ran) + 1
        /\ \A i \in 1..Len(ran) : ran'[i] = ran[i]
        /\ ran'[Len(ran) + 1] = Len(ran) + 1
    BY <1>3, <2>2, AppendProperties DEF LoopTypes, RunFunctor
  <2>4. Len(ran') + Len(functors') = Len(ran) + Len(functors)
    BY <2>1, <2>2, <2>3
  <2>5. ASSUME NEW i \in 1..Len(ran') PROVE ran'[i] = i
    <3>1. i \in 1..Len(ran) \/ i = Len(ran) + 1
      BY <2>2, <2>3
    <3> QED
      BY <2>3, <3>1 DEF Numbered
  <2>6. ASSUME NEW i \in 1..Len(functors') PROVE functors'[i] = Len(ran') + i
    BY <2>1, <2>2, <2>3 DEF Numbered
  <2> QED
    BY <1>3, <2>4, <2>5, <2>6, EffectStep DEF Numbered, RunFunctor
<1>4. CASE SwapFunctors
  <2>1. functors = <<>> /\ functors' = pendingFunctors_ /\ pendingFunctors_' = <<>>
    BY <1>4 DEF LoopTypes, SwapFunctors, Taken
  <2>2. Len(functors) = 0 /\ Len(pendingFunctors_') = 0
    BY <2>1
  <2>3. Len(ran) \in Nat /\ Len(pendingFunctors_) \in Nat
    BY LenProperties DEF LoopTypes
  <2> QED
    BY <1>4, <2>1, <2>2, <2>3 DEF Numbered, SwapFunctors, history
<1>5. CASE \/ PublishLoop \/ EnterLoop \/ CheckQuit \/ Poll \/ PollTimesOut \/ LeaveThread
           \/ HandleRead \/ BeginPending \/ EndPending \/ IoEvent
  BY <1>5 DEF Numbered, PublishLoop, EnterLoop, CheckQuit, Poll, PollTimesOut, LeaveThread,
              HandleRead, BeginPending, EndPending, IoEvent, history
<1>6. CASE Owner \/ StartThread \/ BeginDestruct
  BY <1>6 DEF Numbered, Owner, WaitForLoop, QuitLoop, WakeupLoop, Join, StartThread,
              BeginDestruct, loopState, history
<1>7. ASSUME NEW t \in Threads, Outside(t) \/ Wakeup(t) PROVE Numbered'
  <2>1. CASE QueueFromOutside(t)
    BY <2>1, PushStep DEF Numbered, QueueFromOutside
  <2>2. CASE QuitFromOutside(t) \/ Wakeup(t)
    BY <2>2 DEF Numbered, QuitFromOutside, Wakeup, history
  <2> QED
    BY <1>7, <2>1, <2>2 DEF Outside
<1>8. CASE UNCHANGED vars
  BY <1>8 DEF Numbered, vars, history
<1> QED
  BY <1>1, <1>2, <1>3, <1>4, <1>5, <1>6, <1>7, <1>8 DEF Next, LoopThread

\* One step of any thread keeps what is owed: a functor queued by another
\* thread is followed by its write to the eventfd, one queued by a functor
\* finds callingPendingFunctors_ set, and handleRead, which empties the
\* eventfd, comes before the functors are taken.
LEMMA WakeupStep == LoopInv /\ [Next]_vars => WakeupIsOwed'
<1> SUFFICES ASSUME LoopInv, [Next]_vars PROVE WakeupIsOwed'
  OBVIOUS
<1> USE DEF WakeupIsOwed
<1>1. CASE RunInitCallback
  BY <1>1, TypesStep DEF RunInitCallback, LoopInv, LoopTypes
<1>2. CASE HandleEvent \/ HandleRead \/ BeginPending
  BY <1>2 DEF HandleEvent, HandleRead, BeginPending
<1>3. CASE RunFunctor
  <2>1. callingPendingFunctors_ /\ pc = "run" /\ pc' = pc /\ thread' = thread /\ early' = early
    BY <1>3 DEF RunFunctor, LoopInv, LoopTypes
  <2>2. UNCHANGED <<pendingFunctors_, queued, eventfd>> \/ eventfd'
    BY <1>3, <2>1, EffectStep DEF RunFunctor, LoopInv
  <2> QED
    BY <2>1, <2>2 DEF LoopInv
<1>4. CASE SwapFunctors
  BY <1>4 DEF SwapFunctors, Taken
<1>5. CASE EndPending
  BY <1>5 DEF EndPending, LoopInv, history
<1>6. CASE PublishLoop \/ EnterLoop \/ CheckQuit \/ Poll \/ PollTimesOut \/ LeaveThread \/ IoEvent
  BY <1>6 DEF PublishLoop, EnterLoop, CheckQuit, Poll, PollTimesOut, LeaveThread, IoEvent,
              LoopInv, history
<1>7. CASE StartThread
  BY <1>7 DEF StartThread, LoopInv, LoopTypes, loopState, history
<1>8. CASE Owner \/ BeginDestruct
  BY <1>8 DEF Owner, WaitForLoop, QuitLoop, WakeupLoop, Join, BeginDestruct, LoopInv, loopState,
              history
<1>9. ASSUME NEW t \in Threads, Outside(t) \/ Wakeup(t) PROVE WakeupIsOwed'
  <2>1. CASE QueueFromOutside(t)
    <3>1. thread'[t] = "wakeup"
      BY <2>1 DEF QueueFromOutside, NeedsWakeup, LoopInv, LoopTypes
    <3> QED
      BY <3>1
  <2>2. CASE QuitFromOutside(t)
    <3>1. thread'[t] = "wakeup"
      BY <2>2 DEF QuitFromOutside, WakeupNext, LoopInv, LoopTypes
    <3> QED
      BY <3>1
  <2>3. CASE Wakeup(t)
    BY <2>3 DEF Wakeup
  <2> QED
    BY <1>9, <2>1, <2>2, <2>3 DEF Outside
<1>10. CASE UNCHANGED vars
  BY <1>10 DEF vars, LoopInv, history
<1> QED
  BY <1>1, <1>2, <1>3, <1>4, <1>5, <1>6, <1>7, <1>8, <1>9, <1>10 DEF Next, LoopThread

\* The invariant holds of every EventLoop, whatever threads use it.
THEOREM LoopInvHolds == Spec => []LoopInv
<1>1. Init => LoopInv
  BY DEF Init, LoopInv, LoopTypes, Numbered, WakeupIsOwed
<1>2. LoopInv /\ [Next]_vars => LoopInv'
  BY TypesStep, NumberedStep, WakeupStep DEF LoopInv
<1> QED
  BY <1>1, <1>2, PTL DEF Spec

\* doPendingFunctors and queueInLoop: functors run in the order in which they
\* were queued and each one once, for any number of threads and functors.
THEOREM FunctorsRunInOrder == Spec => []RunInQueueOrder
<1>1. LoopInv => RunInQueueOrder
  <2> SUFFICES ASSUME LoopInv PROVE RunInQueueOrder
    OBVIOUS
  <2> USE DEF LoopInv, LoopTypes, Numbered
  <2>1. Len(ran) \in Nat /\ Len(functors) \in Nat /\ Len(pendingFunctors_) \in Nat
    BY LenProperties
  <2> DEFINE taken == ran \o functors
             all == taken \o pendingFunctors_
  <2>2. /\ taken \in Seq(Nat) /\ Len(taken) = Len(ran) + Len(functors)
        /\ \A i \in 1..Len(ran) + Len(functors) :
             taken[i] = IF i <= Len(ran) THEN ran[i] ELSE functors[i - Len(ran)]
    BY ConcatProperties
  <2>3. ASSUME NEW i \in 1..Len(taken) PROVE taken[i] = i
    BY <2>1, <2>2
  <2> HIDE DEF taken
  <2>4. /\ all \in Seq(Nat) /\ Len(all) = Len(taken) + Len(pendingFunctors_)
        /\ \A i \in 1..Len(taken) + Len(pendingFunctors_) :
             all[i] = IF i <= Len(taken) THEN taken[i] ELSE pendingFunctors_[i - Len(taken)]
    BY <2>2, ConcatProperties
  <2> HIDE DEF all
  <2>5. Len(all) = queued
    BY <2>1, <2>2, <2>4
  <2>6. ASSUME NEW i \in 1..queued PROVE all[i] = i
    <3>1. CASE i <= Len(taken)
      BY <2>1, <2>2, <2>3, <2>4, <2>5, <3>1
    <3>2. CASE i > Len(taken)
      <4>1. i - Len(taken) \in 1..Len(pendingFunctors_)
        BY <2>1, <2>2, <3>2
      <4>2. all[i] = pendingFunctors_[i - Len(taken)]
        BY <2>1, <2>2, <2>4, <2>5, <3>2
      <4> QED
        BY <2>1, <2>2, <4>1, <4>2
    <3> QED
      BY <2>1, <2>2, <3>1, <3>2
  <2>7. all = [i \in 1..queued |-> all[i]]
    BY <2>4, <2>5, LenProperties
  <2> QED
    BY <2>6, <2>7 DEF RunInQueueOrder, taken, all
<1> QED
  BY <1>1, LoopInvHolds, PTL

\* queueInLoop's wakeup: the loop never sleeps in poll on a functor that was
\* queued since loop() began, for any number of threads and functors.
THEOREM LoopNeverSleepsOnFunctors == Spec => []NoSleepOnPending
<1>1. LoopInv => NoSleepOnPending
  <2> SUFFICES ASSUME LoopInv, pc = "poll",
                      NEW i \in DOMAIN pendingFunctors_, pendingFunctors_[i] > early
               PROVE  eventfd \/ \E t \in Threads : thread[t] = "wakeup"
    BY DEF NoSleepOnPending
  <2> USE DEF LoopInv, LoopTypes, Numbered
  <2>1. i \in 1..Len(pendingFunctors_) /\ Len(pendingFunctors_) \in Nat
    BY LenProperties
  <2>2. Len(ran) \in Nat /\ Len(functors) \in Nat
    BY LenProperties
  <2>3. queued > early /\ pendingFunctors_ # <<>>
    BY <2>1, <2>2
  <2> QED
    BY <2>3 DEF WakeupIsOwed
<1> QED
  BY <1>1, LoopInvHolds, PTL
=============================================================================
