-------------------------- MODULE MuduoThreadPool --------------------------
(***************************************************************************)
(* muduo's ThreadPool (muduo/base/ThreadPool.cc): threads that take tasks  *)
(* from a queue of bounded length, callers of run() that wait while it is  *)
(* full, and stop().  Critical sections of mutex_ are atomic; a thread in  *)
(* a wait is in the set of its Condition until it is notified or wakes up  *)
(* for no reason, and then looks again.                                    *)
(*                                                                         *)
(* take, put and the two Conditions are those of BoundedBlockingQueue too  *)
(* (muduo/base/BoundedBlockingQueue.h), which has no stop().               *)
(***************************************************************************)
EXTENDS Integers, Sequences, FiniteSets

CONSTANTS
  Workers,        \* threads the pool may have
  Callers,
  maxQueueSize_,  \* 0: no limit
  MaxTasks,       \* bound on the calls of run()
  MayStop         \* whether stop() is called

ASSUME PoolBounds == maxQueueSize_ \in Nat /\ MaxTasks \in Nat /\ MayStop \in BOOLEAN

VARIABLES
  running_, queue_,
  notEmpty_, notFull_,  \* the threads that wait on each Condition
  worker,               \* where runInThread is in each worker, "none": not in the pool
  task,                 \* the task each worker has taken, 0: none
  caller,               \* where run() is in each caller
  offered,              \* the task each caller has brought, 0: none
  stopper,              \* where stop() is
  tasks, accepted, started \* history: calls of run(); tasks queued; tasks begun

poolVars == <<running_, queue_, notEmpty_, notFull_, worker, task, caller, offered, stopper, tasks,
          accepted, started>>

\* The pool after start(): it has any number of threads, also none.
PoolInit ==
  /\ running_ = TRUE /\ queue_ = <<>>
  /\ notEmpty_ = {} /\ notFull_ = {}
  /\ worker \in [Workers -> {"check", "none"}] /\ task = [w \in Workers |-> 0]
  /\ caller = [c \in Callers |-> "out"] /\ offered = [c \in Callers |-> 0]
  /\ stopper = "out"
  /\ tasks = 0 /\ accepted = <<>> /\ started = <<>>

threads_ == {w \in Workers : worker[w] # "none"}

\* Mutant: the notify is missing.
NotifyNone(cond, cond1) == cond1 = cond
\* Condition::notify: one of the waiting threads, if there is any, goes on.
Notify(cond, cond1) == IF cond = {} THEN cond1 = {} ELSE \E t \in cond : cond1 = cond \ {t}

\* Mutant: off by one.
FullTooLate == maxQueueSize_ > 0 /\ Len(queue_) > maxQueueSize_
isFull == maxQueueSize_ > 0 /\ Len(queue_) >= maxQueueSize_

-----------------------------------------------------------------------------
(* run()                                                                   *)

Run(c) ==
  /\ caller[c] = "out" /\ tasks < MaxTasks
  /\ tasks' = tasks + 1
  /\ offered' = [offered EXCEPT ![c] = tasks + 1]
  /\ caller' = [caller EXCEPT ![c] = "in"]
  /\ UNCHANGED <<running_, queue_, notEmpty_, notFull_, worker, task, stopper, accepted, started>>

Return(c) ==
  /\ caller' = [caller EXCEPT ![c] = "out"]
  /\ offered' = [offered EXCEPT ![c] = 0]

\* Without threads the caller runs the task itself.
RunHere(c) ==
  /\ caller[c] = "in" /\ threads_ = {}
  /\ Return(c)
  /\ UNCHANGED <<running_, queue_, notEmpty_, notFull_, worker, task, stopper, tasks, accepted,
                 started>>

WaitNotFull(c) ==
  /\ caller[c] = "in" /\ threads_ # {} /\ c \notin notFull_ /\ isFull /\ running_
  /\ notFull_' = notFull_ \cup {c}
  /\ UNCHANGED <<running_, queue_, notEmpty_, worker, task, caller, offered, stopper, tasks,
                 accepted, started>>

\* Once the pool is stopped the task is dropped, silently.
RefuseTask(c) ==
  /\ caller[c] = "in" /\ threads_ # {} /\ c \notin notFull_ /\ ~running_
  /\ Return(c)
  /\ UNCHANGED <<running_, queue_, notEmpty_, notFull_, worker, task, stopper, tasks, accepted,
                 started>>

\* Mutant: the task goes to the front.
PushFront(x) == <<x>> \o queue_
PushBack(x) == Append(queue_, x)

QueueTask(c) ==
  /\ caller[c] = "in" /\ threads_ # {} /\ c \notin notFull_ /\ ~isFull /\ running_
  /\ queue_' = PushBack(offered[c])
  /\ accepted' = Append(accepted, offered[c])
  /\ Notify(notEmpty_, notEmpty_')
  /\ Return(c)
  /\ UNCHANGED <<running_, notFull_, worker, task, stopper, tasks, started>>

-----------------------------------------------------------------------------
(* runInThread() and take()                                                *)

\* running_ is read without the mutex.
CheckRunning(w) ==
  /\ worker[w] = "check"
  /\ worker' = [worker EXCEPT ![w] = IF running_ THEN "take" ELSE "done"]
  /\ UNCHANGED <<running_, queue_, notEmpty_, notFull_, task, caller, offered, stopper, tasks,
                 accepted, started>>

WaitNotEmpty(w) ==
  /\ worker[w] = "take" /\ w \notin notEmpty_ /\ queue_ = <<>> /\ running_
  /\ notEmpty_' = notEmpty_ \cup {w}
  /\ UNCHANGED <<running_, queue_, notFull_, worker, task, caller, offered, stopper, tasks,
                 accepted, started>>

\* Stopped with nothing in the queue: take() returns an empty task.
TakeNothing(w) ==
  /\ worker[w] = "take" /\ w \notin notEmpty_ /\ queue_ = <<>> /\ ~running_
  /\ worker' = [worker EXCEPT ![w] = "check"]
  /\ UNCHANGED <<running_, queue_, notEmpty_, notFull_, task, caller, offered, stopper, tasks,
                 accepted, started>>

TakeTask(w) ==
  /\ worker[w] = "take" /\ w \notin notEmpty_ /\ queue_ # <<>>
  /\ task' = [task EXCEPT ![w] = Head(queue_)]
  /\ started' = Append(started, Head(queue_))
  /\ queue_' = Tail(queue_)
  /\ IF maxQueueSize_ > 0 THEN Notify(notFull_, notFull_') ELSE UNCHANGED notFull_
  /\ worker' = [worker EXCEPT ![w] = "run"]
  /\ UNCHANGED <<running_, notEmpty_, caller, offered, stopper, tasks, accepted>>

FinishTask(w) ==
  /\ worker[w] = "run"
  /\ task' = [task EXCEPT ![w] = 0]
  /\ worker' = [worker EXCEPT ![w] = "check"]
  /\ UNCHANGED <<running_, queue_, notEmpty_, notFull_, caller, offered, stopper, tasks, accepted,
                 started>>

\* "always use a while-loop, due to spurious wakeup"
SpuriousWakeup ==
  /\ \/ \E w \in notEmpty_ : notEmpty_' = notEmpty_ \ {w} /\ UNCHANGED notFull_
     \/ \E c \in notFull_ : notFull_' = notFull_ \ {c} /\ UNCHANGED notEmpty_
  /\ UNCHANGED <<running_, queue_, worker, task, caller, offered, stopper, tasks, accepted,
                 started>>

-----------------------------------------------------------------------------
(* stop()                                                                  *)

\* Mutant: stop() wakes the callers only.
NotifyCallers == notFull_' = {} /\ UNCHANGED notEmpty_
\* Mutant: stop() wakes the workers only.
NotifyWorkers == notEmpty_' = {} /\ UNCHANGED notFull_
NotifyEverybody == notEmpty_' = {} /\ notFull_' = {}

Stop ==
  /\ MayStop /\ stopper = "out"
  /\ running_' = FALSE
  /\ NotifyEverybody
  /\ stopper' = "joining"
  /\ UNCHANGED <<queue_, worker, task, caller, offered, tasks, accepted, started>>

JoinAll ==
  /\ stopper = "joining" /\ \A w \in threads_ : worker[w] = "done"
  /\ stopper' = "done"
  /\ UNCHANGED <<running_, queue_, notEmpty_, notFull_, worker, task, caller, offered, tasks,
                 accepted, started>>

-----------------------------------------------------------------------------
Worker(w) ==
  CheckRunning(w) \/ WaitNotEmpty(w) \/ TakeNothing(w) \/ TakeTask(w) \/ FinishTask(w)
Caller(c) == RunHere(c) \/ WaitNotFull(c) \/ RefuseTask(c) \/ QueueTask(c)

PoolNext ==
  \/ \E w \in Workers : Worker(w)
  \/ \E c \in Callers : Run(c) \/ Caller(c)
  \/ SpuriousWakeup \/ Stop \/ JoinAll

PoolSpec == PoolInit /\ [][PoolNext]_poolVars

\* Every thread runs and every task ends. A caller may find the queue full
\* each time it looks, so it is only fair that it gets a place now and then.
PoolFairness ==
  /\ \A w \in Workers : WF_poolVars(Worker(w))
  /\ \A c \in Callers : WF_poolVars(Caller(c)) /\ SF_poolVars(QueueTask(c))
  /\ WF_poolVars(JoinAll)
PoolLiveSpec == PoolSpec /\ PoolFairness

-----------------------------------------------------------------------------
(* Properties                                                              *)

\* setMaxQueueSize is kept, however many callers were waiting for one place:
\* run()'s assertion that the queue is not full.
QueueIsBounded == maxQueueSize_ > 0 => Len(queue_) <= maxQueueSize_

\* The workers begin the tasks in the order in which they were queued, each
\* one once; what has not begun is in the queue.
TakenInOrder == accepted = started \o queue_

\* After stop() no thread is left waiting, and none begins to: the join ends.
NoWaitAfterStop == ~running_ => notEmpty_ = {} /\ notFull_ = {}

\* A queued task is begun unless the pool is stopped: stop() leaves the tasks
\* that are still in the queue.
QueuedTasksBegin == \A i \in 1..MaxTasks :
  (Len(accepted) >= i) ~> (Len(started) >= i \/ ~running_)

\* run() returns, also when it waits for a place and the pool is stopped, and
\* stop() returns: every worker leaves and is joined.
CallsReturn ==
  /\ \A c \in Callers : (caller[c] = "in") ~> (caller[c] = "out")
  /\ (stopper = "joining") ~> (stopper = "done")
=============================================================================
