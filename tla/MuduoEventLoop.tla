--------------------------- MODULE MuduoEventLoop ---------------------------
(***************************************************************************)
(* muduo's EventLoop in the thread that an EventLoopThread starts for it   *)
(* (muduo/net/EventLoop.cc, EventLoopThread.cc): polling, handling the     *)
(* active channels, running the functors that this and other threads       *)
(* queue, waking up the poll through an eventfd, quitting, and the start   *)
(* and the destruction of the EventLoopThread by its owner.                *)
(*                                                                         *)
(* A functor is a number, given out in the order in which functors are     *)
(* queued.  What a functor or the handler of an I/O event does is to queue *)
(* another functor, to call quit(), or nothing that matters here.          *)
(***************************************************************************)
EXTENDS Integers, Sequences

CONSTANTS
  Threads,     \* threads other than the loop's that use the loop
  MaxFunctors, \* bound on the functors queued
  MaxEvents,   \* bound on the I/O events
  MayQuit      \* whether functors and handlers may call quit()

ASSUME Bounds == MaxFunctors \in Nat /\ MaxEvents \in Nat /\ MayQuit \in BOOLEAN

VARIABLES
  pc,          \* where the loop's thread is
  owner,       \* where the owner of the EventLoopThread is
  thread,      \* where each other thread is
  loop_,       \* EventLoopThread::loop_ # NULL
  quit_, looping_, callingPendingFunctors_,
  eventfd,     \* whether the counter of wakeupFd_ is not 0
  readable,    \* whether an I/O channel is ready
  active,      \* activeChannels_ not yet handled
  pendingFunctors_,
  functors,    \* those doPendingFunctors has taken and not yet run
  queued, ran, early, events \* history: functors queued, run, queued before loop(); I/O events

ownership == <<owner, loop_>>
history == <<queued, ran, early, events>>
vars == <<pc, ownership, thread, quit_, looping_, callingPendingFunctors_, eventfd, readable,
          active, pendingFunctors_, functors, history>>

Init ==
  /\ pc = "created" /\ owner = "created" /\ thread = [t \in Threads |-> "idle"]
  /\ loop_ = FALSE
  /\ quit_ = FALSE /\ looping_ = FALSE /\ callingPendingFunctors_ = FALSE
  /\ eventfd = FALSE /\ readable = FALSE /\ active = {}
  /\ pendingFunctors_ = <<>> /\ functors = <<>>
  /\ queued = 0 /\ ran = <<>> /\ early = 0 /\ events = 0

-----------------------------------------------------------------------------
(* queueInLoop and quit                                                    *)

\* Mutant: callingPendingFunctors_ is forgotten.
WakesFromOutside(inLoop) == ~inLoop
\* Called by the loop's thread, queueInLoop needs no wakeup unless
\* doPendingFunctors has already taken the functors of this iteration.
NeedsWakeup(inLoop) == ~inLoop \/ callingPendingFunctors_

Push ==
  /\ queued < MaxFunctors
  /\ pendingFunctors_' = Append(pendingFunctors_, queued + 1)
  /\ queued' = queued + 1

\* What a functor or a handler may do, in the loop's thread.
Nothing == UNCHANGED <<pendingFunctors_, queued, eventfd, quit_>>
QueueInLoop ==
  /\ Push
  /\ eventfd' = (eventfd \/ NeedsWakeup(TRUE))
  /\ UNCHANGED quit_
Quit ==
  /\ MayQuit
  /\ quit_' = TRUE
  /\ UNCHANGED <<pendingFunctors_, queued, eventfd>>
Effect == Nothing \/ QueueInLoop \/ Quit

\* Another thread that uses the loop while it is there: it pushes a functor
\* and then writes to the eventfd.
InUse == owner = "started" /\ pc # "destructed"

QueueFromOutside(t) ==
  /\ thread[t] = "idle" /\ InUse
  /\ Push
  /\ thread' = [thread EXCEPT ![t] = IF NeedsWakeup(FALSE) THEN "wakeup" ELSE "idle"]
  /\ UNCHANGED <<pc, ownership, quit_, looping_, callingPendingFunctors_, eventfd, readable,
                 active, functors, ran, early, events>>

\* Mutant: quit() from outside writes no wakeup.
NoWakeup(t) == UNCHANGED thread
WakeupNext(t) == thread' = [thread EXCEPT ![t] = "wakeup"]

QuitFromOutside(t) ==
  /\ MayQuit /\ thread[t] = "idle" /\ InUse
  /\ quit_' = TRUE
  /\ WakeupNext(t)
  /\ UNCHANGED <<pc, ownership, looping_, callingPendingFunctors_, eventfd, readable, active,
                 pendingFunctors_, functors, history>>

Wakeup(t) ==
  /\ thread[t] = "wakeup"
  /\ eventfd' = TRUE
  /\ thread' = [thread EXCEPT ![t] = "idle"]
  /\ UNCHANGED <<pc, ownership, quit_, looping_, callingPendingFunctors_, readable, active,
                 pendingFunctors_, functors, history>>

-----------------------------------------------------------------------------
(* The loop's thread: EventLoopThread::threadFunc and EventLoop::loop      *)

\* The callback_ may already queue functors.
RunInitCallback ==
  /\ pc = "started"
  /\ Nothing \/ QueueInLoop
  /\ early' = queued'
  /\ pc' = "constructed"
  /\ UNCHANGED <<ownership, thread, looping_, callingPendingFunctors_, readable, active, functors,
                 ran, events>>

NotifyOwner == owner' = IF owner = "waiting" THEN "checking" ELSE owner

PublishLoop ==
  /\ pc = "constructed"
  /\ loop_' = TRUE
  /\ NotifyOwner
  /\ pc' = "published"
  /\ UNCHANGED <<thread, quit_, looping_, callingPendingFunctors_, eventfd, readable, active,
                 pendingFunctors_, functors, history>>

\* "FIXME: what if someone calls quit() before loop() ?"
EnterLoop ==
  /\ pc = "published"
  /\ looping_' = TRUE
  /\ quit_' = FALSE
  /\ pc' = "check"
  /\ UNCHANGED <<ownership, thread, callingPendingFunctors_, eventfd, readable, active,
                 pendingFunctors_, functors, history>>

CheckQuit ==
  /\ pc = "check"
  /\ pc' = IF quit_ THEN "left" ELSE "poll"
  /\ looping_' = ~quit_
  /\ UNCHANGED <<ownership, thread, quit_, callingPendingFunctors_, eventfd, readable, active,
                 pendingFunctors_, functors, history>>

Ready == (IF eventfd THEN {"wakeup"} ELSE {}) \cup (IF readable THEN {"io"} ELSE {})

Poll ==
  /\ pc = "poll" /\ Ready # {}
  /\ active' = Ready
  /\ pc' = "handle"
  /\ UNCHANGED <<ownership, thread, quit_, looping_, callingPendingFunctors_, eventfd, readable,
                 pendingFunctors_, functors, history>>

\* kPollTimeMs has passed.
PollTimesOut ==
  /\ pc = "poll" /\ Ready = {}
  /\ pc' = "handle"
  /\ UNCHANGED <<ownership, thread, quit_, looping_, callingPendingFunctors_, eventfd, readable,
                 active, pendingFunctors_, functors, history>>

HandleRead ==
  /\ pc = "handle" /\ "wakeup" \in active
  /\ eventfd' = FALSE
  /\ active' = active \ {"wakeup"}
  /\ UNCHANGED <<pc, ownership, thread, quit_, looping_, callingPendingFunctors_, readable,
                 pendingFunctors_, functors, history>>

HandleEvent ==
  /\ pc = "handle" /\ "io" \in active
  /\ Effect
  /\ readable' = FALSE
  /\ active' = active \ {"io"}
  /\ UNCHANGED <<pc, ownership, thread, looping_, callingPendingFunctors_, functors, ran, early,
                 events>>

\* doPendingFunctors: the flag is set before the functors are swapped out.
BeginPending ==
  /\ pc = "handle" /\ active = {}
  /\ callingPendingFunctors_' = TRUE
  /\ pc' = "swap"
  /\ UNCHANGED <<ownership, thread, quit_, looping_, eventfd, readable, active, pendingFunctors_,
                 functors, history>>

\* Mutant: the functors are copied, not swapped out.
Rest(p) == p
Taken(p) == <<>>

SwapFunctors ==
  /\ pc = "swap"
  /\ functors' = pendingFunctors_
  /\ pendingFunctors_' = Taken(pendingFunctors_)
  /\ pc' = "run"
  /\ UNCHANGED <<ownership, thread, quit_, looping_, callingPendingFunctors_, eventfd, readable,
                 active, history>>

RunFunctor ==
  /\ pc = "run" /\ functors # <<>>
  /\ Effect
  /\ functors' = Tail(functors)
  /\ ran' = Append(ran, Head(functors))
  /\ UNCHANGED <<pc, ownership, thread, looping_, callingPendingFunctors_, readable, active,
                 early, events>>

EndPending ==
  /\ pc = "run" /\ functors = <<>>
  /\ callingPendingFunctors_' = FALSE
  /\ pc' = "check"
  /\ UNCHANGED <<ownership, thread, quit_, looping_, eventfd, readable, active, pendingFunctors_,
                 functors, history>>

\* threadFunc sets loop_ to NULL, and the EventLoop on its stack is destructed.
LeaveThread ==
  /\ pc = "left"
  /\ loop_' = FALSE
  /\ pc' = "destructed"
  /\ UNCHANGED <<owner, thread, quit_, looping_, callingPendingFunctors_, eventfd, readable,
                 active, pendingFunctors_, functors, history>>

IoEvent ==
  /\ events < MaxEvents /\ looping_ /\ ~readable
  /\ readable' = TRUE
  /\ events' = events + 1
  /\ UNCHANGED <<pc, ownership, thread, quit_, looping_, callingPendingFunctors_, eventfd, active,
                 pendingFunctors_, functors, queued, ran, early>>

-----------------------------------------------------------------------------
(* The owner of the EventLoopThread                                        *)

loopState == <<thread, looping_, callingPendingFunctors_, readable, active, pendingFunctors_,
               functors, history>>

\* startLoop: Thread::start waits until the thread runs.
StartThread ==
  /\ owner = "created"
  /\ owner' = "checking"
  /\ pc' = "started"
  /\ UNCHANGED <<loop_, quit_, eventfd, loopState>>

WaitForLoop ==
  /\ owner = "checking"
  /\ owner' = IF loop_ THEN "started" ELSE "waiting"
  /\ UNCHANGED <<pc, loop_, quit_, eventfd, loopState>>

\* ~EventLoopThread: without a loop there is nothing to stop or to join.
BeginDestruct ==
  /\ owner \in {"created", "started"} /\ \A t \in Threads : thread[t] = "idle"
  /\ owner' = IF loop_ THEN "quitting" ELSE "done"
  /\ UNCHANGED <<pc, loop_, quit_, eventfd, loopState>>

QuitLoop ==
  /\ owner = "quitting"
  /\ quit_' = TRUE
  /\ owner' = "wakeup"
  /\ UNCHANGED <<pc, loop_, eventfd, loopState>>

WakeupLoop ==
  /\ owner = "wakeup"
  /\ eventfd' = TRUE
  /\ owner' = "joining"
  /\ UNCHANGED <<pc, loop_, quit_, loopState>>

Join ==
  /\ owner = "joining" /\ pc = "destructed"
  /\ owner' = "done"
  /\ UNCHANGED <<pc, loop_, quit_, eventfd, loopState>>

-----------------------------------------------------------------------------
LoopThread ==
  \/ RunInitCallback \/ PublishLoop \/ EnterLoop \/ CheckQuit \/ Poll \/ HandleRead
  \/ HandleEvent \/ BeginPending \/ SwapFunctors \/ RunFunctor \/ EndPending \/ LeaveThread
Owner == WaitForLoop \/ QuitLoop \/ WakeupLoop \/ Join
Outside(t) == QueueFromOutside(t) \/ QuitFromOutside(t)

Next ==
  \/ LoopThread \/ PollTimesOut \/ IoEvent
  \/ Owner \/ StartThread \/ BeginDestruct
  \/ \E t \in Threads : Outside(t) \/ Wakeup(t)

Spec == Init /\ [][Next]_vars

\* Threads run. Nobody has to use, start or destruct the loop; the timeout of
\* poll is not counted on, so that what happens is owed to wakeups.
Fairness ==
  /\ WF_vars(LoopThread) /\ WF_vars(Owner)
  /\ \A t \in Threads : WF_vars(Wakeup(t))
LiveSpec == Spec /\ Fairness

-----------------------------------------------------------------------------
(* Properties                                                              *)

\* Functors run in the order in which they were queued, whichever threads
\* queued them and while others ran; none is lost or run twice.
RunInQueueOrder == ran \o functors \o pendingFunctors_ = [i \in 1..queued |-> i]

\* The loop does not sleep in poll on a functor queued since loop() began: the
\* eventfd is readable, or the thread that queued it is about to write to it.
NoSleepOnPending ==
  pc = "poll" /\ (\E i \in DOMAIN pendingFunctors_ : pendingFunctors_[i] > early) =>
    eventfd \/ \E t \in Threads : thread[t] = "wakeup"

\* Every functor queued since loop() began is run, unless the loop is left.
FunctorsRun == \A i \in 1..MaxFunctors :
  (queued >= i /\ i > early /\ looping_) ~> (Len(ran) >= i \/ ~looping_)

\* A quit() that comes after loop() has begun ends it and the thread, and the
\* destructor of the EventLoopThread, which calls quit() and joins the thread,
\* returns (EventLoopThread_unittest.cc:33: "dtor calls quit()"). A quit() before
\* loop() begins is forgotten there, and the destructor waits for ever.
QuitEndsLoop ==
  /\ (quit_ /\ looping_) ~> (pc = "destructed")
  /\ (owner = "quitting" /\ looping_) ~> (owner = "done")
=============================================================================
