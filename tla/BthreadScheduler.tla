-------------------------- MODULE BthreadScheduler --------------------------
(***************************************************************************)
(* bthread's M:N scheduler (brpc/src/bthread/task_group.cpp,               *)
(* task_control.cpp, parking_lot.h, remote_task_queue.h, bthread.cpp):     *)
(* worker threads run tasks from their own run queue, from the queues that *)
(* other threads fill, and from each other's queues, and park in a futex   *)
(* when they find none.                                                    *)
(*                                                                         *)
(* A run queue is a sequence here, and push, pop and steal are one step    *)
(* each: BthreadQueue has their steps, and its invariant is that a pushed  *)
(* task is handed out once.  (A steal that fails while the owner is taking *)
(* the last task counts as one that came after it.)                        *)
(*                                                                         *)
(* A ParkingLot's counter only ever grows and is only compared with the    *)
(* value a worker saved, so the model keeps what the comparison says: a    *)
(* saved state is "current", or "stale" after a signal, or it has the bit  *)
(* of stop().  (2^30 signals between a worker's save and its wait would    *)
(* make a stale state current again.)                                      *)
(*                                                                         *)
(* TaskControl::steal_task goes round the groups from a random place in    *)
(* steps of a large prime, so it meets each of them once; here the order   *)
(* is any.  Tasks run on stacks of their own.                              *)
(***************************************************************************)
EXTENDS BthreadQueue, Sequences, SequencesExt, FiniteSets

CONSTANTS
  Creators,       \* threads that are no workers and start tasks
  NLots,          \* PARKING_LOT_NUM
  LotOf,          \* of each thread: fmix64(pthread_numeric_id()) % PARKING_LOT_NUM
  MaxYields,      \* bound on the calls of bthread_yield
  MayStop         \* whether stop_and_join is called

Threads == Workers \cup Creators
MaxTasks == Cardinality(Items)

\* Tasks are numbered in the order they are started in.
ASSUME SchedulerAssumption ==
  /\ Items = 1..MaxTasks /\ Workers \cap Creators = {}
  /\ NLots \in Nat \ {0} /\ LotOf \in [Threads -> 0..NLots - 1]
  /\ MaxYields \in Nat /\ MayStop \in BOOLEAN

VARIABLES
  _rq,                     \* of each worker
  pc,                      \* where each thread is
  cur,                     \* _cur_meta of each worker, NoItem: its main task
  item, mode,              \* the task a thread is to make ready, and how it is to signal it
  num, lot,                \* signal_task: the tasks left to signal, the lot
  left,                    \* steal_task: the groups a worker has yet to look at
  _num_nosignal,           \* of each group
  _remote_rq, _remote_num_nosignal,
  group,                   \* the group a thread is at, to start a task in or to steal from
  tls_task_group_nosignal, \* of each creator
  _groups, _stop,          \* TaskControl; once _stop is set _ngroup is 0
  stoppedLots,             \* the lots whose stop() was called
  _last_pl_state,          \* of each worker, as compared with its lot
  created, yields, ended,  \* history: tasks started, yields, and the tasks that ended
  silent                   \* history: tasks last made ready without a signal or its count

signalVars == <<num, lot>>
makeVars == <<item, mode>>
remoteVars == <<_remote_rq, _remote_num_nosignal>>
creatorVars == <<group, tls_task_group_nosignal>>
controlVars == <<_groups, _stop, stoppedLots>>
historyVars == <<created, yields, ended, silent>>
schedVars == <<pc, cur, makeVars, signalVars, left, _num_nosignal, remoteVars, creatorVars,
               controlVars, _last_pl_state, historyVars>>
vars == <<_rq, schedVars>>

NoGroup == "none"
RemoteCapacity == Capacity \div 2

Init ==
  /\ _rq = [w \in Workers |-> <<>>]
  /\ pc = [th \in Threads |-> IF th \in Workers THEN "start" ELSE "out"]
  /\ cur = [w \in Workers |-> NoItem]
  /\ item = [th \in Threads |-> NoItem] /\ mode = [th \in Threads |-> "signal"]
  /\ num = [th \in Threads |-> 0] /\ lot = LotOf
  /\ left = [w \in Workers |-> {}]
  /\ _num_nosignal = [w \in Workers |-> 0]
  /\ _remote_rq = [w \in Workers |-> <<>>] /\ _remote_num_nosignal = [w \in Workers |-> 0]
  /\ group = [th \in Threads |-> NoGroup]
  /\ tls_task_group_nosignal = [c \in Creators |-> NoGroup]
  /\ _groups = {} /\ _stop = FALSE /\ stoppedLots = {}
  /\ _last_pl_state = [w \in Workers |-> "current"]
  /\ created = 0 /\ yields = 0 /\ ended = {} /\ silent = {}

Jump(th, place) == pc' = [pc EXCEPT ![th] = place]

\* Where a thread goes on when a call it made has returned.
Caller(th) == IF th \in Creators THEN "out" ELSE IF cur[th] = NoItem THEN "wait" ELSE "run"

-----------------------------------------------------------------------------
(* TaskControl::signal_task and ParkingLot::signal                         *)

\* signal_task(n), n > 0: at most two, from the thread's own lot on.
SignalTask(th, n) ==
  /\ num' = [num EXCEPT ![th] = IF n > 2 THEN 2 ELSE n]
  /\ lot' = [lot EXCEPT ![th] = LotOf[th]]
  /\ Jump(th, "signal")

\* The counter of the lot moves on ...
AddSignal(th) ==
  /\ pc[th] = "signal"
  /\ _last_pl_state' = [w \in Workers |->
       IF LotOf[w] = lot[th] /\ _last_pl_state[w] = "current" THEN "stale" ELSE _last_pl_state[w]]
  /\ Jump(th, "wake")
  /\ UNCHANGED <<_rq, cur, makeVars, signalVars, left, _num_nosignal, remoteVars,
                 creatorVars, controlVars, historyVars>>

Asleep(l) == {w \in Workers : pc[w] = "asleep" /\ LotOf[w] = l}

\* ... and futex_wake wakes one worker, if one sleeps there.  The next lot
\* is for the tasks nobody was woken for.  A thread that signalled because
\* a queue was full tries to push again.
Wake(th) ==
  /\ pc[th] = "wake"
  /\ LET woken == IF Asleep(lot[th]) = {} THEN 0 ELSE 1
         following == (lot[th] + 1) % NLots
         more == num[th] > woken /\ following # LotOf[th]
         place == IF more THEN "signal" ELSE IF item[th] # NoItem THEN "push" ELSE Caller(th)
     IN /\ num' = [num EXCEPT ![th] = IF more THEN @ - woken ELSE 0]
        /\ lot' = [lot EXCEPT ![th] = IF more THEN following ELSE LotOf[th]]
        /\ IF woken = 0
             THEN Jump(th, place)
             ELSE \E w \in Asleep(lot[th]) : pc' = [pc EXCEPT ![th] = place, ![w] = "remote"]
  /\ UNCHANGED <<_rq, cur, makeVars, left, _num_nosignal, remoteVars, creatorVars,
                 controlVars, _last_pl_state, historyVars>>

-----------------------------------------------------------------------------
(* sched_to, and where a worker looks for a task: its own run queue, its   *)
(* remote queue (TaskGroup::steal_task), all groups (TaskControl's)        *)

\* sched_to: w goes on with x, and what was remained is made ready then.
SwitchTo(w, x) ==
  /\ cur' = [cur EXCEPT ![w] = x]
  /\ Jump(w, IF item[w] # NoItem THEN "push" ELSE IF x = NoItem THEN "wait" ELSE "run")
  /\ left' = [left EXCEPT ![w] = {}]

Pop(w) ==
  /\ pc[w] = "pop"
  /\ IF _rq[w] = <<>>
       THEN Jump(w, "remote") /\ UNCHANGED <<_rq, cur, left>>
       ELSE SwitchTo(w, Last(_rq[w])) /\ _rq' = [_rq EXCEPT ![w] = Front(@)]
  /\ UNCHANGED <<makeVars, signalVars, _num_nosignal, remoteVars, creatorVars, controlVars,
                 _last_pl_state, historyVars>>

\* RemoteTaskQueue::pop
PopRemote(w, g) ==
  /\ _remote_rq[g] # <<>>
  /\ _remote_rq' = [_remote_rq EXCEPT ![g] = Tail(@)]
  /\ SwitchTo(w, Head(_remote_rq[g]))

OwnRemote(w) ==
  /\ pc[w] = "remote"
  /\ \/ PopRemote(w, w)
     \/ _remote_rq[w] = <<>> /\ Jump(w, "save") /\ UNCHANGED <<cur, left, _remote_rq>>
  /\ UNCHANGED <<_rq, makeVars, signalVars, _num_nosignal, _remote_num_nosignal, creatorVars,
                 controlVars, _last_pl_state, historyVars>>

\* ParkingLot::get_state, then TaskControl::steal_task loads _ngroup.  (One
\* step: what changes _ngroup leaves the lots alone, so it might as well have
\* come before both.)
SaveState(w) ==
  /\ pc[w] = "save"
  /\ _last_pl_state' = [_last_pl_state EXCEPT ![w] =
                          IF LotOf[w] \in stoppedLots THEN "stopped" ELSE "current"]
  /\ IF _stop
       THEN SwitchTo(w, NoItem)
       ELSE left' = [left EXCEPT ![w] = _groups] /\ Jump(w, "scan") /\ UNCHANGED cur
  /\ UNCHANGED <<_rq, makeVars, signalVars, _num_nosignal, remoteVars, creatorVars, controlVars,
                 historyVars>>

\* ... and looks into the run queue of a group, ...
Steal(w, g) ==
  /\ pc[w] = "scan" /\ g \in left[w]
  /\ IF _rq[g] = <<>>
       THEN group' = [group EXCEPT ![w] = g] /\ Jump(w, "scan_remote") /\ UNCHANGED <<_rq, cur, left>>
       ELSE /\ SwitchTo(w, Head(_rq[g])) /\ _rq' = [_rq EXCEPT ![g] = Tail(@)]
            /\ UNCHANGED group
  /\ UNCHANGED <<makeVars, signalVars, _num_nosignal, remoteVars, tls_task_group_nosignal,
                 controlVars, _last_pl_state, historyVars>>

\* ... then into its remote queue, then into the next group.
StealRemote(w) ==
  LET g == group[w] IN
  /\ pc[w] = "scan_remote"
  /\ group' = [group EXCEPT ![w] = NoGroup]
  /\ \/ PopRemote(w, g)
     \/ /\ _remote_rq[g] = <<>>
        /\ IF left[w] = {g}
             THEN SwitchTo(w, NoItem)
             ELSE left' = [left EXCEPT ![w] = @ \ {g}] /\ Jump(w, "scan") /\ UNCHANGED cur
        /\ UNCHANGED _remote_rq
  /\ UNCHANGED <<_rq, makeVars, signalVars, _num_nosignal, _remote_num_nosignal,
                 tls_task_group_nosignal, controlVars, _last_pl_state, historyVars>>

-----------------------------------------------------------------------------
(* A worker without a task: worker_thread, run_main_task and wait_task     *)

\* create_group and _add_group, which signals 65536 tasks.
AddGroup(w) ==
  /\ pc[w] = "start"
  /\ IF _stop
       THEN Jump(w, "gone") /\ UNCHANGED <<_groups, signalVars>>
       ELSE _groups' = _groups \cup {w} /\ SignalTask(w, 65536)
  /\ UNCHANGED <<_rq, cur, makeVars, left, _num_nosignal, remoteVars, creatorVars, _stop,
                 stoppedLots, _last_pl_state, historyVars>>

\* Mutant: the state is the one at the time of the wait, not the saved one.
WaitFresh(w) ==
  /\ pc[w] = "wait"
  /\ Jump(w, IF LotOf[w] \in stoppedLots THEN "gone" ELSE "asleep")
  /\ UNCHANGED <<_rq, cur, makeVars, signalVars, left, _num_nosignal, remoteVars,
                 creatorVars, controlVars, _last_pl_state, historyVars>>

\* futex_wait returns at once when the counter is not the saved one.  A
\* stopped worker leaves; _destroy_group finds _ngroup 0 and keeps the group.
WaitTask(w) ==
  /\ pc[w] = "wait"
  /\ Jump(w, CASE _last_pl_state[w] = "stopped" -> "gone"
               [] _last_pl_state[w] = "current" -> "asleep"
               [] _last_pl_state[w] = "stale" -> "remote")
  /\ UNCHANGED <<_rq, cur, makeVars, signalVars, left, _num_nosignal, remoteVars,
                 creatorVars, controlVars, _last_pl_state, historyVars>>

-----------------------------------------------------------------------------
(* What a task does while w runs it                                        *)

\* start_background<false>
Spawn(w, m) ==
  /\ pc[w] = "run" /\ created < MaxTasks /\ m \in {"signal", "nosignal"}
  /\ created' = created + 1
  /\ item' = [item EXCEPT ![w] = created + 1] /\ mode' = [mode EXCEPT ![w] = m]
  /\ Jump(w, "push")
  /\ UNCHANGED <<_rq, cur, signalVars, left, _num_nosignal, remoteVars, creatorVars,
                 controlVars, _last_pl_state, yields, ended, silent>>

\* start_foreground: w switches to the new task and makes the old one ready
\* after the switch, in silence if it is about_to_quit ("ignore").
SpawnUrgent(w, m) ==
  /\ pc[w] = "run" /\ created < MaxTasks /\ m \in {"signal", "nosignal", "ignore"}
  /\ created' = created + 1
  /\ cur' = [cur EXCEPT ![w] = created + 1]
  /\ item' = [item EXCEPT ![w] = cur[w]] /\ mode' = [mode EXCEPT ![w] = m]
  /\ Jump(w, "push")
  /\ UNCHANGED <<_rq, signalVars, left, _num_nosignal, remoteVars, creatorVars,
                 controlVars, _last_pl_state, yields, ended, silent>>

\* bthread_flush in a task
Flush(w) ==
  /\ pc[w] = "run" /\ _num_nosignal[w] > 0
  /\ _num_nosignal' = [_num_nosignal EXCEPT ![w] = 0]
  /\ SignalTask(w, _num_nosignal[w])
  /\ UNCHANGED <<_rq, cur, makeVars, left, remoteVars, creatorVars, controlVars,
                 _last_pl_state, historyVars>>

\* Mutant: the task is made ready before the worker has left it.
YieldTooSoon(w) ==
  /\ pc[w] = "run" /\ yields < MaxYields
  /\ yields' = yields + 1
  /\ item' = [item EXCEPT ![w] = cur[w]] /\ mode' = [mode EXCEPT ![w] = "signal"]
  /\ Jump(w, "push")
  /\ UNCHANGED <<_rq, cur, signalVars, left, _num_nosignal, remoteVars, creatorVars,
                 controlVars, _last_pl_state, created, ended, silent>>

\* TaskGroup::yield: set_remained(ready_to_run_in_worker), then sched.
Yield(w) ==
  /\ pc[w] = "run" /\ yields < MaxYields
  /\ yields' = yields + 1
  /\ item' = [item EXCEPT ![w] = cur[w]] /\ mode' = [mode EXCEPT ![w] = "signal"]
  /\ Jump(w, "pop")
  /\ UNCHANGED <<_rq, cur, signalVars, left, _num_nosignal, remoteVars, creatorVars,
                 controlVars, _last_pl_state, created, ended, silent>>

\* The function of the task returns: task_runner goes on to ending_sched.
EndTask(w) ==
  /\ pc[w] = "run"
  /\ ended' = ended \cup {cur[w]}
  /\ Jump(w, "pop")
  /\ UNCHANGED <<_rq, cur, makeVars, signalVars, left, _num_nosignal, remoteVars,
                 creatorVars, controlVars, _last_pl_state, created, yields, silent>>

-----------------------------------------------------------------------------
(* ready_to_run, with push_rq                                              *)

\* Mutant: the pending signals are not flushed.
PushFullInSilence(w) ==
  /\ pc[w] = "push" /\ Len(_rq[w]) = Capacity /\ _num_nosignal[w] > 0
  /\ UNCHANGED vars

\* push_rq finds the queue full: flush_nosignal_tasks, then a sleep and
\* another try.  (With nothing to flush the turn changes no state.)
PushFull(w) ==
  /\ pc[w] = "push" /\ Len(_rq[w]) = Capacity /\ _num_nosignal[w] > 0
  /\ _num_nosignal' = [_num_nosignal EXCEPT ![w] = 0]
  /\ SignalTask(w, _num_nosignal[w])
  /\ UNCHANGED <<_rq, cur, makeVars, left, remoteVars, creatorVars, controlVars,
                 _last_pl_state, historyVars>>

\* The push succeeds; the count of tasks not signalled yet goes with the
\* signal or grows by this one.
Push(w) ==
  /\ pc[w] = "push" /\ Len(_rq[w]) < Capacity
  /\ _rq' = [_rq EXCEPT ![w] = Append(@, item[w])]
  /\ item' = [item EXCEPT ![w] = NoItem] /\ mode' = [mode EXCEPT ![w] = "signal"]
  /\ _num_nosignal' = [_num_nosignal EXCEPT ![w] =
       CASE mode[w] = "signal" -> 0 [] mode[w] = "nosignal" -> @ + 1 [] mode[w] = "ignore" -> @]
  /\ IF mode[w] = "signal"
       THEN SignalTask(w, 1 + _num_nosignal[w])
       ELSE Jump(w, Caller(w)) /\ UNCHANGED signalVars
  /\ silent' = IF mode[w] = "ignore" THEN silent \cup {item[w]} ELSE silent \ {item[w]}
  /\ UNCHANGED <<cur, left, remoteVars, creatorVars, controlVars, _last_pl_state, created,
                 yields, ended>>

-----------------------------------------------------------------------------
(* Threads that are no workers: start_from_non_worker, ready_to_run_remote *)

\* choose_one_group needs a group; init() waits for the first one.  A
\* nosignal call goes to the group of the one before.
StartRemote(c, g, m) ==
  /\ pc[c] = "out" /\ created < MaxTasks /\ m \in {"signal", "nosignal"}
  /\ IF m = "nosignal" /\ tls_task_group_nosignal[c] # NoGroup
       THEN g = tls_task_group_nosignal[c]
       ELSE g \in _groups /\ ~_stop
  /\ created' = created + 1
  /\ item' = [item EXCEPT ![c] = created + 1] /\ mode' = [mode EXCEPT ![c] = m]
  /\ group' = [group EXCEPT ![c] = g]
  /\ tls_task_group_nosignal' =
       [tls_task_group_nosignal EXCEPT ![c] = IF m = "nosignal" THEN g ELSE @]
  /\ Jump(c, "push")
  /\ UNCHANGED <<_rq, cur, signalVars, left, _num_nosignal, remoteVars, controlVars,
                 _last_pl_state, yields, ended, silent>>

\* push_locked and the count under the queue's mutex, the signal after it.
RemotePush(c) ==
  LET g == group[c] IN
  /\ pc[c] = "push" /\ Len(_remote_rq[g]) < RemoteCapacity
  /\ _remote_rq' = [_remote_rq EXCEPT ![g] = Append(@, item[c])]
  /\ item' = [item EXCEPT ![c] = NoItem] /\ mode' = [mode EXCEPT ![c] = "signal"]
  /\ group' = [group EXCEPT ![c] = NoGroup]
  /\ IF mode[c] = "nosignal"
       THEN /\ _remote_num_nosignal' = [_remote_num_nosignal EXCEPT ![g] = @ + 1]
            /\ Jump(c, "out") /\ UNCHANGED signalVars
       ELSE /\ _remote_num_nosignal' = [_remote_num_nosignal EXCEPT ![g] = 0]
            /\ SignalTask(c, 1 + _remote_num_nosignal[g])
  /\ UNCHANGED <<_rq, cur, left, _num_nosignal, tls_task_group_nosignal, controlVars,
                 _last_pl_state, historyVars>>

\* The queue is full: flush_nosignal_tasks_remote_locked, and another try.
RemoteFull(c) ==
  LET g == group[c] IN
  /\ pc[c] = "push" /\ Len(_remote_rq[g]) = RemoteCapacity /\ _remote_num_nosignal[g] > 0
  /\ _remote_num_nosignal' = [_remote_num_nosignal EXCEPT ![g] = 0]
  /\ SignalTask(c, _remote_num_nosignal[g])
  /\ UNCHANGED <<_rq, cur, makeVars, left, _num_nosignal, _remote_rq, creatorVars,
                 controlVars, _last_pl_state, historyVars>>

\* bthread_flush
FlushRemote(c) ==
  LET g == tls_task_group_nosignal[c] IN
  /\ pc[c] = "out" /\ g # NoGroup
  /\ tls_task_group_nosignal' = [tls_task_group_nosignal EXCEPT ![c] = NoGroup]
  /\ IF _remote_num_nosignal[g] > 0
       THEN /\ _remote_num_nosignal' = [_remote_num_nosignal EXCEPT ![g] = 0]
            /\ SignalTask(c, _remote_num_nosignal[g])
       ELSE UNCHANGED <<_remote_num_nosignal, signalVars, pc>>
  /\ UNCHANGED <<_rq, cur, makeVars, left, _num_nosignal, _remote_rq, group, controlVars,
                 _last_pl_state, historyVars>>

-----------------------------------------------------------------------------
(* TaskControl::stop_and_join, up to the joins                             *)

StopControl ==
  /\ MayStop /\ ~_stop
  /\ _stop' = TRUE
  /\ UNCHANGED <<_rq, pc, cur, makeVars, signalVars, left, _num_nosignal, remoteVars,
                 creatorVars, _groups, stoppedLots, _last_pl_state, historyVars>>

\* ParkingLot::stop, one lot after the other.
StopLot ==
  LET l == Cardinality(stoppedLots) IN
  /\ _stop /\ l < NLots
  /\ stoppedLots' = stoppedLots \cup {l}
  /\ _last_pl_state' = [w \in Workers |->
       IF LotOf[w] = l /\ _last_pl_state[w] = "current" THEN "stale" ELSE _last_pl_state[w]]
  /\ pc' = [th \in Threads |-> IF th \in Asleep(l) THEN "remote" ELSE pc[th]]
  /\ UNCHANGED <<_rq, cur, makeVars, signalVars, left, _num_nosignal, remoteVars,
                 creatorVars, _groups, _stop, historyVars>>

-----------------------------------------------------------------------------
\* What a thread does by itself, and what a task or a caller may do.
WorkerStep(w) ==
  \/ AddGroup(w) \/ AddSignal(w) \/ Wake(w) \/ WaitTask(w)
  \/ Pop(w) \/ OwnRemote(w) \/ SaveState(w)
  \/ (\E g \in Workers : Steal(w, g)) \/ StealRemote(w)
  \/ Push(w) \/ PushFull(w)

TaskStep(w) ==
  \/ \E m \in {"signal", "nosignal", "ignore"} : Spawn(w, m) \/ SpawnUrgent(w, m)
  \/ Flush(w) \/ Yield(w)

CreatorStep(c) == AddSignal(c) \/ Wake(c) \/ RemotePush(c) \/ RemoteFull(c) \/ FlushRemote(c)

Next ==
  \/ \E w \in Workers : WorkerStep(w) \/ TaskStep(w) \/ EndTask(w)
  \/ \E c \in Creators : CreatorStep(c) \/ \E g \in Workers, m \in {"signal", "nosignal"} : StartRemote(c, g, m)
  \/ StopControl \/ StopLot

\* Threads are scheduled, tasks return, and who starts tasks with
\* BTHREAD_NOSIGNAL calls bthread_flush.
Fairness ==
  /\ \A w \in Workers : WF_vars(WorkerStep(w) \/ EndTask(w))
  /\ \A c \in Creators : WF_vars(CreatorStep(c))
  /\ WF_vars(StopLot)

Spec == Init /\ [][Next]_vars /\ Fairness

-----------------------------------------------------------------------------
Started == 1..created
Executing == {cur[w] : w \in Workers} \ {NoItem}

\* signal_task, ParkingLot and the state saved before the search: when all
\* workers are parked, and no thread is on its way to wake one, no task that
\* was announced waits in any queue.
Announcing(th) == pc[th] \in {"signal", "wake"} \/ item[th] # NoItem
NoSleepOnTask ==
  ~_stop /\ (\A w \in Workers : pc[w] = "asleep") /\ (\A th \in Threads : ~Announcing(th)) =>
    /\ \A w \in Workers : _rq[w] = <<>> /\ Len(_remote_rq[w]) <= _remote_num_nosignal[w]
    /\ (\A w \in Workers : _remote_num_nosignal[w] = 0) => Started = ended

\* sched_to, set_remained, the queues and the searches, together: a task is on
\* one worker at a time, begins from the ready ones, and never runs again
\* after its end.
Pool == INSTANCE TaskPool WITH
          Tasks <- Items, NoTask <- NoItem, done <- ended,
          running <- [w \in Workers |-> IF cur[w] \in ended THEN NoItem ELSE cur[w]],
          ready <- Started \ (Executing \cup ended)
ImplementsTaskPool == Pool!Spec

\* A worker in the loop of push_rq, and one whose queue holds only tasks that
\* were made ready in silence (start_foreground in a task that is about to quit).
Spinning(w) == pc[w] = "push" /\ Len(_rq[w]) = Capacity
SpinsInSilence(w) == Spinning(w) /\ Range(_rq[w]) \subseteq silent

\* start_background, start_foreground, ready_to_run and push_rq: the tasks that
\* were started, of which there are finitely many, run to their ends.  A worker
\* whose queue is full flushes the pending signals, so that no other worker
\* sleeps beside it, unless all of its tasks were made ready in silence; the
\* tasks get stuck then, and when all workers spin (the TODO in push_rq).
\* stop_and_join: all workers leave, so that the joins return, or spin.
Settled ==
  IF _stop THEN \A w \in Workers : pc[w] = "gone" \/ Spinning(w)
  ELSE \/ Started = ended
       \/ \A w \in Workers : Spinning(w)
       \/ /\ \E w \in Workers : SpinsInSilence(w)
          /\ \A w \in Workers : SpinsInSilence(w) \/ pc[w] = "asleep"
TasksEndAndWorkersStop == []<>Settled
=============================================================================
