----------------------------- MODULE MCBthread ------------------------------
(***************************************************************************)
(* Instances of BthreadQueue and BthreadScheduler for TLC, side by side:   *)
(* part says which of the two a behaviour is one of, and its bounds.       *)
(***************************************************************************)
EXTENDS BthreadScheduler

CONSTANT Parts

VARIABLE part

\* Two workers in different parking lots, and one other thread.
MCWorkers == {"w1", "w2"}
MCCreators == {"c"}
MCLotOf == [th \in MCWorkers \cup MCCreators |-> IF th = "w2" THEN 1 ELSE 0]

\* For the queue: the items and the positions of one queue; w2 only steals.
\* For the scheduler: up to so many tasks, of which so many are started from outside, so many
\* yields, such flags, or a stop.  In a quiet one the first task comes when
\* all workers sleep, else while they are starting or searching.
AllFlags == {"signal", "nosignal", "ignore"}
Run(n, r, y, f, s, q) ==
  [of |-> "scheduler", tasks |-> n, remote |-> r, yields |-> y, flags |-> f, stop |-> s, quiet |-> q]
MCParts == {[of |-> "queue", items |-> 3, positions |-> 5],
            Run(2, 1, 0, {"signal"}, FALSE, FALSE), Run(1, 1, 1, {"signal"}, FALSE, FALSE),
            Run(4, 1, 0, {"nosignal", "ignore"}, FALSE, TRUE), Run(2, 2, 1, AllFlags, FALSE, TRUE),
            Run(1, 1, 0, {"signal"}, TRUE, FALSE), Run(2, 1, 0, {"signal"}, TRUE, TRUE)}

MCInit == QueueInit /\ Init /\ part \in Parts

QueueBound ==
  \A w \in Workers : _bottom'[w] <= (IF w = "w1" THEN part.positions ELSE 1) /\ val'[w] <= part.items
SchedulerBound ==
  /\ created' <= part.tasks /\ yields' <= part.yields /\ (_stop' => part.stop)
  /\ \A c \in Creators : item'[c] <= part.remote
  /\ \A th \in Threads : item'[th] # NoItem => mode'[th] \in part.flags
  /\ part.quiet /\ created = 0 /\ created' = 1 => \A w \in Workers : pc[w] = "asleep"

MCNext ==
  \/ part.of = "queue" /\ QueueNext /\ QueueBound /\ UNCHANGED <<vars, part>>
  \/ part.of = "scheduler" /\ Next /\ SchedulerBound /\ UNCHANGED <<queueVars, part>>

MCSpec == MCInit /\ [][MCNext]_<<vars, queueVars, part>> /\ Fairness
=============================================================================
