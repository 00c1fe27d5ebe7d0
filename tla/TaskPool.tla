------------------------------ MODULE TaskPool ------------------------------
(***************************************************************************)
(* What a scheduler of tasks promises, whatever its queues are: a task is  *)
(* with at most one worker, a worker has at most one task, a task that     *)
(* begins was ready, and one that has ended does not come back.            *)
(***************************************************************************)
CONSTANTS Workers, Tasks, NoTask

VARIABLES
  ready,    \* tasks that wait for a worker
  running,  \* the task of each worker
  done      \* tasks that have ended

vars == <<ready, running, done>>

Running == {running[w] : w \in Workers} \ {NoTask}
Fresh == Tasks \ (ready \cup Running \cup done)

Init == ready = {} /\ running = [w \in Workers |-> NoTask] /\ done = {}

Create(x) == x \in Fresh /\ ready' = ready \cup {x} /\ UNCHANGED <<running, done>>

Begin(w, x) ==
  /\ running[w] = NoTask /\ x \in ready
  /\ running' = [running EXCEPT ![w] = x]
  /\ ready' = ready \ {x}
  /\ UNCHANGED done

\* The worker puts its task back, and goes on with another one or with none.
Switch(w, x) ==
  /\ running[w] # NoTask /\ x \in ready \cup Fresh \cup {NoTask}
  /\ running' = [running EXCEPT ![w] = x]
  /\ ready' = (ready \ {x}) \cup {running[w]}
  /\ UNCHANGED done

Finish(w) ==
  /\ running[w] # NoTask
  /\ running' = [running EXCEPT ![w] = NoTask]
  /\ done' = done \cup {running[w]}
  /\ UNCHANGED ready

Next == \/ \E x \in Tasks : Create(x) \/ \E w \in Workers : Begin(w, x)
        \/ \E w \in Workers : Finish(w) \/ \E x \in Tasks \cup {NoTask} : Switch(w, x)

Spec == Init /\ [][Next]_vars
=============================================================================
