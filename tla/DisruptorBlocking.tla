------------------------- MODULE DisruptorBlocking --------------------------
(***************************************************************************)
(* BlockingStrategy (src/disruptor--/disruptor/wait_strategy.h): consumers *)
(* sleep on a condition variable until the publisher, which has advanced   *)
(* the cursor, locks the mutex and notifies.  A strategy object is one     *)
(* mutex with one condition variable.  A barrier waits on StrategyOf[c];   *)
(* Sequencer::Publish signals SequencerStrategy.                           *)
(***************************************************************************)
EXTENDS Integers

CONSTANTS
  Consumers,
  Upstream,           \* Upstream[c]: the consumer c's barrier tracks, or None
  Strategies,         \* strategy objects
  StrategyOf,         \* StrategyOf[c]: the object c's barrier waits on
  SequencerStrategy,  \* the object Sequencer::Publish signals
  Timed,              \* consumers that call WaitFor with a timeout
  AlertTargets,       \* consumers whose barriers may be alerted
  MaxSequence,        \* bound: no event beyond this sequence
  None

ASSUME BlockingAssumption ==
  /\ Upstream \in [Consumers -> Consumers \cup {None}]
  /\ None \notin Consumers
  /\ StrategyOf \in [Consumers -> Strategies]
  /\ SequencerStrategy \in Strategies
  /\ Timed \subseteq Consumers
  /\ AlertTargets \subseteq Consumers
  /\ MaxSequence \in Nat

VARIABLES
  cursor,      \* Sequencer::cursor_
  publisher,   \* where the publisher is
  sequence,    \* the Sequence of each consumer
  pc,          \* where each consumer is
  owner,       \* owner[w]: the consumer that holds w's mutex_, or None
  alerted,     \* alerted_ of each consumer's barrier
  result       \* the last value WaitFor returned to each consumer

vars == <<cursor, publisher, sequence, pc, owner, alerted, result>>

kAlertedSignal == -2
kTimeoutSignal == -3

Init ==
  /\ cursor = -1
  /\ publisher = "idle"
  /\ sequence = [c \in Consumers |-> -1]
  /\ pc = [c \in Consumers |-> "start"]
  /\ owner = [w \in Strategies |-> None]
  /\ alerted = [c \in Consumers |-> FALSE]
  /\ result = [c \in Consumers |-> -1]

Goto(c, state) == pc' = [pc EXCEPT ![c] = state]
Lock(c) == /\ owner[StrategyOf[c]] = None
           /\ owner' = [owner EXCEPT ![StrategyOf[c]] = c]

Unlock(c) == owner' = [owner EXCEPT ![StrategyOf[c]] = None]

\* The event the consumer's loop asks for next.
Wanted(c) == sequence[c] + 1

(***************************************************************************)
(* Sequencer::Publish: advance the cursor, then SignalAllWhenBlocking.     *)
(***************************************************************************)
PublishAdvancesCursor ==
  /\ publisher = "idle"
  /\ cursor < MaxSequence
  /\ cursor' = cursor + 1
  /\ publisher' = "signal"
  /\ UNCHANGED <<sequence, pc, owner, alerted, result>>

\* Mutant: notify_one in place of notify_all.
NotifyOne(w) ==
  IF \E c \in Consumers : StrategyOf[c] = w /\ pc[c] = "blocked"
  THEN \E c \in Consumers : /\ StrategyOf[c] = w
                            /\ pc[c] = "blocked"
                            /\ Goto(c, "notified")
  ELSE UNCHANGED pc

NotifyAll(w) ==
  pc' = [c \in Consumers |->
           IF StrategyOf[c] = w /\ pc[c] = "blocked" THEN "notified" ELSE pc[c]]

SignalAllWhenBlocking ==
  /\ publisher = "signal"
  /\ owner[SequencerStrategy] = None
  /\ NotifyAll(SequencerStrategy)
  /\ publisher' = "idle"
  /\ UNCHANGED <<cursor, sequence, owner, alerted, result>>

(***************************************************************************)
(* BlockingStrategy::WaitFor(Wanted(c), ...).                              *)
(***************************************************************************)
Return(c, value) ==
  /\ result' = [result EXCEPT ![c] = value]
  /\ Goto(c, CASE value = kAlertedSignal -> "halted"
               [] value = kTimeoutSignal -> "start"
               [] OTHER -> "handle")

\* The cursor has reached Wanted(c): its value is returned, or else WaitFor
\* goes on to the dependents.
CursorReached(c) ==
  IF Upstream[c] = None
  THEN Return(c, cursor)
  ELSE Goto(c, "dependents") /\ UNCHANGED result

CheckCursorUnlocked(c) ==
  /\ pc[c] = "start"
  /\ \/ cursor < Wanted(c) /\ Goto(c, "lock") /\ UNCHANGED result
     \/ cursor >= Wanted(c) /\ CursorReached(c)
  /\ UNCHANGED <<cursor, publisher, sequence, owner, alerted>>

AcquireMutex(c) ==
  /\ pc[c] = "lock"
  /\ Lock(c)
  /\ Goto(c, "check")
  /\ UNCHANGED <<cursor, publisher, sequence, alerted, result>>

\* Mutant: the cursor is not looked at again under the mutex.
BlocksWithoutChecking(c) == TRUE

\* The cursor is read again under the mutex before sleeping.
StillBehind(c) == cursor < Wanted(c)

\* wait releases the mutex and blocks in one step.
CheckCursorLocked(c) ==
  /\ pc[c] = "check"
  /\ Unlock(c)
  /\ \/ /\ ~StillBehind(c)
        /\ CursorReached(c)
     \/ /\ StillBehind(c)
        /\ alerted[c]
        /\ Return(c, kAlertedSignal)
     \/ /\ StillBehind(c)
        /\ ~alerted[c]
        /\ Goto(c, "blocked")
        /\ UNCHANGED result
  /\ UNCHANGED <<cursor, publisher, sequence, alerted>>

\* A condition variable may wake up with no notification.
SpuriousWakeup(c) ==
  /\ pc[c] = "blocked"
  /\ Goto(c, "notified")
  /\ UNCHANGED <<cursor, publisher, sequence, owner, alerted, result>>

WaitTimesOut(c) ==
  /\ c \in Timed
  /\ pc[c] = "blocked"
  /\ Goto(c, "timedOut")
  /\ UNCHANGED <<cursor, publisher, sequence, owner, alerted, result>>

\* wait returns with the mutex held, and the loop goes round.
WaitReturns(c) ==
  /\ pc[c] = "notified"
  /\ Lock(c)
  /\ Goto(c, "check")
  /\ UNCHANGED <<cursor, publisher, sequence, alerted, result>>

\* wait_for takes the mutex, and WaitFor returns without reading the cursor.
TimeoutReturns(c) ==
  /\ pc[c] = "timedOut"
  /\ owner[StrategyOf[c]] = None
  /\ Return(c, kTimeoutSignal)
  /\ UNCHANGED <<cursor, publisher, sequence, owner, alerted>>

\* A round of the busy loop that finds nothing changes nothing.
SpinOnDependents(c) ==
  /\ pc[c] = "dependents"
  /\ LET available == sequence[Upstream[c]]
     IN  \/ available >= Wanted(c) /\ Return(c, available)
         \/ available < Wanted(c) /\ alerted[c] /\ Return(c, kAlertedSignal)
  /\ UNCHANGED <<cursor, publisher, sequence, owner, alerted>>

\* The consumer handles the events up to the returned sequence.
SetSequence(c) ==
  /\ pc[c] = "handle"
  /\ sequence' = [sequence EXCEPT ![c] = result[c]]
  /\ Goto(c, "start")
  /\ UNCHANGED <<cursor, publisher, owner, alerted, result>>

\* SequenceBarrier::set_alerted stores the flag and signals nobody.
SetAlerted(c, alert) ==
  /\ alerted' = [alerted EXCEPT ![c] = alert]
  /\ UNCHANGED <<cursor, publisher, sequence, pc, owner, result>>

ConsumerStep(c) ==
  \/ CheckCursorUnlocked(c)
  \/ AcquireMutex(c)
  \/ CheckCursorLocked(c)
  \/ WaitReturns(c)
  \/ TimeoutReturns(c)
  \/ SpinOnDependents(c)
  \/ SetSequence(c)

Next ==
  \/ PublishAdvancesCursor
  \/ SignalAllWhenBlocking
  \/ \E c \in Consumers : ConsumerStep(c) \/ SpuriousWakeup(c) \/ WaitTimesOut(c)
  \/ \E c \in AlertTargets, alert \in BOOLEAN : SetAlerted(c, alert)

Spec == Init /\ [][Next]_vars

(***************************************************************************)
(* Threads that can run do run, and a mutex that is free time and again is *)
(* obtained.  Nothing makes a wait end spuriously or time out.             *)
(***************************************************************************)
LiveSpec ==
  /\ Spec
  /\ SF_vars(SignalAllWhenBlocking)
  /\ \A c \in Consumers : SF_vars(ConsumerStep(c))
-----------------------------------------------------------------------------
(***************************************************************************)
(* No lost wakeup: a consumer that sleeps although its event is published  *)
(* is about to be signalled.  The unlocked check, the check under the      *)
(* mutex and the signal taken under the same mutex together ensure it.     *)
(***************************************************************************)
NoLostWakeup ==
  \A c \in Consumers :
    pc[c] = "blocked" /\ cursor >= Wanted(c) => publisher = "signal"

(***************************************************************************)
(* "Publishers must explicitely call SignalAllWhenBlocking() to unblock    *)
(* consumers": once an event is published every consumer that is not       *)
(* halted gets it, with no timeout or spurious wakeup needed.              *)
(***************************************************************************)
PublishedIsConsumed ==
  \A c \in Consumers, s \in 0 .. MaxSequence :
    (cursor >= s) ~> (sequence[c] >= s \/ \E d \in Consumers : pc[d] = "halted")
=============================================================================
