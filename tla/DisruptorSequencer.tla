------------------------- MODULE DisruptorSequencer -------------------------
(***************************************************************************)
(* The disruptor-- ring buffer (src/disruptor--/disruptor): Sequencer over *)
(* a claim strategy, RingBuffer, and SequenceBarriers with a spinning wait *)
(* strategy (BusySpin, Yielding and Sleeping differ only in how they       *)
(* pause).  Every load and store of a std::atomic is a step of its own, so *)
(* GetMinimumSequence reads the consumers' sequences one after another     *)
(* while they move.  An event's value is the sequence it was written for.  *)
(***************************************************************************)
EXTENDS Integers, FiniteSets

CONSTANTS
  Producers,      \* publisher threads
  Consumers,      \* event-processor threads, each with its Sequence and barrier
  Gating,         \* consumers whose Sequences gate the publishers
  Dependents,     \* Dependents[c]: the consumers that c's barrier tracks
  Follows,        \* <<g, c>>: g is downstream of c in the pipeline
  N,              \* size of the ring
  Deltas,         \* batch sizes a publisher may claim
  LongMax,        \* LONG_MAX, the minimum of no sequence
  MultiThreaded,  \* MultiThreadedStrategy, or else SingleThreadedStrategy
  AlertTargets,   \* consumers whose barriers some thread may alert
  MaxSequence     \* bound: no claim beyond this sequence

kInitialCursorValue == -1

ASSUME RingAssumption ==
  /\ N \in Nat \ {0}
  /\ Deltas \subseteq Nat \ {0}
  /\ LongMax \in Nat
  /\ MaxSequence \in Nat
  /\ MultiThreaded \in BOOLEAN

ASSUME ThreadAssumption ==
  /\ Producers \cap Consumers = {}
  /\ ~MultiThreaded => \A p, q \in Producers : p = q

\* Publishers are gated by the last stage of every pipeline of consumers.
ASSUME TopologyAssumption ==
  /\ Gating \subseteq Consumers
  /\ Gating # {}
  /\ AlertTargets \subseteq Consumers
  /\ Dependents \in [Consumers -> SUBSET Consumers]
  /\ Follows \subseteq Consumers \X Consumers
  /\ \A g, c \in Consumers :
        <<g, c>> \in Follows =>
           \/ c \in Dependents[g]
           \/ \E d \in Dependents[g] : <<d, c>> \in Follows
  /\ \A c \in Consumers : c \in Gating \/ \E g \in Gating : <<g, c>> \in Follows

Threads == Producers \cup Consumers

VARIABLES
  cursor,        \* Sequencer::cursor_
  lastClaimed,   \* claim_strategy_.last_claimed_sequence_
  lastConsumer,  \* claim_strategy_.last_consumer_sequence_
  ring,          \* RingBuffer::events_
  sequence,      \* the Sequence of each consumer
  alerted,       \* SequenceBarrier::alerted_ of each consumer's barrier
  pc,            \* where each thread is
  next,          \* next_sequence of each publisher's claim
  delta,         \* size of each publisher's claim
  wrapPoint,     \* wrap_point of each publisher
  todo,          \* sequences GetMinimumSequence has still to load
  minimum,       \* GetMinimumSequence's running minimum / available_sequence
  at,            \* sequence whose slot the thread is writing or reading
  capacity       \* last answer of HasAvailableCapacity, until the next claim

claim == <<next, delta, wrapPoint, capacity>>
scan == <<todo, minimum>>
vars == <<cursor, lastClaimed, lastConsumer, ring, sequence, alerted, pc,
          claim, scan, at>>

ProducerStates == {"idle", "claimed", "claimScan", "fill", "sync", "publish",
                   "capCheck", "capScan"}
ConsumerStates == {"run", "waitScan", "read", "halted"}

SequenceValue == Nat \cup {kInitialCursorValue}

(***************************************************************************)
(* Types; a wrap_point is at least -N, and every Sequence holds            *)
(* kInitialCursorValue or the number of an event.                          *)
(***************************************************************************)
TypeOK ==
  /\ cursor \in SequenceValue
  /\ lastClaimed \in SequenceValue
  /\ lastConsumer \in SequenceValue
  /\ ring \in [0 .. N - 1 -> Int]
  /\ sequence \in [Consumers -> SequenceValue]
  /\ alerted \in [Consumers -> BOOLEAN]
  /\ pc \in [Threads -> ProducerStates \cup ConsumerStates]
  /\ \A p \in Producers : pc[p] \in ProducerStates
  /\ \A c \in Consumers : pc[c] \in ConsumerStates
  /\ next \in [Producers -> Int]
  /\ delta \in [Producers -> Nat]
  /\ wrapPoint \in [Producers -> Int]
  /\ \A p \in Producers : wrapPoint[p] >= -N
  /\ todo \in [Threads -> SUBSET Consumers]
  /\ minimum \in [Threads -> SequenceValue]
  /\ at \in [Threads -> Int]
  /\ capacity \in [Producers -> BOOLEAN]

Init ==
  /\ cursor = kInitialCursorValue
  /\ lastClaimed = kInitialCursorValue
  /\ lastConsumer = kInitialCursorValue
  /\ ring = [i \in 0 .. N - 1 |-> kInitialCursorValue]
  /\ sequence = [c \in Consumers |-> kInitialCursorValue]
  /\ alerted = [c \in Consumers |-> FALSE]
  /\ pc = [t \in Threads |-> IF t \in Producers THEN "idle" ELSE "run"]
  /\ next = [p \in Producers |-> kInitialCursorValue]
  /\ delta = [p \in Producers |-> 0]
  /\ wrapPoint = [p \in Producers |-> kInitialCursorValue]
  /\ todo = [t \in Threads |-> {}]
  /\ minimum = [t \in Threads |-> kInitialCursorValue]
  /\ at = [t \in Threads |-> kInitialCursorValue]
  /\ capacity = [p \in Producers |-> FALSE]

Goto(t, state) == pc' = [pc EXCEPT ![t] = state]

\* The locals of a call that returns are gone.
EndScan(t) ==
  /\ todo' = [todo EXCEPT ![t] = {}]
  /\ minimum' = [minimum EXCEPT ![t] = kInitialCursorValue]

EndClaim(p) ==
  /\ next' = [next EXCEPT ![p] = kInitialCursorValue]
  /\ delta' = [delta EXCEPT ![p] = 0]
  /\ wrapPoint' = [wrapPoint EXCEPT ![p] = kInitialCursorValue]
  /\ at' = [at EXCEPT ![p] = kInitialCursorValue]

\* RingBuffer::operator[]; N is a power of two, so & (N - 1) is % N.
Slot(s) == s % N

(***************************************************************************)
(* GetMinimumSequence: start at LONG_MAX, then load each sequence once.    *)
(* The vector's order is the caller's; every order is allowed here.        *)
(***************************************************************************)
BeginMinimum(t, sequences) ==
  /\ todo' = [todo EXCEPT ![t] = sequences]
  /\ minimum' = [minimum EXCEPT ![t] = LongMax]

\* Mutant: the larger of the two is kept.
Larger(a, b) == IF a < b THEN b ELSE a

Smaller(a, b) == IF a < b THEN a ELSE b

LoadSequence(t, c) ==
  /\ c \in todo[t]
  /\ todo' = [todo EXCEPT ![t] = @ \ {c}]
  /\ minimum' = [minimum EXCEPT ![t] = Smaller(@, sequence[c])]
  /\ UNCHANGED <<cursor, lastClaimed, lastConsumer, ring, sequence, alerted, pc,
                 claim, at>>

(***************************************************************************)
(* Publisher: Claim, fill the claimed events, Publish.                     *)
(***************************************************************************)
\* Mutant: off by one.
WrapPointTooLow(s) == s - N - 1

WrapPoint(s) == s - N

IncrementAndGet(p, d) ==
  /\ pc[p] = "idle"
  /\ lastClaimed + d <= MaxSequence
  /\ lastClaimed' = lastClaimed + d
  /\ next' = [next EXCEPT ![p] = lastClaimed + d]
  /\ delta' = [delta EXCEPT ![p] = d]
  /\ wrapPoint' = [wrapPoint EXCEPT ![p] = WrapPoint(lastClaimed + d)]
  /\ capacity' = [capacity EXCEPT ![p] = FALSE]
  /\ Goto(p, "claimed")
  /\ UNCHANGED <<cursor, lastConsumer, ring, sequence, alerted, scan, at>>

StartFilling(p) ==
  /\ Goto(p, "fill")
  /\ at' = [at EXCEPT ![p] = next[p] - delta[p] + 1]

\* Mutant: the cache is trusted whatever it holds.
TrustCache(p) == FALSE

CacheIsBehind(p) == lastConsumer < wrapPoint[p]

ClaimChecksLastConsumer(p) ==
  /\ pc[p] = "claimed"
  /\ \/ /\ CacheIsBehind(p)
        /\ BeginMinimum(p, Gating)
        /\ Goto(p, "claimScan")
        /\ UNCHANGED at
     \/ /\ ~CacheIsBehind(p)
        /\ StartFilling(p)
        /\ UNCHANGED scan
  /\ UNCHANGED <<cursor, lastClaimed, lastConsumer, ring, sequence, alerted, claim>>

ClaimChecksMinimum(p) ==
  /\ pc[p] = "claimScan"
  /\ todo[p] = {}
  /\ \/ /\ minimum[p] < wrapPoint[p]
        /\ BeginMinimum(p, Gating)
        /\ UNCHANGED <<pc, at>>
     \/ /\ minimum[p] >= wrapPoint[p]
        /\ StartFilling(p)
        /\ EndScan(p)
  /\ UNCHANGED <<cursor, lastClaimed, lastConsumer, ring, sequence, alerted, claim>>

\* The publisher writes sequencer[s] for every s of its claim, in order.
FillEvent(p) ==
  /\ pc[p] = "fill"
  /\ ring' = [ring EXCEPT ![Slot(at[p])] = at[p]]
  /\ at' = [at EXCEPT ![p] = @ + 1]
  /\ IF at[p] = next[p] THEN Goto(p, "sync") ELSE UNCHANGED pc
  /\ UNCHANGED <<cursor, lastClaimed, lastConsumer, sequence, alerted, claim, scan>>

\* Mutant: the publisher does not wait for the publishers before it.
WaitForNobody(p) == TRUE

\* Mutant: waits until the cursor is past my_first_sequence.
WaitForItself(p) == MultiThreaded => cursor > next[p] - delta[p]

\* The single-threaded strategy does not wait.
EarlierArePublished(p) == MultiThreaded => cursor >= next[p] - delta[p]

SynchronizePublishing(p) ==
  /\ pc[p] = "sync"
  /\ EarlierArePublished(p)
  /\ Goto(p, "publish")
  /\ UNCHANGED <<cursor, lastClaimed, lastConsumer, ring, sequence, alerted,
                 claim, scan, at>>

\* SignalAllWhenBlocking is empty in the spinning strategies.
Publish(p) ==
  /\ pc[p] = "publish"
  /\ cursor' = cursor + delta[p]
  /\ EndClaim(p)
  /\ Goto(p, "idle")
  /\ UNCHANGED <<lastClaimed, lastConsumer, ring, sequence, alerted, capacity,
                 scan>>

(***************************************************************************)
(* Publisher: HasAvailableCapacity.                                        *)
(***************************************************************************)
HasAvailableCapacity(p) ==
  /\ pc[p] = "idle"
  /\ wrapPoint' = [wrapPoint EXCEPT ![p] = WrapPoint(lastClaimed + 1)]
  /\ capacity' = [capacity EXCEPT ![p] = FALSE]
  /\ Goto(p, "capCheck")
  /\ UNCHANGED <<cursor, lastClaimed, lastConsumer, ring, sequence, alerted,
                 next, delta, scan, at>>

CapacityAnswer(p, answer) ==
  /\ capacity' = [capacity EXCEPT ![p] = answer]
  /\ EndClaim(p)
  /\ EndScan(p)
  /\ Goto(p, "idle")

CapacityChecksLastConsumer(p) ==
  /\ pc[p] = "capCheck"
  /\ \/ /\ CacheIsBehind(p)
        /\ BeginMinimum(p, Gating)
        /\ Goto(p, "capScan")
        /\ UNCHANGED <<claim, at>>
     \/ /\ ~CacheIsBehind(p)
        /\ CapacityAnswer(p, TRUE)
  /\ UNCHANGED <<cursor, lastClaimed, lastConsumer, ring, sequence, alerted>>

CapacityStoresMinimum(p) ==
  /\ pc[p] = "capScan"
  /\ todo[p] = {}
  /\ lastConsumer' = minimum[p]
  /\ CapacityAnswer(p, wrapPoint[p] <= minimum[p])
  /\ UNCHANGED <<cursor, lastClaimed, ring, sequence, alerted>>

(***************************************************************************)
(* Consumer: WaitFor(sequence + 1) on its barrier, read every event up to  *)
(* the available sequence, then set its own Sequence.                      *)
(***************************************************************************)
\* Mutant: a barrier with dependents waits for the cursor all the same.
TracksCursor(c) == {}

Tracked(c) == Dependents[c]

WaitFor(c) ==
  /\ pc[c] = "run"
  /\ \/ /\ Tracked(c) = {}
        /\ todo' = [todo EXCEPT ![c] = {}]
        /\ minimum' = [minimum EXCEPT ![c] = cursor]
     \/ /\ Tracked(c) # {}
        /\ BeginMinimum(c, Tracked(c))
  /\ Goto(c, "waitScan")
  /\ UNCHANGED <<cursor, lastClaimed, lastConsumer, ring, sequence, alerted,
                 claim, at>>

WaitReturns(c) ==
  /\ pc[c] = "waitScan"
  /\ todo[c] = {}
  /\ minimum[c] >= sequence[c] + 1
  /\ at' = [at EXCEPT ![c] = sequence[c] + 1]
  /\ Goto(c, "read")
  /\ UNCHANGED <<cursor, lastClaimed, lastConsumer, ring, sequence, alerted,
                 claim, scan>>

\* Mutant: an alert does not end the wait.
NeverAlerted(c) == FALSE

Alerted(c) == alerted[c]

\* Not available: kAlertedSignal ends the processor; after kTimeoutSignal it
\* calls WaitFor again, which is also what going round the loop does.
WaitSpins(c) ==
  /\ pc[c] = "waitScan"
  /\ todo[c] = {}
  /\ minimum[c] < sequence[c] + 1
  /\ Goto(c, IF Alerted(c) THEN "halted" ELSE "run")
  /\ EndScan(c)
  /\ UNCHANGED <<cursor, lastClaimed, lastConsumer, ring, sequence, alerted,
                 claim, at>>

ReadEvent(c) ==
  /\ pc[c] = "read"
  /\ at[c] < minimum[c]
  /\ at' = [at EXCEPT ![c] = @ + 1]
  /\ UNCHANGED <<cursor, lastClaimed, lastConsumer, ring, sequence, alerted, pc,
                 claim, scan>>

SetSequence(c) ==
  /\ pc[c] = "read"
  /\ at[c] = minimum[c]
  /\ sequence' = [sequence EXCEPT ![c] = minimum[c]]
  /\ at' = [at EXCEPT ![c] = kInitialCursorValue]
  /\ EndScan(c)
  /\ Goto(c, "run")
  /\ UNCHANGED <<cursor, lastClaimed, lastConsumer, ring, alerted, claim>>

\* Any thread may alert a barrier, or clear the alert.
SetAlerted(c, alert) ==
  /\ alerted' = [alerted EXCEPT ![c] = alert]
  /\ UNCHANGED <<cursor, lastClaimed, lastConsumer, ring, sequence, pc, claim,
                 scan, at>>

ProducerStep(p) ==
  \/ ClaimChecksLastConsumer(p)
  \/ ClaimChecksMinimum(p)
  \/ FillEvent(p)
  \/ SynchronizePublishing(p)
  \/ Publish(p)
  \/ CapacityChecksLastConsumer(p)
  \/ CapacityStoresMinimum(p)
  \/ \E c \in Consumers : LoadSequence(p, c)

ConsumerStep(c) ==
  \/ WaitFor(c)
  \/ WaitReturns(c)
  \/ WaitSpins(c)
  \/ ReadEvent(c)
  \/ SetSequence(c)
  \/ \E d \in Consumers : LoadSequence(c, d)

Next ==
  \/ \E p \in Producers : \/ \E d \in Deltas : IncrementAndGet(p, d)
                          \/ HasAvailableCapacity(p)
                          \/ ProducerStep(p)
  \/ \E c \in Consumers : ConsumerStep(c)
  \/ \E c \in AlertTargets, alert \in BOOLEAN : SetAlerted(c, alert)

Spec == Init /\ [][Next]_vars

(***************************************************************************)
(* Every thread the operating system runs keeps taking steps: a publisher  *)
(* inside Claim or Publish, and a consumer in its loop.  Publishers owe no *)
(* further claims, and nobody has to alert a barrier.                      *)
(***************************************************************************)
Fairness ==
  /\ \A p \in Producers : WF_vars(ProducerStep(p))
  /\ \A c \in Consumers : WF_vars(ConsumerStep(c))

LiveSpec == Spec /\ Fairness
-----------------------------------------------------------------------------
Active(p) == pc[p] \in {"claimed", "claimScan", "fill", "sync", "publish"}

(***************************************************************************)
(* Sequencer::operator[] is unsynchronised: a publisher writing an event   *)
(* and a consumer reading one never touch the same slot.                   *)
(***************************************************************************)
NoWriteUnderReader ==
  \A p \in Producers, c \in Consumers :
    pc[p] = "fill" /\ pc[c] = "read" => Slot(at[p]) # Slot(at[c])

(***************************************************************************)
(* Two publishers that returned from Claim never write the same slot,      *)
(* although each one compared only its own wrap_point with the consumers.  *)
(***************************************************************************)
NoTwoWriters ==
  \A p, q \in Producers :
    p # q /\ pc[p] = "fill" /\ pc[q] = "fill" => Slot(at[p]) # Slot(at[q])

(***************************************************************************)
(* A slot that is being written is touched by nobody else, be it a reader  *)
(* or another publisher: operator[] needs no lock.                         *)
(***************************************************************************)
ExclusiveSlots == NoWriteUnderReader /\ NoTwoWriters

(***************************************************************************)
(* A consumer to which WaitFor returned s reads the event published as s:  *)
(* not an older lap's, not a newer lap's, not one still being written.     *)
(***************************************************************************)
ReadsWhatWasPublished ==
  \A c \in Consumers : pc[c] = "read" => ring[Slot(at[c])] = at[c]

(***************************************************************************)
(* A consumer never overtakes a stage its barrier depends on, and none     *)
(* overtakes the cursor, although GetMinimumSequence is not a snapshot.    *)
(***************************************************************************)
PipelineOrder ==
  \A c \in Consumers :
    /\ sequence[c] <= cursor
    /\ \A d \in Dependents[c] : sequence[c] <= sequence[d]

(***************************************************************************)
(* last_consumer_sequence_ lets Claim skip the scan; racing calls of       *)
(* HasAvailableCapacity may move it backwards but never past a consumer.   *)
(***************************************************************************)
LastConsumerIsLowerBound == \A g \in Gating : lastConsumer <= sequence[g]

(***************************************************************************)
(* With the single-threaded strategy a positive HasAvailableCapacity is a  *)
(* promise: the next Claim of one event need not wait for any consumer.    *)
(***************************************************************************)
CapacityIsPromise ==
  \A p \in Producers :
    ~MultiThreaded /\ capacity[p] =>
      \A g \in Gating : sequence[g] >= lastClaimed + 1 - N

(***************************************************************************)
(* The cursor only moves forward, over exactly one claim, and only when    *)
(* every event up to it has been written: SynchronizePublishing makes      *)
(* publishers that finish early wait for the ones before them.             *)
(***************************************************************************)
CursorMovesByWholeClaims ==
  [][cursor' # cursor =>
       \E p \in Producers :
         /\ Active(p)
         /\ cursor = next[p] - delta[p]
         /\ cursor' = next[p]
         /\ \A s \in cursor + 1 .. next[p] : ring[Slot(s)] = s]_vars

(***************************************************************************)
(* Everything that was claimed is eventually read by every consumer, if    *)
(* none is alerted: no publisher is stuck behind a full ring or behind     *)
(* another publisher for ever.                                             *)
(***************************************************************************)
ClaimedIsConsumed ==
  \A s \in 0 .. MaxSequence :
    (lastClaimed >= s) ~> (\A c \in Consumers : sequence[c] >= s)

(***************************************************************************)
(* A consumer whose barrier stays alerted leaves WaitFor with              *)
(* kAlertedSignal once the publishers have nothing more for it, even if it *)
(* is waiting for an upstream stage that has itself stopped.               *)
(***************************************************************************)
AlertEndsTheWait ==
  \A c \in Consumers : []<>(pc[c] = "halted" \/ ~alerted[c])
-----------------------------------------------------------------------------
\* Publishers whose Claim has returned.
Admitted(p) == pc[p] \in {"fill", "sync", "publish"}

\* Claims are disjoint ranges (next - delta, next] between cursor and lastClaimed.
ClaimsAreDisjoint ==
  /\ cursor <= lastClaimed
  /\ \A p \in Producers : Active(p) =>
        /\ delta[p] \in Deltas
        /\ wrapPoint[p] = next[p] - N
        /\ cursor <= next[p] - delta[p]
        /\ next[p] <= lastClaimed
  /\ \A p, q \in Producers : p # q /\ Active(p) /\ Active(q) =>
        next[p] <= next[q] - delta[q] \/ next[q] <= next[p] - delta[p]

\* SynchronizePublishing has waited, or there is nobody to wait for.
PublishesInTurn ==
  /\ \A p \in Producers : pc[p] = "publish" => cursor = next[p] - delta[p]
  /\ \A p \in Producers : ~MultiThreaded =>
        IF Active(p) THEN cursor = next[p] - delta[p] /\ next[p] = lastClaimed
                     ELSE cursor = lastClaimed

\* What GetMinimumSequence returns is a lower bound when it is used.
ScansAreLowerBounds ==
  /\ \A p \in Producers : pc[p] \in {"claimScan", "capScan"} =>
        \A g \in Gating \ todo[p] : minimum[p] <= sequence[g]
  /\ \A c \in Consumers : pc[c] \in {"waitScan", "read"} =>
        /\ Dependents[c] = {} => minimum[c] <= cursor
        /\ \A d \in Dependents[c] \ todo[c] : minimum[c] <= sequence[d]
  /\ \A c \in Consumers : pc[c] = "read" =>
        /\ todo[c] = {}
        /\ sequence[c] < at[c]
        /\ at[c] <= minimum[c]

StagesInOrder ==
  /\ PipelineOrder
  /\ \A g, c \in Consumers : <<g, c>> \in Follows => sequence[g] <= sequence[c]

\* No consumer is a lap behind a publisher that may write.
AdmittedIsSafe ==
  \A p \in Producers : Admitted(p) => \A c \in Consumers : next[p] - N <= sequence[c]

Holds(s) == ring[Slot(s)] = s

\* Slots of published events some consumer has not finished, and of the part
\* of each claim that has been written, hold their events.
SlotsAreFilled ==
  /\ \A s \in 0 .. cursor : (\E c \in Consumers : sequence[c] < s) => Holds(s)
  /\ \A p \in Producers : pc[p] = "fill" =>
        /\ next[p] - delta[p] < at[p]
        /\ at[p] <= next[p]
        /\ \A s \in next[p] - delta[p] + 1 .. at[p] - 1 : Holds(s)
  /\ \A p \in Producers : pc[p] \in {"sync", "publish"} =>
        \A s \in next[p] - delta[p] + 1 .. next[p] : Holds(s)

CapacityWrapPoint ==
  \A p \in Producers :
    ~MultiThreaded /\ pc[p] \in {"capCheck", "capScan"} =>
      wrapPoint[p] = lastClaimed + 1 - N

(***************************************************************************)
(* The inductive invariant behind the safety of Claim, Publish and WaitFor. *)
(***************************************************************************)
RingInvariant ==
  /\ TypeOK
  /\ ClaimsAreDisjoint
  /\ PublishesInTurn
  /\ ScansAreLowerBounds
  /\ LastConsumerIsLowerBound
  /\ StagesInOrder
  /\ AdmittedIsSafe
  /\ SlotsAreFilled
  /\ CapacityWrapPoint
  /\ CapacityIsPromise
-----------------------------------------------------------------------------
(***************************************************************************)
(* What the ring promises, whatever the threads do inside: see BroadcastRing. *)
(***************************************************************************)
Promise == INSTANCE BroadcastRing WITH head <- cursor, tail <- sequence

(***************************************************************************)
(* The sequencer with its strategies and barriers implements the broadcast *)
(* ring: publishing never laps a gating consumer, consuming never passes   *)
(* the published events or an upstream stage.                              *)
(***************************************************************************)
ImplementsBroadcastRing == Promise!Spec
=============================================================================
