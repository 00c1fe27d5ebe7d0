--------------------- MODULE DisruptorSequencerClaiming ---------------------
(***************************************************************************)
(* Type correctness of DisruptorSequencer, and the first part of the       *)
(* inductive argument for RingInvariant: the facts about slots and integers *)
(* it rests on, the initial states, and the steps by which a publisher     *)
(* claims its slots and fills them. Everything is for every ring size, every *)
(* number of publishers and consumers, every pipeline and both claim       *)
(* strategies.                                                             *)
(***************************************************************************)
EXTENDS DisruptorSequencer, TLAPS

USE DEF kInitialCursorValue, Smaller, WrapPoint, CacheIsBehind, EarlierArePublished,
        Tracked, Alerted

\* A thread is a publisher or a consumer.
LEMMA ThreadSplit ==
  \A t \in Threads : t \in Producers \/ t \in Consumers
BY DEF Threads

\* A sequence is -1 (nothing yet) or a position of the ring.
LEMMA SequenceValues == \A v \in SequenceValue : v \in Int /\ v >= -1
BY DEF SequenceValue

\* The constructor leaves every member with its type.
LEMMA InitTypeOK == Init => TypeOK
<1> SUFFICES ASSUME Init PROVE TypeOK
  OBVIOUS
<1>1. ring \in [0 .. N - 1 -> Int]
  BY DEF Init
<1>2. pc \in [Threads -> ProducerStates \cup ConsumerStates]
  BY DEF Init, ProducerStates, ConsumerStates
<1>3. \A p \in Producers : pc[p] \in ProducerStates
  BY DEF Init, ProducerStates, Threads
<1>4. \A c \in Consumers : pc[c] \in ConsumerStates
  BY ThreadAssumption DEF Init, ConsumerStates, Threads
<1>5. \A p \in Producers : wrapPoint[p] >= -N
  BY RingAssumption DEF Init
<1> QED
  BY <1>1, <1>2, <1>3, <1>4, <1>5 DEF Init, TypeOK, SequenceValue

\* A thread's move between states of its own kind keeps pc well typed.
LEMMA GotoTypes ==
  ASSUME TypeOK, NEW t \in Threads, NEW state, Goto(t, state),
         t \in Producers => state \in ProducerStates,
         t \in Consumers => state \in ConsumerStates
  PROVE  /\ pc' \in [Threads -> ProducerStates \cup ConsumerStates]
         /\ \A p \in Producers : pc'[p] \in ProducerStates
         /\ \A c \in Consumers : pc'[c] \in ConsumerStates
BY ThreadSplit DEF TypeOK, Goto, Threads

\* The end of a claim resets the members it uses to values of their types.
LEMMA EndClaimTypes ==
  ASSUME TypeOK, NEW p \in Producers, EndClaim(p)
  PROVE  /\ next' \in [Producers -> Int]
         /\ delta' \in [Producers -> Nat]
         /\ wrapPoint' \in [Producers -> Int]
         /\ \A q \in Producers : wrapPoint'[q] >= -N
         /\ at' \in [Threads -> Int]
BY RingAssumption DEF TypeOK, EndClaim, Threads

\* So does the end of a loop over sequences (GetMinimumSequence).
LEMMA EndScanTypes ==
  ASSUME TypeOK, NEW t \in Threads, EndScan(t)
  PROVE  /\ todo' \in [Threads -> SUBSET Consumers]
         /\ minimum' \in [Threads -> SequenceValue]
BY DEF TypeOK, EndScan, SequenceValue

\* The start of that loop keeps the types too.
LEMMA BeginMinimumTypes ==
  ASSUME TypeOK, NEW t \in Threads, NEW S \in SUBSET Consumers, BeginMinimum(t, S)
  PROVE  /\ todo' \in [Threads -> SUBSET Consumers]
         /\ minimum' \in [Threads -> SequenceValue]
BY RingAssumption DEF TypeOK, BeginMinimum, SequenceValue

\* As does the answer of HasAvailableCapacity.
LEMMA CapacityAnswerTypes ==
  ASSUME TypeOK, NEW p \in Producers, NEW b \in BOOLEAN, CapacityAnswer(p, b)
  PROVE  /\ pc' \in [Threads -> ProducerStates \cup ConsumerStates]
         /\ \A q \in Producers : pc'[q] \in ProducerStates
         /\ \A c \in Consumers : pc'[c] \in ConsumerStates
         /\ next' \in [Producers -> Int]
         /\ delta' \in [Producers -> Nat]
         /\ wrapPoint' \in [Producers -> Int]
         /\ \A q \in Producers : wrapPoint'[q] >= -N
         /\ at' \in [Threads -> Int]
         /\ todo' \in [Threads -> SUBSET Consumers]
         /\ minimum' \in [Threads -> SequenceValue]
         /\ capacity' \in [Producers -> BOOLEAN]
<1>1. p \in Threads
  BY DEF Threads
<1>2. p \notin Consumers
  BY ThreadAssumption
<1>3. EndClaim(p) /\ EndScan(p) /\ Goto(p, "idle")
  BY DEF CapacityAnswer
<1>4. "idle" \in ProducerStates
  BY DEF ProducerStates
<1>5. capacity' \in [Producers -> BOOLEAN]
  BY DEF CapacityAnswer, TypeOK
<1> QED
  BY <1>1, <1>2, <1>3, <1>4, <1>5, GotoTypes, EndClaimTypes, EndScanTypes

\* Every step keeps every type, one case per action.
LEMMA NextTypeOK == TypeOK /\ [Next]_vars => TypeOK'
<1> SUFFICES ASSUME TypeOK, [Next]_vars PROVE TypeOK'
  OBVIOUS
<1> USE DEF claim, scan
<1>a. \A p \in Producers : p \in Threads /\ p \notin Consumers
  BY ThreadAssumption DEF Threads
<1>b. \A c \in Consumers : c \in Threads /\ c \notin Producers
  BY ThreadAssumption DEF Threads
<1>c. /\ {"idle", "claimed", "claimScan", "fill", "sync", "publish", "capCheck",
          "capScan"} \subseteq ProducerStates
      /\ {"run", "waitScan", "read", "halted"} \subseteq ConsumerStates
  BY DEF ProducerStates, ConsumerStates
<1>d. Gating \in SUBSET Consumers /\ \A c \in Consumers : Dependents[c] \in SUBSET Consumers
  BY TopologyAssumption
<1>1. ASSUME NEW p \in Producers, NEW d \in Deltas, IncrementAndGet(p, d)
      PROVE  TypeOK'
  <2>1. d \in Nat \ {0}
    BY RingAssumption
  <2>2. wrapPoint' \in [Producers -> Int] /\ \A q \in Producers : wrapPoint'[q] >= -N
    BY <1>1, <2>1, RingAssumption DEF IncrementAndGet, TypeOK, SequenceValue
  <2>3. lastClaimed' \in SequenceValue
    BY <1>1, <2>1 DEF IncrementAndGet, TypeOK, SequenceValue
  <2>4. next' \in [Producers -> Int] /\ delta' \in [Producers -> Nat]
    BY <1>1, <2>1 DEF IncrementAndGet, TypeOK, SequenceValue
  <2> QED
    BY <1>1, <1>a, <1>c, <2>2, <2>3, <2>4, GotoTypes DEF IncrementAndGet, TypeOK
<1>2. ASSUME NEW p \in Producers, HasAvailableCapacity(p)
      PROVE  TypeOK'
  <2>1. wrapPoint' \in [Producers -> Int] /\ \A q \in Producers : wrapPoint'[q] >= -N
    BY <1>2, RingAssumption DEF HasAvailableCapacity, TypeOK, SequenceValue
  <2> QED
    BY <1>2, <1>a, <1>c, <2>1, GotoTypes DEF HasAvailableCapacity, TypeOK
<1>3. ASSUME NEW p \in Producers, ClaimChecksLastConsumer(p)
      PROVE  TypeOK'
  <2>1. at' \in [Threads -> Int]
    BY <1>3, <1>a DEF ClaimChecksLastConsumer, StartFilling, TypeOK
  <2>2. /\ todo' \in [Threads -> SUBSET Consumers]
        /\ minimum' \in [Threads -> SequenceValue]
    BY <1>3, <1>a, <1>d, BeginMinimumTypes DEF ClaimChecksLastConsumer, TypeOK
  <2> QED
    BY <1>3, <1>a, <1>c, <2>1, <2>2, GotoTypes
    DEF ClaimChecksLastConsumer, StartFilling, TypeOK
<1>4. ASSUME NEW p \in Producers, ClaimChecksMinimum(p)
      PROVE  TypeOK'
  <2>1. at' \in [Threads -> Int]
    BY <1>4, <1>a DEF ClaimChecksMinimum, StartFilling, TypeOK
  <2>2. /\ todo' \in [Threads -> SUBSET Consumers]
        /\ minimum' \in [Threads -> SequenceValue]
    BY <1>4, <1>a, <1>d, BeginMinimumTypes, EndScanTypes DEF ClaimChecksMinimum, TypeOK
  <2> QED
    BY <1>4, <1>a, <1>c, <2>1, <2>2, GotoTypes
    DEF ClaimChecksMinimum, StartFilling, TypeOK
<1>5. ASSUME NEW p \in Producers, FillEvent(p)
      PROVE  TypeOK'
  <2>1. at[p] \in Int /\ at[p] + 1 \in Int
    BY <1>a DEF TypeOK
  <2>2. at' \in [Threads -> Int]
    BY <1>5, <2>1, Zenon DEF FillEvent, TypeOK
  <2>3. ring' \in [0 .. N - 1 -> Int]
    BY <1>5, <2>1, Zenon DEF FillEvent, TypeOK
  <2> QED
    BY <1>5, <1>a, <1>c, <2>2, <2>3, GotoTypes DEF FillEvent, TypeOK
<1>6. ASSUME NEW p \in Producers, SynchronizePublishing(p)
      PROVE  TypeOK'
  BY <1>6, <1>a, <1>c, GotoTypes DEF SynchronizePublishing, TypeOK
<1>7. ASSUME NEW p \in Producers, Publish(p)
      PROVE  TypeOK'
  <2>1. cursor' \in SequenceValue
    BY <1>7 DEF Publish, TypeOK, SequenceValue
  <2> QED
    BY <1>7, <1>a, <1>c, <2>1, GotoTypes, EndClaimTypes, Zenon DEF Publish, TypeOK
<1>8. ASSUME NEW p \in Producers, CapacityChecksLastConsumer(p)
      PROVE  TypeOK'
  <2>1. CASE CapacityAnswer(p, TRUE)
    BY <1>8, <2>1, CapacityAnswerTypes, Zenon DEF CapacityChecksLastConsumer, TypeOK
  <2>2. CASE /\ BeginMinimum(p, Gating)
             /\ Goto(p, "capScan")
             /\ UNCHANGED <<claim, at>>
    BY <1>8, <2>2, <1>a, <1>c, <1>d, GotoTypes, BeginMinimumTypes
    DEF CapacityChecksLastConsumer, TypeOK
  <2> QED
    BY <1>8, <2>1, <2>2, Zenon DEF CapacityChecksLastConsumer
<1>9. ASSUME NEW p \in Producers, CapacityStoresMinimum(p)
      PROVE  TypeOK'
  <2>1. lastConsumer' \in SequenceValue
    BY <1>9, <1>a DEF CapacityStoresMinimum, TypeOK
  <2>2. (wrapPoint[p] <= minimum[p]) \in BOOLEAN
    OBVIOUS
  <2> QED
    BY <1>9, <2>1, <2>2, CapacityAnswerTypes, Zenon DEF CapacityStoresMinimum, TypeOK
<1>10. ASSUME NEW t \in Threads, NEW c \in Consumers, LoadSequence(t, c)
       PROVE  TypeOK'
  <2>1. minimum' \in [Threads -> SequenceValue] /\ todo' \in [Threads -> SUBSET Consumers]
    BY <1>10 DEF LoadSequence, TypeOK
  <2> QED
    BY <1>10, <2>1 DEF LoadSequence, TypeOK
<1>11. ASSUME NEW c \in Consumers, WaitFor(c)
       PROVE  TypeOK'
  <2>1. /\ todo' \in [Threads -> SUBSET Consumers]
        /\ minimum' \in [Threads -> SequenceValue]
    <3>1. CASE BeginMinimum(c, Dependents[c])
      BY <3>1, <1>b, <1>d, BeginMinimumTypes
    <3>2. CASE /\ todo' = [todo EXCEPT ![c] = {}]
               /\ minimum' = [minimum EXCEPT ![c] = cursor]
      BY <3>2, <1>b DEF TypeOK
    <3> QED
      BY <1>11, <3>1, <3>2 DEF WaitFor
  <2> QED
    BY <1>11, <1>b, <1>c, <2>1, GotoTypes DEF WaitFor, TypeOK
<1>12. ASSUME NEW c \in Consumers, WaitReturns(c)
       PROVE  TypeOK'
  <2>1. sequence[c] \in Int /\ sequence[c] + 1 \in Int
    <3>1. sequence[c] \in SequenceValue
      BY DEF TypeOK
    <3> QED
      BY <3>1, SequenceValues
  <2>2. at' \in [Threads -> Int]
    BY <1>12, <2>1, Zenon DEF WaitReturns, TypeOK
  <2> QED
    BY <1>12, <1>b, <1>c, <2>2, GotoTypes DEF WaitReturns, TypeOK
<1>13. ASSUME NEW c \in Consumers, WaitSpins(c)
       PROVE  TypeOK'
  BY <1>13, <1>b, <1>c, GotoTypes, EndScanTypes DEF WaitSpins, TypeOK
<1>14. ASSUME NEW c \in Consumers, ReadEvent(c)
       PROVE  TypeOK'
  BY <1>14, <1>b DEF ReadEvent, TypeOK
<1>15. ASSUME NEW c \in Consumers, SetSequence(c)
       PROVE  TypeOK'
  <2>1. sequence' \in [Consumers -> SequenceValue] /\ at' \in [Threads -> Int]
    BY <1>15, <1>b DEF SetSequence, TypeOK
  <2> QED
    BY <1>15, <1>b, <1>c, <2>1, GotoTypes, EndScanTypes DEF SetSequence, TypeOK
<1>16. ASSUME NEW c \in AlertTargets, NEW alert \in BOOLEAN, SetAlerted(c, alert)
       PROVE  TypeOK'
  BY <1>16, Zenon DEF SetAlerted, TypeOK
<1>17. CASE UNCHANGED vars
  BY <1>17 DEF vars, TypeOK
<1> QED
  BY <1>1, <1>2, <1>3, <1>4, <1>5, <1>6, <1>7, <1>8, <1>9, <1>10, <1>11, <1>12,
     <1>13, <1>14, <1>15, <1>16, <1>17, <1>a, <1>b
  DEF Next, ProducerStep, ConsumerStep

(***************************************************************************)
(* Every reachable state is well typed: Sequences hold -1 or an event's    *)
(* number, and every thread is at a point of its own code.                 *)
(***************************************************************************)
THEOREM TypeCorrect == Spec => []TypeOK
BY InitTypeOK, NextTypeOK, PTL DEF Spec

(***************************************************************************)
(* Slots: two sequences less than a lap apart never share one.             *)
(***************************************************************************)
LEMMA SlotRange == \A a \in Int : Slot(a) \in 0 .. N - 1
BY RingAssumption DEF Slot

\* Two sequences less than a lap apart never share a slot.
LEMMA SlotsDiffer ==
  ASSUME NEW a \in Int, NEW b \in Int, a # b, a - b < N, b - a < N
  PROVE  Slot(a) # Slot(b)
<1> SUFFICES ASSUME a % N = b % N PROVE FALSE
  BY DEF Slot
<1>1. N \in Int /\ N > 0
  BY RingAssumption
<1>2. (a \div N) \in Int /\ (b \div N) \in Int
  BY <1>1
<1>3. a = N * (a \div N) + (a % N) /\ b = N * (b \div N) + (b % N)
  BY <1>1
<1>4. a - b = N * ((a \div N) - (b \div N))
  BY <1>1, <1>2, <1>3
<1>5. ASSUME NEW k \in Int, a - b = N * k PROVE FALSE
  <2>1. CASE k >= 1
    <3>1. N * k >= N
      BY <2>1, <1>1
    <3> QED
      BY <3>1, <1>5, <1>1
  <2>2. CASE k <= -1
    <3>1. N * k <= -N
      BY <2>2, <1>1
    <3> QED
      BY <3>1, <1>5, <1>1
  <2>3. CASE k = 0
    BY <2>3, <1>5, <1>1
  <2> QED
    BY <2>1, <2>2, <2>3
<1> QED
  BY <1>2, <1>4, <1>5

\* Everything the arithmetic of the invariant compares is an integer.
LEMMA IntegerFacts ==
  ASSUME TypeOK
  PROVE  /\ N \in Int /\ N > 0
         /\ cursor \in Int /\ cursor >= -1
         /\ lastClaimed \in Int /\ lastConsumer \in Int
         /\ \A c \in Consumers : sequence[c] \in Int /\ sequence[c] >= -1
         /\ \A p \in Producers :
              next[p] \in Int /\ delta[p] \in Int /\ wrapPoint[p] \in Int
         /\ \A t \in Threads : minimum[t] \in Int /\ at[t] \in Int
         /\ \A d \in Deltas : d \in Int /\ d > 0
         /\ LongMax \in Int
<1>1. /\ \A c \in Consumers : sequence[c] \in SequenceValue
      /\ \A t \in Threads : minimum[t] \in SequenceValue /\ at[t] \in Int
      /\ cursor \in SequenceValue
      /\ lastClaimed \in SequenceValue /\ lastConsumer \in SequenceValue
  BY DEF TypeOK
<1>2. \A p \in Producers :
        next[p] \in Int /\ delta[p] \in Int /\ wrapPoint[p] \in Int
  BY DEF TypeOK
<1>3. N \in Int /\ N > 0 /\ LongMax \in Int /\ \A d \in Deltas : d \in Int /\ d > 0
  BY RingAssumption
<1> QED
  BY <1>1, <1>2, <1>3, SequenceValues

\* Publishers and consumers are different threads.
LEMMA ThreadKinds ==
  /\ \A p \in Producers : p \in Threads /\ p \notin Consumers
  /\ \A c \in Consumers : c \in Threads /\ c \notin Producers
BY ThreadAssumption DEF Threads

\* The invariant holds before anybody has claimed.
LEMMA InitInvariant == Init => RingInvariant
<1> SUFFICES ASSUME Init PROVE RingInvariant
  OBVIOUS
<1>1. TypeOK
  BY InitTypeOK
<1>2. \A p \in Producers : pc[p] = "idle" /\ capacity[p] = FALSE
  BY ThreadKinds DEF Init
<1>3. \A c \in Consumers : pc[c] = "run" /\ sequence[c] = -1
  BY ThreadKinds DEF Init
<1>4. cursor = -1 /\ lastClaimed = -1 /\ lastConsumer = -1
  BY DEF Init
<1>5. ClaimsAreDisjoint /\ PublishesInTurn
  BY <1>2, <1>4 DEF ClaimsAreDisjoint, PublishesInTurn, Active
<1>6. ScansAreLowerBounds
  BY <1>2, <1>3 DEF ScansAreLowerBounds
<1>7. LastConsumerIsLowerBound /\ StagesInOrder
  BY <1>3, <1>4, TopologyAssumption
  DEF LastConsumerIsLowerBound, StagesInOrder, PipelineOrder
<1>8. AdmittedIsSafe
  BY <1>2 DEF AdmittedIsSafe, Admitted
<1>9. SlotsAreFilled
  BY <1>2, <1>4 DEF SlotsAreFilled
<1>10. CapacityWrapPoint /\ CapacityIsPromise
  BY <1>2 DEF CapacityWrapPoint, CapacityIsPromise
<1> QED
  BY <1>1, <1>5, <1>6, <1>7, <1>8, <1>9, <1>10 DEF RingInvariant

-----------------------------------------------------------------------------
(***************************************************************************)
(* Each action preserves RingInvariant.                                    *)
(***************************************************************************)
LEMMA StepTypes == TypeOK /\ Next => TypeOK'
BY NextTypeOK

\* A claim takes the slots that follow the last claim: it is disjoint from the others.
LEMMA IncrementAndGetStep ==
  ASSUME RingInvariant, NEW p \in Producers, NEW d \in Deltas, IncrementAndGet(p, d)
  PROVE  RingInvariant'
<1> USE DEF claim, scan, Goto
<1>1. TypeOK /\ TypeOK'
  BY StepTypes DEF RingInvariant, Next
<1>2. /\ lastClaimed' = lastClaimed + d
      /\ next'[p] = lastClaimed + d /\ delta'[p] = d
      /\ wrapPoint'[p] = lastClaimed + d - N
      /\ pc[p] = "idle" /\ pc'[p] = "claimed" /\ capacity'[p] = FALSE
  <2>1. pc[p] = "idle" /\ pc'[p] = "claimed" /\ capacity'[p] = FALSE
    BY <1>1, ThreadKinds DEF IncrementAndGet, TypeOK
  <2>2. /\ lastClaimed' = lastClaimed + d
        /\ next'[p] = lastClaimed + d /\ delta'[p] = d
    BY <1>1 DEF IncrementAndGet, TypeOK
  <2>3. wrapPoint'[p] = lastClaimed + d - N
    <3>1. wrapPoint \in [Producers -> Int]
      BY <1>1 DEF TypeOK
    <3>2. N \in Int /\ lastClaimed \in Int /\ d \in Int
      BY <1>1, IntegerFacts
    <3> QED
      BY <3>1, <3>2 DEF IncrementAndGet
  <2> QED
    BY <2>1, <2>2, <2>3
<1>3. \A q \in Producers : q # p =>
        /\ next'[q] = next[q] /\ delta'[q] = delta[q] /\ wrapPoint'[q] = wrapPoint[q]
        /\ pc'[q] = pc[q] /\ capacity'[q] = capacity[q]
  BY <1>1, ThreadKinds DEF IncrementAndGet, TypeOK
<1>4. \A c \in Consumers : pc'[c] = pc[c]
  BY <1>1, ThreadKinds DEF IncrementAndGet, TypeOK
<1>5. UNCHANGED <<cursor, lastConsumer, ring, sequence, todo, minimum, at>>
  BY DEF IncrementAndGet
<1> HIDE DEF Goto
<1>6. ClaimsAreDisjoint'
  BY <1>1, <1>2, <1>3, <1>5, IntegerFacts DEF RingInvariant, ClaimsAreDisjoint, Active
<1>7. PublishesInTurn'
  BY <1>1, <1>2, <1>3, <1>5, IntegerFacts, ThreadAssumption
  DEF RingInvariant, PublishesInTurn, Active
<1>8. ScansAreLowerBounds'
  BY <1>1, <1>2, <1>3, <1>4, <1>5, IntegerFacts DEF RingInvariant, ScansAreLowerBounds
<1>9. LastConsumerIsLowerBound' /\ StagesInOrder'
  BY <1>5 DEF RingInvariant, LastConsumerIsLowerBound, StagesInOrder, PipelineOrder
<1>10. AdmittedIsSafe'
  BY <1>1, <1>2, <1>3, <1>5, IntegerFacts DEF RingInvariant, AdmittedIsSafe, Admitted
<1>11. SlotsAreFilled'
  BY <1>1, <1>2, <1>3, <1>5, IntegerFacts DEF RingInvariant, SlotsAreFilled, Holds
<1>12. CapacityWrapPoint' /\ CapacityIsPromise'
  BY <1>1, <1>2, <1>3, <1>5, ThreadAssumption
  DEF RingInvariant, CapacityWrapPoint, CapacityIsPromise
<1> QED
  BY <1>1, <1>6, <1>7, <1>8, <1>9, <1>10, <1>11, <1>12 DEF RingInvariant

\* Loading one sequence keeps the running minimum below all loaded so far.
LEMMA LoadSequenceStep ==
  ASSUME RingInvariant, NEW t \in Threads, NEW c \in Consumers, LoadSequence(t, c), Next
  PROVE  RingInvariant'
<1> USE DEF claim, scan
<1>1. TypeOK /\ TypeOK'
  BY StepTypes DEF RingInvariant
<1>2. /\ todo'[t] = todo[t] \ {c}
      /\ minimum'[t] <= minimum[t] /\ minimum'[t] <= sequence[c]
      /\ c \in todo[t]
  BY <1>1, IntegerFacts DEF LoadSequence, TypeOK
<1>3. \A u \in Threads : u # t => todo'[u] = todo[u] /\ minimum'[u] = minimum[u]
  BY <1>1 DEF LoadSequence, TypeOK
<1>4. UNCHANGED <<cursor, lastClaimed, lastConsumer, ring, sequence, pc, next,
                  delta, wrapPoint, capacity, at>>
  BY DEF LoadSequence
<1>5. ScansAreLowerBounds'
  <2>1. \A u \in Threads : minimum[u] \in Int /\ minimum'[u] \in Int
    BY <1>1, SequenceValues DEF TypeOK
  <2>2. \A p \in Producers : pc[p] \in {"claimScan", "capScan"} =>
          \A g \in Gating \ todo'[p] : minimum'[p] <= sequence[g]
    BY <1>1, <1>2, <1>3, <2>1, IntegerFacts, ThreadKinds, TopologyAssumption
    DEF RingInvariant, ScansAreLowerBounds
  <2>3. \A x \in Consumers : pc[x] = "read" => todo[x] = {}
    BY DEF RingInvariant, ScansAreLowerBounds
  <2>4. \A x \in Consumers : pc[x] = "read" => todo'[x] = {} /\ minimum'[x] = minimum[x]
    BY <1>2, <1>3, <2>3, ThreadKinds
  <2>5. \A x \in Consumers : pc[x] \in {"waitScan", "read"} =>
          /\ Dependents[x] = {} => minimum'[x] <= cursor
          /\ \A d \in Dependents[x] \ todo'[x] : minimum'[x] <= sequence[d]
    BY <1>1, <1>2, <1>3, <2>1, IntegerFacts, ThreadKinds, TopologyAssumption
    DEF RingInvariant, ScansAreLowerBounds
  <2> QED
    BY <1>4, <2>2, <2>4, <2>5 DEF RingInvariant, ScansAreLowerBounds
<1> QED
  BY <1>1, <1>4, <1>5
  DEF RingInvariant, ClaimsAreDisjoint, PublishesInTurn, LastConsumerIsLowerBound,
      StagesInOrder, PipelineOrder, AdmittedIsSafe, SlotsAreFilled, Holds,
      CapacityWrapPoint, CapacityIsPromise, Active, Admitted

\* What holds for the last stages of the pipelines holds for every consumer.
LEMMA GatingBoundsAll ==
  ASSUME RingInvariant, NEW v \in Int, \A g \in Gating : v <= sequence[g]
  PROVE  \A c \in Consumers : v <= sequence[c]
<1>1. TAKE c \in Consumers
<1>2. CASE c \in Gating
  BY <1>2
<1>3. CASE \E g \in Gating : <<g, c>> \in Follows
  <2>1. PICK g \in Gating : <<g, c>> \in Follows
    BY <1>3
  <2>2. g \in Consumers /\ sequence[g] <= sequence[c]
    BY <2>1, TopologyAssumption DEF RingInvariant, StagesInOrder
  <2>3. sequence[g] \in Int /\ sequence[c] \in Int
    BY <2>2, IntegerFacts DEF RingInvariant
  <2> QED
    BY <2>1, <2>2, <2>3
<1> QED
  BY <1>2, <1>3, TopologyAssumption

\* Claim returns once every gating consumer has passed wrap_point.
LEMMA AdmitStep ==
  ASSUME RingInvariant, TypeOK', NEW p \in Producers,
         pc[p] \in {"claimed", "claimScan"}, StartFilling(p),
         \A g \in Gating : wrapPoint[p] <= sequence[g],
         \A t \in Threads : t # p => todo'[t] = todo[t] /\ minimum'[t] = minimum[t],
         UNCHANGED <<cursor, lastClaimed, lastConsumer, ring, sequence, next,
                     delta, wrapPoint, capacity>>
  PROVE  RingInvariant'
<1>1. TypeOK
  BY DEF RingInvariant
<1>2. pc'[p] = "fill" /\ at'[p] = next[p] - delta[p] + 1
  BY <1>1, ThreadKinds DEF StartFilling, Goto, TypeOK
<1>3. \A t \in Threads : t # p => pc'[t] = pc[t] /\ at'[t] = at[t]
  BY <1>1, ThreadKinds DEF StartFilling, Goto, TypeOK
<1>4. Active(p) /\ delta[p] > 0 /\ wrapPoint[p] = next[p] - N
  BY IntegerFacts, <1>1 DEF RingInvariant, ClaimsAreDisjoint, Active
<1>5. ClaimsAreDisjoint'
  BY <1>2, <1>3, <1>4, ThreadKinds DEF RingInvariant, ClaimsAreDisjoint, Active
<1>6. PublishesInTurn'
  BY <1>2, <1>3, <1>4, ThreadKinds DEF RingInvariant, PublishesInTurn, Active
<1>7. ScansAreLowerBounds'
  BY <1>2, <1>3, ThreadKinds DEF RingInvariant, ScansAreLowerBounds
<1>8. LastConsumerIsLowerBound' /\ StagesInOrder'
  BY Zenon DEF RingInvariant, LastConsumerIsLowerBound, StagesInOrder, PipelineOrder
<1>9. AdmittedIsSafe'
  <2>1. \A c \in Consumers : wrapPoint[p] <= sequence[c]
    BY <1>1, GatingBoundsAll, IntegerFacts, Zenon
  <2> QED
    BY <1>2, <1>3, <1>4, <2>1, ThreadKinds DEF RingInvariant, AdmittedIsSafe, Admitted
<1>10. SlotsAreFilled'
  <2>. next[p] \in Int /\ delta[p] \in Int
    BY <1>1, IntegerFacts, Zenon
  <2>1. /\ next[p] - delta[p] < at'[p] /\ at'[p] <= next[p]
        /\ next[p] - delta[p] + 1 .. at'[p] - 1 = {}
    BY <1>2, <1>4
  <2>2. \A q \in Producers : q # p => pc'[q] = pc[q] /\ at'[q] = at[q]
    BY <1>3, ThreadKinds
  <2> QED
    BY <1>2, <2>1, <2>2, Zenon DEF RingInvariant, SlotsAreFilled, Holds
<1>11. CapacityWrapPoint' /\ CapacityIsPromise'
  BY <1>2, <1>3, ThreadKinds, Zenon
  DEF RingInvariant, CapacityWrapPoint, CapacityIsPromise
<1> QED
  BY <1>5, <1>6, <1>7, <1>8, <1>9, <1>10, <1>11 DEF RingInvariant

\* A publisher starts, or starts again, to load the gating sequences.
LEMMA BeginScanStep ==
  ASSUME RingInvariant, TypeOK', NEW p \in Producers,
         BeginMinimum(p, Gating),
         \/ pc[p] \in {"claimed", "claimScan"} /\ pc'[p] = "claimScan"
         \/ pc[p] = "capCheck" /\ pc'[p] = "capScan",
         \A t \in Threads : t # p => pc'[t] = pc[t],
         UNCHANGED <<cursor, lastClaimed, lastConsumer, ring, sequence, next,
                     delta, wrapPoint, capacity, at>>
  PROVE  RingInvariant'
<1>1. TypeOK
  BY DEF RingInvariant
<1>2. todo'[p] = Gating
  BY <1>1, ThreadKinds DEF BeginMinimum, TypeOK
<1>3. \A t \in Threads : t # p => todo'[t] = todo[t] /\ minimum'[t] = minimum[t]
  BY <1>1 DEF BeginMinimum, TypeOK
<1>4. ScansAreLowerBounds'
  <2>1. \A q \in Producers : q # p =>
          pc'[q] = pc[q] /\ todo'[q] = todo[q] /\ minimum'[q] = minimum[q]
    BY <1>3, ThreadKinds
  <2>2. \A c \in Consumers :
          pc'[c] = pc[c] /\ todo'[c] = todo[c] /\ minimum'[c] = minimum[c]
    BY <1>3, ThreadKinds
  <2> QED
    BY <1>2, <2>1, <2>2 DEF RingInvariant, ScansAreLowerBounds
<1>5. \A q \in Producers : q # p => pc'[q] = pc[q]
  BY ThreadKinds
<1>6. \A q \in Producers : Active(q)' = Active(q) /\ Admitted(q)' = Admitted(q)
  BY <1>5 DEF Active, Admitted
<1>7. ClaimsAreDisjoint' /\ AdmittedIsSafe'
  BY <1>6 DEF RingInvariant, ClaimsAreDisjoint, AdmittedIsSafe
<1>8. PublishesInTurn' /\ SlotsAreFilled'
  BY <1>5, <1>6 DEF RingInvariant, PublishesInTurn, SlotsAreFilled, Holds
<1>9. LastConsumerIsLowerBound' /\ StagesInOrder'
  BY Zenon DEF RingInvariant, LastConsumerIsLowerBound, StagesInOrder, PipelineOrder
<1>10. CapacityWrapPoint' /\ CapacityIsPromise'
  BY <1>5, Zenon DEF RingInvariant, CapacityWrapPoint, CapacityIsPromise
<1> QED
  BY <1>4, <1>7, <1>8, <1>9, <1>10, Zenon DEF RingInvariant

\* The cached minimum admits the claim, or the loop over the consumers starts.
LEMMA ClaimChecksLastConsumerStep ==
  ASSUME RingInvariant, NEW p \in Producers, ClaimChecksLastConsumer(p)
  PROVE  RingInvariant'
<1> USE DEF claim, scan
<1>1. TypeOK /\ TypeOK'
  BY StepTypes DEF RingInvariant, Next, ProducerStep
<1>2. CASE lastConsumer < wrapPoint[p]
  <2>1. BeginMinimum(p, Gating) /\ Goto(p, "claimScan") /\ UNCHANGED at
    BY <1>1, <1>2, IntegerFacts, Zenon DEF ClaimChecksLastConsumer
  <2>2. pc'[p] = "claimScan" /\ \A t \in Threads : t # p => pc'[t] = pc[t]
    BY <1>1, <2>1, ThreadKinds DEF Goto, TypeOK
  <2> QED
    BY <1>1, <2>1, <2>2, BeginScanStep, Zenon DEF ClaimChecksLastConsumer
<1>3. CASE lastConsumer >= wrapPoint[p]
  <2>1. StartFilling(p) /\ UNCHANGED scan
    BY <1>1, <1>3, IntegerFacts DEF ClaimChecksLastConsumer
  <2>2. \A g \in Gating : wrapPoint[p] <= sequence[g]
    BY <1>1, <1>3, IntegerFacts, TopologyAssumption
    DEF RingInvariant, LastConsumerIsLowerBound
  <2> QED
    BY <1>1, <2>1, <2>2, AdmitStep DEF ClaimChecksLastConsumer
<1> QED
  BY <1>1, <1>2, <1>3, IntegerFacts

\* The loop over the consumers is done: it admits the claim, or starts again.
LEMMA ClaimChecksMinimumStep ==
  ASSUME RingInvariant, NEW p \in Producers, ClaimChecksMinimum(p)
  PROVE  RingInvariant'
<1> USE DEF claim, scan
<1>1. TypeOK /\ TypeOK'
  BY StepTypes DEF RingInvariant, Next, ProducerStep
<1>2. CASE minimum[p] < wrapPoint[p]
  <2>1. BeginMinimum(p, Gating) /\ UNCHANGED <<pc, at>>
    BY <1>1, <1>2, IntegerFacts, ThreadKinds DEF ClaimChecksMinimum
  <2> QED
    BY <1>1, <2>1, BeginScanStep DEF ClaimChecksMinimum
<1>3. CASE minimum[p] >= wrapPoint[p]
  <2>1. StartFilling(p) /\ EndScan(p)
    BY <1>1, <1>3, IntegerFacts, ThreadKinds DEF ClaimChecksMinimum
  <2>2. \A g \in Gating : minimum[p] <= sequence[g]
    BY DEF ClaimChecksMinimum, RingInvariant, ScansAreLowerBounds
  <2>3. \A g \in Gating : wrapPoint[p] <= sequence[g]
    BY <1>1, <1>3, <2>2, IntegerFacts, ThreadKinds, TopologyAssumption
  <2>4. \A t \in Threads : t # p => todo'[t] = todo[t] /\ minimum'[t] = minimum[t]
    BY <1>1, <2>1 DEF EndScan, TypeOK
  <2> QED
    BY <1>1, <2>1, <2>3, <2>4, AdmitStep DEF ClaimChecksMinimum
<1> QED
  BY <1>1, <1>2, <1>3, IntegerFacts, ThreadKinds

\* The publisher writes one event of its claim.
LEMMA FillEventStep ==
  ASSUME RingInvariant, NEW p \in Producers, FillEvent(p)
  PROVE  RingInvariant'
<1> USE DEF claim, scan
<1> DEFINE a == at[p]
<1>1. TypeOK /\ TypeOK'
  BY StepTypes DEF RingInvariant, Next, ProducerStep
<1>2. /\ pc[p] = "fill" /\ at'[p] = a + 1
      /\ pc'[p] = IF a = next[p] THEN "sync" ELSE "fill"
  BY <1>1, ThreadKinds DEF FillEvent, Goto, TypeOK
<1>3. \A t \in Threads : t # p => pc'[t] = pc[t] /\ at'[t] = at[t]
  BY <1>1, ThreadKinds DEF FillEvent, Goto, TypeOK
<1>4. UNCHANGED <<cursor, lastClaimed, lastConsumer, sequence, next, delta,
                  wrapPoint, capacity, todo, minimum>>
  BY DEF FillEvent
<1>5. a \in Int /\ next[p] - delta[p] < a /\ a <= next[p]
  BY <1>1, <1>2, IntegerFacts, ThreadKinds DEF RingInvariant, SlotsAreFilled
<1>6. \A q \in Producers : Active(q)' = Active(q) /\ Admitted(q)' = Admitted(q)
  BY <1>2, <1>3, ThreadKinds DEF Active, Admitted
<1>7. ClaimsAreDisjoint' /\ AdmittedIsSafe'
  BY <1>4, <1>6 DEF RingInvariant, ClaimsAreDisjoint, AdmittedIsSafe
<1>8. PublishesInTurn'
  BY <1>2, <1>3, <1>4, <1>6, ThreadKinds, Zenon DEF RingInvariant, PublishesInTurn
<1>9. ScansAreLowerBounds'
  BY <1>2, <1>3, <1>4, ThreadKinds, Zenon DEF RingInvariant, ScansAreLowerBounds
<1>10. LastConsumerIsLowerBound' /\ StagesInOrder'
  BY <1>4 DEF RingInvariant, LastConsumerIsLowerBound, StagesInOrder, PipelineOrder
<1>11. CapacityWrapPoint' /\ CapacityIsPromise'
  BY <1>2, <1>3, <1>4, ThreadKinds, Zenon DEF RingInvariant, CapacityWrapPoint, CapacityIsPromise
<1>12. SlotsAreFilled'
  <2>1. ring'[Slot(a)] = a
    BY <1>1, <1>5, SlotRange DEF FillEvent, TypeOK
  <2>2. \A s \in Int : Slot(s) # Slot(a) => ring'[Slot(s)] = ring[Slot(s)]
    BY <1>1, <1>5, SlotRange DEF FillEvent, TypeOK
  <2>3. \A s \in Int : s # a /\ a - s < N /\ s - a < N /\ Holds(s) => Holds(s)'
    BY <1>5, <2>2, SlotsDiffer DEF Holds
  <2>4. PICK c0 \in Consumers : TRUE
    BY TopologyAssumption
  <2>5. /\ Active(p) /\ cursor <= next[p] - delta[p]
        /\ \A c \in Consumers : next[p] - N <= sequence[c] /\ sequence[c] <= cursor
    BY <1>2 DEF RingInvariant, Active, Admitted, ClaimsAreDisjoint, AdmittedIsSafe,
                StagesInOrder, PipelineOrder
  <2>6. \A q \in Producers : Admitted(q) =>
          next[q] - N <= cursor /\ cursor <= next[q] - delta[q]
    <3>1. TAKE q \in Producers
    <3>2. HAVE Admitted(q)
    <3>3. next[q] - N <= sequence[c0] /\ sequence[c0] <= cursor
      BY <3>2, <2>5 DEF RingInvariant, AdmittedIsSafe
    <3>4. cursor <= next[q] - delta[q]
      BY <3>2 DEF RingInvariant, ClaimsAreDisjoint, Active, Admitted
    <3> QED
      BY <1>1, <3>3, <3>4, IntegerFacts
  <2>7. \A s \in 0 .. cursor : (\E c \in Consumers : sequence[c] < s) => Holds(s)'
    <3>1. TAKE s \in 0 .. cursor
    <3>2. HAVE \E c \in Consumers : sequence[c] < s
    <3>3. Holds(s)
      BY <3>2 DEF RingInvariant, SlotsAreFilled
    <3>4. s # a /\ a - s < N /\ s - a < N
      BY <1>1, <1>5, <2>5, <3>2, IntegerFacts
    <3> QED
      BY <1>1, <3>3, <3>4, <2>3, IntegerFacts
  <2>8. \A q \in Producers, s \in Int :
          /\ q # p \/ s < a
          /\ Admitted(q) /\ next[q] - delta[q] < s /\ s <= next[q] /\ Holds(s)
          => Holds(s)'
    <3>1. TAKE q \in Producers, s \in Int
    <3>2. HAVE /\ q # p \/ s < a
               /\ Admitted(q) /\ next[q] - delta[q] < s /\ s <= next[q] /\ Holds(s)
    <3>a. /\ next[q] \in Int /\ delta[q] \in Int /\ next[p] \in Int /\ delta[p] \in Int
          /\ cursor \in Int /\ N \in Int
      BY <1>1, IntegerFacts
    <3>3. s # a
      <4>1. CASE q = p
        BY <4>1, <3>2, <1>5
      <4>2. CASE q # p
        <5>1. next[p] <= next[q] - delta[q] \/ next[q] <= next[p] - delta[p]
          BY <4>2, <3>2, <2>5 DEF RingInvariant, ClaimsAreDisjoint, Active, Admitted
        <5> QED
          BY <1>5, <3>2, <3>a, <5>1
      <4> QED
        BY <4>1, <4>2
    <3>4. a - s < N /\ s - a < N
      <4>1. next[p] - N <= cursor
        BY <1>2, <2>6 DEF Admitted
      <4>2. next[q] - N <= cursor /\ cursor <= next[q] - delta[q]
        BY <2>6, <3>2
      <4> QED
        BY <1>5, <2>5, <3>2, <3>a, <4>1, <4>2
    <3> QED
      BY <2>3, <3>2, <3>3, <3>4
  <2>9. \A q \in Producers : q # p => pc'[q] = pc[q] /\ at'[q] = at[q]
    BY <1>3, ThreadKinds
  <2>10. ASSUME NEW q \in Producers, pc'[q] = "fill"
         PROVE  /\ next[q] - delta[q] < at'[q]
                /\ at'[q] <= next[q]
                /\ \A s \in next[q] - delta[q] + 1 .. at'[q] - 1 : Holds(s)'
    <3>1. CASE q = p
      <4>1. a < next[p] /\ at'[p] - 1 = a
        BY <1>1, <1>2, <1>5, <2>10, <3>1, IntegerFacts
      <4>2. \A s \in next[p] - delta[p] + 1 .. a - 1 : Holds(s)
        BY <1>2 DEF RingInvariant, SlotsAreFilled
      <4>3. \A s \in next[p] - delta[p] + 1 .. a - 1 : Holds(s)'
        BY <1>1, <1>2, <1>5, <4>2, <2>8, IntegerFacts DEF Admitted
      <4>4. \A s \in next[p] - delta[p] + 1 .. a : Holds(s)'
        BY <1>1, <1>5, <2>1, <4>3, IntegerFacts DEF Holds
      <4> QED
        BY <1>1, <1>2, <1>5, <3>1, <4>1, <4>4, IntegerFacts
    <3>2. CASE q # p
      <4>1. /\ pc[q] = "fill" /\ at'[q] = at[q] /\ at[q] \in Int
            /\ next[q] - delta[q] < at[q] /\ at[q] <= next[q]
            /\ \A s \in next[q] - delta[q] + 1 .. at[q] - 1 : Holds(s)
        BY <1>1, <2>9, <2>10, <3>2, IntegerFacts, ThreadKinds, Zenon
        DEF RingInvariant, SlotsAreFilled
      <4>2. \A s \in next[q] - delta[q] + 1 .. at[q] - 1 : Holds(s)'
        BY <1>1, <2>8, <3>2, <4>1, IntegerFacts DEF Admitted
      <4> QED
        BY <4>1, <4>2
    <3> QED
      BY <3>1, <3>2
  <2>11. ASSUME NEW q \in Producers, pc'[q] \in {"sync", "publish"}
         PROVE  \A s \in next[q] - delta[q] + 1 .. next[q] : Holds(s)'
    <3>1. CASE q = p
      <4>1. a = next[p]
        BY <1>2, <2>11, <3>1
      <4>2. \A s \in next[p] - delta[p] + 1 .. a - 1 : Holds(s)
        BY <1>2 DEF RingInvariant, SlotsAreFilled
      <4>3. \A s \in next[p] - delta[p] + 1 .. a - 1 : Holds(s)'
        BY <1>1, <1>2, <1>5, <4>2, <2>8, IntegerFacts DEF Admitted
      <4> QED
        BY <1>1, <1>5, <2>1, <3>1, <4>1, <4>3, IntegerFacts DEF Holds
    <3>2. CASE q # p
      <4>1. /\ pc[q] \in {"sync", "publish"}
            /\ \A s \in next[q] - delta[q] + 1 .. next[q] : Holds(s)
        BY <2>9, <2>11, <3>2 DEF RingInvariant, SlotsAreFilled
      <4> QED
        BY <1>1, <2>8, <3>2, <4>1, IntegerFacts DEF Admitted
    <3> QED
      BY <3>1, <3>2
  <2> QED
    BY <1>4, <2>7, <2>10, <2>11, Zenon DEF SlotsAreFilled
<1> QED
  BY <1>1, <1>7, <1>8, <1>9, <1>10, <1>11, <1>12 DEF RingInvariant
=============================================================================
