---------------------- MODULE DisruptorSequencerProofs ----------------------
(***************************************************************************)
(* The inductive argument for RingInvariant, second part: the steps by which *)
(* a publisher publishes its claim and asks for capacity, and the consumers' *)
(* steps. Then what RingInvariant gives: the promises of the ring, for every *)
(* ring size, every number of publishers and consumers, every pipeline and *)
(* both claim strategies.                                                  *)
(***************************************************************************)
EXTENDS DisruptorSequencerClaiming

USE DEF kInitialCursorValue, Smaller, WrapPoint, CacheIsBehind, EarlierArePublished,
        Tracked, Alerted

\* SynchronizePublishing returns once the claims before this one are published.
LEMMA SynchronizePublishingStep ==
  ASSUME RingInvariant, NEW p \in Producers, SynchronizePublishing(p)
  PROVE  RingInvariant'
<1> USE DEF claim, scan
<1>1. TypeOK /\ TypeOK'
  BY StepTypes DEF RingInvariant, Next, ProducerStep
<1>2. /\ pc[p] = "sync" /\ pc'[p] = "publish"
      /\ MultiThreaded => cursor >= next[p] - delta[p]
  BY <1>1, ThreadKinds DEF SynchronizePublishing, Goto, TypeOK
<1>3. \A t \in Threads : t # p => pc'[t] = pc[t]
  BY <1>1, ThreadKinds DEF SynchronizePublishing, Goto, TypeOK
<1>4. UNCHANGED <<cursor, lastClaimed, lastConsumer, ring, sequence, next, delta,
                  wrapPoint, capacity, todo, minimum, at>>
  BY DEF SynchronizePublishing
<1>5. \A q \in Producers : Active(q)' = Active(q) /\ Admitted(q)' = Admitted(q)
  BY <1>2, <1>3, ThreadKinds DEF Active, Admitted
<1>6. ClaimsAreDisjoint' /\ AdmittedIsSafe'
  BY <1>4, <1>5 DEF RingInvariant, ClaimsAreDisjoint, AdmittedIsSafe
<1>7. PublishesInTurn'
  <2>1. cursor <= next[p] - delta[p]
    BY <1>2 DEF RingInvariant, ClaimsAreDisjoint, Active
  <2>2. ~MultiThreaded => cursor = next[p] - delta[p]
    BY <1>2 DEF RingInvariant, PublishesInTurn, Active
  <2>3. cursor = next[p] - delta[p]
    BY <1>1, <1>2, <2>1, <2>2, IntegerFacts, RingAssumption
  <2> QED
    BY <1>2, <1>3, <1>4, <1>5, <2>3, ThreadKinds DEF RingInvariant, PublishesInTurn
<1>8. ScansAreLowerBounds'
  BY <1>2, <1>3, <1>4, ThreadKinds DEF RingInvariant, ScansAreLowerBounds
<1>9. LastConsumerIsLowerBound' /\ StagesInOrder'
  BY <1>4 DEF RingInvariant, LastConsumerIsLowerBound, StagesInOrder, PipelineOrder
<1>10. SlotsAreFilled'
  BY <1>2, <1>3, <1>4, ThreadKinds DEF RingInvariant, SlotsAreFilled, Holds
<1>11. CapacityWrapPoint' /\ CapacityIsPromise'
  BY <1>2, <1>3, <1>4, ThreadKinds DEF RingInvariant, CapacityWrapPoint, CapacityIsPromise
<1> QED
  BY <1>1, <1>6, <1>7, <1>8, <1>9, <1>10, <1>11 DEF RingInvariant

\* Publishing moves the cursor to the end of the claim, whose slots are all filled.
LEMMA PublishStep ==
  ASSUME RingInvariant, NEW p \in Producers, Publish(p)
  PROVE  RingInvariant'
<1> USE DEF claim, scan
<1>1. TypeOK /\ TypeOK'
  BY StepTypes DEF RingInvariant, Next, ProducerStep
<1>2. /\ pc[p] = "publish" /\ pc'[p] = "idle"
      /\ cursor' = cursor + delta[p]
  BY <1>1, ThreadKinds DEF Publish, Goto, TypeOK
<1>3. \A t \in Threads : t # p => pc'[t] = pc[t] /\ at'[t] = at[t]
  BY <1>1, ThreadKinds DEF Publish, Goto, EndClaim, TypeOK
<1>4. \A q \in Producers : q # p =>
        next'[q] = next[q] /\ delta'[q] = delta[q] /\ wrapPoint'[q] = wrapPoint[q]
  BY <1>1, ThreadKinds DEF Publish, EndClaim, TypeOK
<1>5. UNCHANGED <<lastClaimed, lastConsumer, ring, sequence, capacity, todo, minimum>>
  BY DEF Publish
<1>6. /\ cursor = next[p] - delta[p] /\ cursor' = next[p] /\ delta[p] > 0
      /\ next[p] <= lastClaimed
  BY <1>1, <1>2, IntegerFacts
  DEF RingInvariant, PublishesInTurn, ClaimsAreDisjoint, Active
<1>7. \A q \in Producers : q # p =>
        /\ Active(q)' = Active(q) /\ Admitted(q)' = Admitted(q)
        /\ pc'[q] = pc[q] /\ at'[q] = at[q]
  BY <1>3, ThreadKinds DEF Active, Admitted
<1>8. ~Active(p)' /\ ~Admitted(p)' /\ Active(p)
  BY <1>2 DEF Active, Admitted
<1>9. ClaimsAreDisjoint'
  <2>1. \A q \in Producers : q # p /\ Active(q) => cursor' <= next[q] - delta[q]
    <3>1. TAKE q \in Producers
    <3>2. HAVE q # p /\ Active(q)
    <3>3. /\ next[p] <= next[q] - delta[q] \/ next[q] <= next[p] - delta[p]
          /\ cursor <= next[q] - delta[q] /\ delta[q] \in Deltas
      BY <1>8, <3>2 DEF RingInvariant, ClaimsAreDisjoint
    <3>4. /\ next[p] \in Int /\ delta[p] \in Int /\ next[q] \in Int /\ delta[q] \in Int
          /\ delta[q] > 0
      BY <1>1, <3>3, IntegerFacts
    <3> QED
      BY <1>6, <3>3, <3>4
  <2> QED
    BY <1>4, <1>5, <1>6, <1>7, <1>8, <2>1 DEF RingInvariant, ClaimsAreDisjoint
<1>10. PublishesInTurn'
  <2>1. \A q \in Producers : q # p => pc[q] # "publish"
    <3>1. TAKE q \in Producers
    <3>2. SUFFICES ASSUME q # p, pc[q] = "publish" PROVE FALSE
      OBVIOUS
    <3>3. /\ cursor = next[q] - delta[q] /\ delta[q] \in Deltas
          /\ next[p] <= next[q] - delta[q] \/ next[q] <= next[p] - delta[p]
      BY <1>8, <3>2 DEF RingInvariant, PublishesInTurn, ClaimsAreDisjoint, Active
    <3> QED
      BY <1>1, <1>6, <3>3, IntegerFacts
  <2>2. ~MultiThreaded => next[p] = lastClaimed /\ \A q \in Producers : q = p
    BY <1>8, ThreadAssumption DEF RingInvariant, PublishesInTurn
  <2> QED
    BY <1>2, <1>5, <1>6, <1>7, <1>8, <2>1, <2>2 DEF PublishesInTurn
<1>11. ScansAreLowerBounds'
  <2>1. \A q \in Producers : pc'[q] \in {"claimScan", "capScan"} => pc[q] = pc'[q]
    BY <1>2, <1>3, ThreadKinds
  <2>2. \A c \in Consumers : pc'[c] = pc[c] /\ at'[c] = at[c]
    BY <1>3, ThreadKinds
  <2>3. \A c \in Consumers : minimum[c] <= cursor => minimum[c] <= cursor'
    BY <1>1, <1>6, IntegerFacts, ThreadKinds
  <2> QED
    BY <1>5, <2>1, <2>2, <2>3 DEF RingInvariant, ScansAreLowerBounds
<1>12. LastConsumerIsLowerBound' /\ StagesInOrder'
  <2>1. \A c \in Consumers : sequence[c] <= cursor => sequence[c] <= cursor'
    BY <1>1, <1>6, IntegerFacts
  <2> QED
    BY <1>5, <2>1
    DEF RingInvariant, LastConsumerIsLowerBound, StagesInOrder, PipelineOrder
<1>13. AdmittedIsSafe'
  BY <1>4, <1>5, <1>7, <1>8 DEF RingInvariant, AdmittedIsSafe
<1>14. SlotsAreFilled'
  <2>1. \A s \in 0 .. cursor' : (\E c \in Consumers : sequence[c] < s) => Holds(s)
    <3>1. TAKE s \in 0 .. cursor'
    <3>2. HAVE \E c \in Consumers : sequence[c] < s
    <3>a. cursor \in Int /\ next[p] \in Int /\ delta[p] \in Int /\ s \in Int
      BY <1>1, <1>6, IntegerFacts
    <3>3. CASE s <= cursor
      <4>1. s \in 0 .. cursor
        BY <1>6, <3>a, <3>3
      <4> QED
        BY <3>2, <4>1 DEF RingInvariant, SlotsAreFilled
    <3>4. CASE s > cursor
      <4>1. s \in next[p] - delta[p] + 1 .. next[p]
        BY <1>6, <3>a, <3>4
      <4> QED
        BY <1>2, <4>1 DEF RingInvariant, SlotsAreFilled
    <3> QED
      BY <3>a, <3>3, <3>4
  <2>2. \A s : Holds(s)' = Holds(s)
    BY <1>5 DEF Holds
  <2> QED
    BY <1>2, <1>4, <1>5, <1>7, <2>1, <2>2 DEF RingInvariant, SlotsAreFilled
<1>15. CapacityWrapPoint' /\ CapacityIsPromise'
  BY <1>2, <1>4, <1>5, <1>7 DEF RingInvariant, CapacityWrapPoint, CapacityIsPromise
<1> QED
  BY <1>1, <1>9, <1>10, <1>11, <1>12, <1>13, <1>14, <1>15 DEF RingInvariant

\* HasAvailableCapacity computes its wrap point.
LEMMA HasAvailableCapacityStep ==
  ASSUME RingInvariant, NEW p \in Producers, HasAvailableCapacity(p)
  PROVE  RingInvariant'
<1> USE DEF claim, scan
<1>1. TypeOK /\ TypeOK'
  BY StepTypes DEF RingInvariant, Next
<1>2. /\ pc[p] = "idle" /\ pc'[p] = "capCheck" /\ capacity'[p] = FALSE
      /\ wrapPoint'[p] = lastClaimed + 1 - N
  <2>1. pc[p] = "idle" /\ pc'[p] = "capCheck" /\ capacity'[p] = FALSE
    BY <1>1, ThreadKinds DEF HasAvailableCapacity, Goto, TypeOK
  <2>2. wrapPoint \in [Producers -> Int]
    BY <1>1 DEF TypeOK
  <2>3. N \in Int /\ lastClaimed \in Int
    BY <1>1, IntegerFacts
  <2>4. wrapPoint'[p] = lastClaimed + 1 - N
    BY <2>2, <2>3 DEF HasAvailableCapacity
  <2> QED
    BY <2>1, <2>4
<1>3. \A t \in Threads : t # p => pc'[t] = pc[t]
  BY <1>1, ThreadKinds DEF HasAvailableCapacity, Goto, TypeOK
<1>4. \A q \in Producers : q # p =>
        wrapPoint'[q] = wrapPoint[q] /\ capacity'[q] = capacity[q]
  BY <1>1 DEF HasAvailableCapacity, TypeOK
<1>5. UNCHANGED <<cursor, lastClaimed, lastConsumer, ring, sequence, next, delta,
                  todo, minimum, at>>
  BY DEF HasAvailableCapacity
<1>6. \A q \in Producers : Active(q)' = Active(q) /\ Admitted(q)' = Admitted(q)
  BY <1>2, <1>3, ThreadKinds DEF Active, Admitted
<1>7. ~Active(p)
  BY <1>2 DEF Active
<1>8. ClaimsAreDisjoint' /\ AdmittedIsSafe'
  BY <1>4, <1>5, <1>6, <1>7 DEF RingInvariant, ClaimsAreDisjoint, AdmittedIsSafe
<1>9. PublishesInTurn' /\ SlotsAreFilled'
  BY <1>2, <1>3, <1>5, <1>6, ThreadKinds
  DEF RingInvariant, PublishesInTurn, SlotsAreFilled, Holds
<1>10. ScansAreLowerBounds'
  BY <1>2, <1>3, <1>5, ThreadKinds DEF RingInvariant, ScansAreLowerBounds
<1>11. LastConsumerIsLowerBound' /\ StagesInOrder'
  BY <1>5 DEF RingInvariant, LastConsumerIsLowerBound, StagesInOrder, PipelineOrder
<1>12. CapacityWrapPoint' /\ CapacityIsPromise'
  BY <1>2, <1>3, <1>4, <1>5, ThreadKinds
  DEF RingInvariant, CapacityWrapPoint, CapacityIsPromise
<1> QED
  BY <1>1, <1>8, <1>9, <1>10, <1>11, <1>12 DEF RingInvariant

\* HasAvailableCapacity returns: what it caches, and a positive answer, rest
\* on a lower bound of the gating sequences.
LEMMA CapacityAnswerStep ==
  ASSUME RingInvariant, TypeOK', NEW p \in Producers, NEW answer \in BOOLEAN,
         CapacityAnswer(p, answer), pc[p] \in {"capCheck", "capScan"},
         \A g \in Gating : lastConsumer' <= sequence[g],
         answer => \A g \in Gating : wrapPoint[p] <= sequence[g],
         UNCHANGED <<cursor, lastClaimed, ring, sequence>>
  PROVE  RingInvariant'
<1>1. TypeOK
  BY DEF RingInvariant
<1>2. pc'[p] = "idle" /\ capacity'[p] = answer
  BY <1>1, ThreadKinds DEF CapacityAnswer, Goto, TypeOK
<1>3. \A t \in Threads : t # p =>
        /\ pc'[t] = pc[t] /\ at'[t] = at[t]
        /\ todo'[t] = todo[t] /\ minimum'[t] = minimum[t]
  BY <1>1 DEF CapacityAnswer, Goto, EndClaim, EndScan, TypeOK
<1>4. \A q \in Producers : q # p =>
        /\ next'[q] = next[q] /\ delta'[q] = delta[q] /\ wrapPoint'[q] = wrapPoint[q]
        /\ capacity'[q] = capacity[q]
        /\ pc'[q] = pc[q] /\ at'[q] = at[q]
        /\ todo'[q] = todo[q] /\ minimum'[q] = minimum[q]
        /\ Active(q)' = Active(q) /\ Admitted(q)' = Admitted(q)
  BY <1>1, <1>3, ThreadKinds DEF CapacityAnswer, EndClaim, TypeOK, Active, Admitted
<1>5. ~Active(p) /\ ~Active(p)' /\ ~Admitted(p)'
  BY <1>2 DEF Active, Admitted
<1>6. ClaimsAreDisjoint' /\ AdmittedIsSafe'
  BY <1>4, <1>5 DEF RingInvariant, ClaimsAreDisjoint, AdmittedIsSafe
<1>7. PublishesInTurn'
  BY <1>2, <1>4, <1>5 DEF RingInvariant, PublishesInTurn
<1>8. SlotsAreFilled'
  BY <1>2, <1>4 DEF RingInvariant, SlotsAreFilled, Holds
<1>9. ScansAreLowerBounds'
  BY <1>2, <1>3, ThreadKinds, Zenon DEF RingInvariant, ScansAreLowerBounds
<1>10. LastConsumerIsLowerBound' /\ StagesInOrder'
  BY DEF RingInvariant, LastConsumerIsLowerBound, StagesInOrder, PipelineOrder
<1>11. CapacityWrapPoint' /\ CapacityIsPromise'
  <2>1. ~MultiThreaded => wrapPoint[p] = lastClaimed + 1 - N
    BY DEF RingInvariant, CapacityWrapPoint
  <2>2. ~MultiThreaded /\ answer => \A g \in Gating : sequence[g] >= lastClaimed + 1 - N
    BY <1>1, <2>1, IntegerFacts, TopologyAssumption
  <2> QED
    BY <1>2, <1>4, <2>2 DEF RingInvariant, CapacityWrapPoint, CapacityIsPromise
<1> QED
  BY <1>6, <1>7, <1>8, <1>9, <1>10, <1>11 DEF RingInvariant

\* The cached minimum answers, or the loop over the consumers starts.
LEMMA CapacityChecksLastConsumerStep ==
  ASSUME RingInvariant, NEW p \in Producers, CapacityChecksLastConsumer(p)
  PROVE  RingInvariant'
<1> USE DEF claim, scan
<1>1. TypeOK /\ TypeOK'
  BY StepTypes DEF RingInvariant, Next, ProducerStep
<1>2. CASE wrapPoint[p] > lastConsumer
  <2>1. BeginMinimum(p, Gating) /\ Goto(p, "capScan") /\ UNCHANGED <<claim, at>>
    BY <1>1, <1>2, IntegerFacts DEF CapacityChecksLastConsumer, CapacityAnswer
  <2>2. pc'[p] = "capScan" /\ \A t \in Threads : t # p => pc'[t] = pc[t]
    BY <1>1, <2>1, ThreadKinds DEF Goto, TypeOK
  <2> QED
    BY <1>1, <2>1, <2>2, BeginScanStep DEF CapacityChecksLastConsumer
<1>3. CASE wrapPoint[p] <= lastConsumer
  <2>0. lastConsumer \in Int /\ wrapPoint[p] \in Int
    BY <1>1, IntegerFacts
  <2>1. CapacityAnswer(p, TRUE) /\ lastConsumer' = lastConsumer
    <3>1. ~(wrapPoint[p] > lastConsumer)
      BY <1>3, <2>0
    <3> QED
      BY <3>1 DEF CapacityChecksLastConsumer, CapacityAnswer
  <2>2. \A g \in Gating : lastConsumer <= sequence[g] /\ wrapPoint[p] <= sequence[g]
    <3>1. TAKE g \in Gating
    <3>2. lastConsumer <= sequence[g]
      BY DEF RingInvariant, LastConsumerIsLowerBound
    <3>3. lastConsumer \in Int /\ wrapPoint[p] \in Int /\ sequence[g] \in Int
      BY <1>1, IntegerFacts, TopologyAssumption
    <3> QED
      BY <1>3, <3>2, <3>3
  <2> QED
    BY <1>1, <2>1, <2>2, CapacityAnswerStep, Zenon DEF CapacityChecksLastConsumer
<1> QED
  BY <1>1, <1>2, <1>3, IntegerFacts

\* The loop is done: its minimum is cached and gives the answer.
LEMMA CapacityStoresMinimumStep ==
  ASSUME RingInvariant, NEW p \in Producers, CapacityStoresMinimum(p)
  PROVE  RingInvariant'
<1>1. TypeOK /\ TypeOK'
  BY StepTypes DEF RingInvariant, Next, ProducerStep
<1>2. \A g \in Gating : minimum[p] <= sequence[g]
  BY DEF CapacityStoresMinimum, RingInvariant, ScansAreLowerBounds
<1>3. wrapPoint[p] <= minimum[p] => \A g \in Gating : wrapPoint[p] <= sequence[g]
  BY <1>1, <1>2, IntegerFacts, ThreadKinds, TopologyAssumption
<1>4. (wrapPoint[p] <= minimum[p]) \in BOOLEAN
  OBVIOUS
<1> QED
  BY <1>1, <1>2, <1>3, <1>4, CapacityAnswerStep, Zenon DEF CapacityStoresMinimum

\* A consumer that changes nothing but its own wait or read position.
LEMMA ConsumerLocalStep ==
  ASSUME RingInvariant, TypeOK', NEW c \in Consumers,
         \A t \in Threads : t # c =>
           /\ pc'[t] = pc[t] /\ at'[t] = at[t]
           /\ todo'[t] = todo[t] /\ minimum'[t] = minimum[t],
         pc'[c] \in {"waitScan", "read"} =>
           /\ Dependents[c] = {} => minimum'[c] <= cursor
           /\ \A d \in Dependents[c] \ todo'[c] : minimum'[c] <= sequence[d],
         pc'[c] = "read" =>
           todo'[c] = {} /\ sequence[c] < at'[c] /\ at'[c] <= minimum'[c],
         UNCHANGED <<cursor, lastClaimed, lastConsumer, ring, sequence, next,
                     delta, wrapPoint, capacity>>
  PROVE  RingInvariant'
<1>1. \A p \in Producers :
        /\ pc'[p] = pc[p] /\ at'[p] = at[p]
        /\ todo'[p] = todo[p] /\ minimum'[p] = minimum[p]
  BY ThreadKinds
<1>2. \A p \in Producers : Active(p)' = Active(p) /\ Admitted(p)' = Admitted(p)
  BY <1>1, Zenon DEF Active, Admitted
<1>3. ClaimsAreDisjoint' /\ AdmittedIsSafe' /\ PublishesInTurn'
  BY <1>1, <1>2, Zenon
  DEF RingInvariant, ClaimsAreDisjoint, AdmittedIsSafe, PublishesInTurn
<1>4. SlotsAreFilled'
  BY <1>1 DEF RingInvariant, SlotsAreFilled, Holds
<1>5. ScansAreLowerBounds'
  BY <1>1, ThreadKinds DEF RingInvariant, ScansAreLowerBounds
<1>6. LastConsumerIsLowerBound' /\ StagesInOrder'
  BY Zenon DEF RingInvariant, LastConsumerIsLowerBound, StagesInOrder, PipelineOrder
<1>7. CapacityWrapPoint' /\ CapacityIsPromise'
  BY <1>1 DEF RingInvariant, CapacityWrapPoint, CapacityIsPromise
<1> QED
  BY <1>3, <1>4, <1>5, <1>6, <1>7 DEF RingInvariant

\* A consumer starts to wait for its next sequence.
LEMMA WaitForStep ==
  ASSUME RingInvariant, NEW c \in Consumers, WaitFor(c)
  PROVE  RingInvariant'
<1> USE DEF claim, scan
<1>1. TypeOK /\ TypeOK'
  BY StepTypes DEF RingInvariant, Next, ConsumerStep
<1>2. \A t \in Threads : t # c =>
        /\ pc'[t] = pc[t] /\ at'[t] = at[t]
        /\ todo'[t] = todo[t] /\ minimum'[t] = minimum[t]
  BY <1>1 DEF WaitFor, BeginMinimum, Goto, TypeOK
<1>3. /\ pc'[c] = "waitScan"
      /\ Dependents[c] = {} => minimum'[c] = cursor
      /\ todo'[c] = Dependents[c]
  BY <1>1, ThreadKinds, Zenon DEF WaitFor, BeginMinimum, Goto, TypeOK
<1>4. /\ Dependents[c] = {} => minimum'[c] <= cursor
      /\ Dependents[c] \ todo'[c] = {}
  <2>1. cursor \in Int
    BY <1>1, IntegerFacts
  <2> QED
    BY <1>3, <2>1
<1>5. UNCHANGED <<cursor, lastClaimed, lastConsumer, ring, sequence, next, delta, wrapPoint,
                  capacity>>
  BY DEF WaitFor
<1> QED
  BY <1>1, <1>2, <1>3, <1>4, <1>5, ConsumerLocalStep

\* The wait ends: what the consumer may read is below its barrier.
LEMMA WaitReturnsStep ==
  ASSUME RingInvariant, NEW c \in Consumers, WaitReturns(c)
  PROVE  RingInvariant'
<1> USE DEF claim, scan
<1>1. TypeOK /\ TypeOK'
  BY StepTypes DEF RingInvariant, Next, ConsumerStep
<1>2. \A t \in Threads : t # c =>
        /\ pc'[t] = pc[t] /\ at'[t] = at[t]
        /\ todo'[t] = todo[t] /\ minimum'[t] = minimum[t]
  BY <1>1 DEF WaitReturns, Goto, TypeOK
<1>3. /\ pc'[c] = "read" /\ at'[c] = sequence[c] + 1
      /\ todo'[c] = {} /\ minimum'[c] = minimum[c] /\ todo[c] = {}
  BY <1>1, ThreadKinds DEF WaitReturns, Goto, TypeOK
<1>4. /\ Dependents[c] = {} => minimum[c] <= cursor
      /\ \A d \in Dependents[c] : minimum[c] <= sequence[d]
  BY <1>3 DEF WaitReturns, RingInvariant, ScansAreLowerBounds
<1>5. sequence[c] < at'[c] /\ at'[c] <= minimum[c]
  BY <1>1, <1>3, IntegerFacts, ThreadKinds DEF WaitReturns
<1>6. UNCHANGED <<cursor, lastClaimed, lastConsumer, ring, sequence, next, delta, wrapPoint,
                  capacity>>
  BY Zenon DEF WaitReturns
<1> QED
  BY <1>1, <1>2, <1>3, <1>4, <1>5, <1>6, ConsumerLocalStep

\* The wait goes round again, or ends with the alert.
LEMMA WaitSpinsStep ==
  ASSUME RingInvariant, NEW c \in Consumers, WaitSpins(c)
  PROVE  RingInvariant'
<1> USE DEF claim, scan
<1>1. TypeOK /\ TypeOK'
  BY StepTypes DEF RingInvariant, Next, ConsumerStep
<1>2. \A t \in Threads : t # c =>
        /\ pc'[t] = pc[t] /\ at'[t] = at[t]
        /\ todo'[t] = todo[t] /\ minimum'[t] = minimum[t]
  BY <1>1 DEF WaitSpins, EndScan, Goto, TypeOK
<1>3. pc'[c] \in {"halted", "run"}
  BY <1>1, ThreadKinds DEF WaitSpins, Goto, TypeOK
<1> QED
  BY <1>1, <1>2, <1>3, ConsumerLocalStep, Zenon DEF WaitSpins

\* The consumer reads one event.
LEMMA ReadEventStep ==
  ASSUME RingInvariant, NEW c \in Consumers, ReadEvent(c)
  PROVE  RingInvariant'
<1> USE DEF claim, scan
<1>1. TypeOK /\ TypeOK'
  BY StepTypes DEF RingInvariant, Next, ConsumerStep
<1>2. \A t \in Threads : t # c => at'[t] = at[t]
  BY <1>1 DEF ReadEvent, TypeOK
<1>3. at'[c] = at[c] + 1 /\ pc[c] = "read" /\ at[c] < minimum[c]
  BY <1>1, ThreadKinds DEF ReadEvent, TypeOK
<1>4. /\ Dependents[c] = {} => minimum[c] <= cursor
      /\ \A d \in Dependents[c] \ todo[c] : minimum[c] <= sequence[d]
      /\ todo[c] = {} /\ sequence[c] < at[c]
  BY <1>3, Zenon DEF RingInvariant, ScansAreLowerBounds
<1>5. sequence[c] < at'[c] /\ at'[c] <= minimum[c]
  BY <1>1, <1>3, <1>4, IntegerFacts, ThreadKinds
<1> QED
  BY <1>1, <1>2, <1>3, <1>4, <1>5, ConsumerLocalStep, Zenon DEF ReadEvent

\* What WaitFor returned is published.
LEMMA ReadsBelowCursor ==
  ASSUME RingInvariant, NEW c \in Consumers, pc[c] = "read"
  PROVE  minimum[c] <= cursor
<1>1. /\ Dependents[c] = {} => minimum[c] <= cursor
      /\ \A d \in Dependents[c] : minimum[c] <= sequence[d]
  BY DEF RingInvariant, ScansAreLowerBounds
<1>2. CASE Dependents[c] = {}
  BY <1>1, <1>2
<1>3. CASE Dependents[c] # {}
  <2>1. PICK d \in Dependents[c] : minimum[c] <= sequence[d]
    BY <1>1, <1>3
  <2>2. d \in Consumers /\ sequence[d] <= cursor
    BY <2>1, TopologyAssumption DEF RingInvariant, StagesInOrder, PipelineOrder
  <2>3. minimum[c] \in Int /\ sequence[d] \in Int /\ cursor \in Int
    BY <2>2, IntegerFacts, ThreadKinds DEF RingInvariant
  <2> QED
    BY <2>1, <2>2, <2>3
<1> QED
  BY <1>2, <1>3

\* The consumer publishes its own sequence, which frees slots for the publishers.
LEMMA SetSequenceStep ==
  ASSUME RingInvariant, NEW c \in Consumers, SetSequence(c)
  PROVE  RingInvariant'
<1> USE DEF claim, scan
<1>1. TypeOK /\ TypeOK'
  BY StepTypes DEF RingInvariant, Next, ConsumerStep
<1>2. \A t \in Threads : t # c =>
        /\ pc'[t] = pc[t] /\ at'[t] = at[t]
        /\ todo'[t] = todo[t] /\ minimum'[t] = minimum[t]
  BY <1>1 DEF SetSequence, EndScan, Goto, TypeOK
<1>3. /\ pc[c] = "read" /\ pc'[c] = "run" /\ at[c] = minimum[c]
      /\ sequence'[c] = minimum[c]
      /\ \A x \in Consumers : x # c => sequence'[x] = sequence[x]
  BY <1>1, ThreadKinds DEF SetSequence, Goto, TypeOK
<1>4. UNCHANGED <<cursor, lastClaimed, lastConsumer, ring, next, delta, wrapPoint,
                  capacity>>
  BY DEF SetSequence
<1>5. /\ Dependents[c] = {} => minimum[c] <= cursor
      /\ \A d \in Dependents[c] : minimum[c] <= sequence[d]
      /\ sequence[c] < minimum[c]
  BY <1>3, Zenon DEF RingInvariant, ScansAreLowerBounds
<1>6. \A x \in Consumers : sequence[x] <= sequence'[x]
  BY <1>1, <1>3, <1>5, IntegerFacts, ThreadKinds
<1>7. \A x \in Consumers : sequence[x] \in Int /\ sequence'[x] \in Int
  BY <1>1, SequenceValues DEF TypeOK
<1>8. \A v \in Int, x \in Consumers : v <= sequence[x] => v <= sequence'[x]
  BY <1>6, <1>7
<1>9. \A p \in Producers :
        /\ pc'[p] = pc[p] /\ at'[p] = at[p]
        /\ todo'[p] = todo[p] /\ minimum'[p] = minimum[p]
        /\ Active(p)' = Active(p) /\ Admitted(p)' = Admitted(p)
  BY <1>2, ThreadKinds, Zenon DEF Active, Admitted
<1>10. ClaimsAreDisjoint' /\ PublishesInTurn'
  BY <1>4, <1>9 DEF RingInvariant, ClaimsAreDisjoint, PublishesInTurn
<1>11. AdmittedIsSafe'
  <2>1. \A p \in Producers : next[p] - N \in Int
    BY <1>1, IntegerFacts
  <2>2. \A p \in Producers : Admitted(p) => \A x \in Consumers : next[p] - N <= sequence'[x]
    BY <1>8, <2>1 DEF RingInvariant, AdmittedIsSafe
  <2> QED
    BY <1>4, <1>9, <2>2 DEF AdmittedIsSafe
<1>12. LastConsumerIsLowerBound' /\ CapacityWrapPoint' /\ CapacityIsPromise'
  <2>1. LastConsumerIsLowerBound'
    BY <1>1, <1>4, <1>8, IntegerFacts, TopologyAssumption
    DEF RingInvariant, LastConsumerIsLowerBound
  <2>2. \A g \in Gating : sequence[g] >= lastClaimed + 1 - N =>
          sequence'[g] >= lastClaimed + 1 - N
    BY <1>1, <1>6, <1>7, IntegerFacts, TopologyAssumption
  <2> QED
    BY <1>4, <1>9, <2>1, <2>2 DEF RingInvariant, CapacityWrapPoint, CapacityIsPromise
<1>13. ScansAreLowerBounds'
  <2>1. \A p \in Producers : pc'[p] \in {"claimScan", "capScan"} =>
          \A g \in Gating \ todo'[p] : minimum'[p] <= sequence'[g]
    BY <1>1, <1>8, <1>9, IntegerFacts, ThreadKinds, TopologyAssumption, Zenon
    DEF RingInvariant, ScansAreLowerBounds
  <2>2. \A x \in Consumers : x # c =>
          pc'[x] = pc[x] /\ at'[x] = at[x] /\ todo'[x] = todo[x] /\ minimum'[x] = minimum[x]
    BY <1>2, ThreadKinds
  <2>3. \A x \in Consumers : pc'[x] \in {"waitScan", "read"} =>
          /\ Dependents[x] = {} => minimum'[x] <= cursor
          /\ \A d \in Dependents[x] \ todo'[x] : minimum'[x] <= sequence'[d]
    BY <1>1, <1>3, <1>8, <2>2, IntegerFacts, ThreadKinds, TopologyAssumption
    DEF RingInvariant, ScansAreLowerBounds
  <2>4. \A x \in Consumers : pc'[x] = "read" =>
          todo'[x] = {} /\ sequence'[x] < at'[x] /\ at'[x] <= minimum'[x]
    BY <1>3, <2>2, Zenon DEF RingInvariant, ScansAreLowerBounds
  <2> QED
    BY <1>4, <2>1, <2>3, <2>4, Zenon DEF ScansAreLowerBounds
<1>14. StagesInOrder'
  <2>1. minimum[c] \in Int
    BY <1>1, IntegerFacts, ThreadKinds
  <2>2. minimum[c] <= cursor
    BY <1>3, ReadsBelowCursor
  <2>3. \A x \in Consumers : <<c, x>> \in Follows => minimum[c] <= sequence[x] \/ x = c
    <3>1. TAKE x \in Consumers
    <3>2. HAVE <<c, x>> \in Follows
    <3>3. CASE x \in Dependents[c]
      BY <1>5, <3>3
    <3>4. CASE \E d \in Dependents[c] : <<d, x>> \in Follows
      <4>1. PICK d \in Dependents[c] : <<d, x>> \in Follows
        BY <3>4
      <4>2. d \in Consumers /\ minimum[c] <= sequence[d] /\ sequence[d] <= sequence[x]
        BY <1>5, <4>1, TopologyAssumption DEF RingInvariant, StagesInOrder
      <4> QED
        BY <1>7, <2>1, <4>2
    <3> QED
      BY <3>2, <3>3, <3>4, TopologyAssumption
  <2>4. PipelineOrder'
    <3>1. \A x \in Consumers : sequence'[x] <= cursor
      BY <1>3, <2>2 DEF RingInvariant, StagesInOrder, PipelineOrder
    <3>2. ASSUME NEW x \in Consumers, NEW d \in Dependents[x]
          PROVE  sequence'[x] <= sequence'[d]
      <4>1. d \in Consumers
        BY TopologyAssumption
      <4>2. CASE x = c
        BY <1>3, <1>5, <1>8, <2>1, <4>1, <4>2
      <4>3. CASE x # c
        <5>1. sequence[x] <= sequence[d]
          BY DEF RingInvariant, StagesInOrder, PipelineOrder
        <5> QED
          BY <1>3, <1>7, <1>8, <4>1, <4>3, <5>1
      <4> QED
        BY <4>2, <4>3
    <3> QED
      BY <1>4, <3>1, <3>2 DEF PipelineOrder
  <2>5. ASSUME NEW g \in Consumers, NEW x \in Consumers, <<g, x>> \in Follows
        PROVE  sequence'[g] <= sequence'[x]
    <3>1. CASE g = c
      BY <1>3, <1>7, <1>8, <2>1, <2>3, <2>5, <3>1
    <3>2. CASE g # c
      <4>1. sequence[g] <= sequence[x]
        BY <2>5 DEF RingInvariant, StagesInOrder
      <4> QED
        BY <1>3, <1>7, <1>8, <3>2, <4>1
    <3> QED
      BY <3>1, <3>2
  <2> QED
    BY <2>4, <2>5 DEF StagesInOrder
<1>15. SlotsAreFilled'
  <2>1. \A s \in 0 .. cursor : (\E x \in Consumers : sequence'[x] < s) =>
                               (\E x \in Consumers : sequence[x] < s)
    BY <1>1, <1>6, <1>7, IntegerFacts
  <2> QED
    BY <1>4, <1>9, <2>1 DEF RingInvariant, SlotsAreFilled, Holds
<1> QED
  BY <1>1, <1>10, <1>11, <1>12, <1>13, <1>14, <1>15 DEF RingInvariant

\* Every step keeps the invariant, one case per action.
LEMMA NextInvariant == RingInvariant /\ [Next]_vars => RingInvariant'
<1> SUFFICES ASSUME RingInvariant, [Next]_vars PROVE RingInvariant'
  OBVIOUS
<1>1. ASSUME NEW c \in AlertTargets, NEW alert \in BOOLEAN, SetAlerted(c, alert)
      PROVE  RingInvariant'
  <2>1. TypeOK'
    BY <1>1, StepTypes DEF RingInvariant, Next
  <2> QED
    BY <1>1, <2>1, Zenon
    DEF SetAlerted, claim, scan, RingInvariant, ClaimsAreDisjoint, PublishesInTurn,
        ScansAreLowerBounds, LastConsumerIsLowerBound, StagesInOrder, PipelineOrder,
        AdmittedIsSafe, SlotsAreFilled, Holds, CapacityWrapPoint, CapacityIsPromise,
        Active, Admitted
<1>2. CASE UNCHANGED vars
  <2>1. TypeOK'
    BY <1>2, NextTypeOK DEF RingInvariant
  <2> QED
    BY <1>2, <2>1, Zenon
    DEF vars, claim, scan, RingInvariant, ClaimsAreDisjoint, PublishesInTurn,
        ScansAreLowerBounds, LastConsumerIsLowerBound, StagesInOrder, PipelineOrder,
        AdmittedIsSafe, SlotsAreFilled, Holds, CapacityWrapPoint, CapacityIsPromise,
        Active, Admitted
<1>3. ASSUME NEW t \in Threads, NEW c \in Consumers, LoadSequence(t, c)
      PROVE  RingInvariant'
  <2>1. Next
    <3>1. CASE t \in Producers
      BY <1>3, <3>1 DEF Next, ProducerStep
    <3>2. CASE t \in Consumers
      BY <1>3, <3>2 DEF Next, ConsumerStep
    <3> QED
      BY <3>1, <3>2, ThreadSplit
  <2> QED
    BY <1>3, <2>1, LoadSequenceStep
<1>4. ASSUME NEW p \in Producers, ProducerStep(p)
      PROVE  RingInvariant'
  BY <1>3, <1>4, ThreadKinds, ClaimChecksLastConsumerStep, ClaimChecksMinimumStep,
     FillEventStep, SynchronizePublishingStep, PublishStep,
     CapacityChecksLastConsumerStep, CapacityStoresMinimumStep
  DEF ProducerStep
<1>5. ASSUME NEW c \in Consumers, ConsumerStep(c)
      PROVE  RingInvariant'
  BY <1>3, <1>5, ThreadKinds, WaitForStep, WaitReturnsStep, WaitSpinsStep,
     ReadEventStep, SetSequenceStep
  DEF ConsumerStep
<1> QED
  BY <1>1, <1>2, <1>4, <1>5, IncrementAndGetStep, HasAvailableCapacityStep DEF Next

-----------------------------------------------------------------------------
(***************************************************************************)
(* The invariant holds in every reachable state.                           *)
(***************************************************************************)
THEOREM InvariantHolds == Spec => []RingInvariant
BY InitInvariant, NextInvariant, PTL DEF Spec

(***************************************************************************)
(* sequencer[s] is written without a lock; no consumer is ever reading the *)
(* slot a publisher writes.                                                *)
(***************************************************************************)
THEOREM PublishersAndConsumersNeverCollide == Spec => []NoWriteUnderReader
<1>1. ASSUME RingInvariant PROVE NoWriteUnderReader
  <2>1. SUFFICES ASSUME NEW p \in Producers, NEW c \in Consumers,
                        pc[p] = "fill", pc[c] = "read"
                 PROVE  Slot(at[p]) # Slot(at[c])
    BY DEF NoWriteUnderReader
  <2>2. TypeOK
    BY <1>1 DEF RingInvariant
  <2>3. next[p] - delta[p] < at[p] /\ at[p] <= next[p]
    BY <1>1, <2>1 DEF RingInvariant, SlotsAreFilled
  <2>4. cursor <= next[p] - delta[p] /\ next[p] - N <= sequence[c]
    BY <1>1, <2>1
    DEF RingInvariant, ClaimsAreDisjoint, AdmittedIsSafe, Active, Admitted
  <2>5. sequence[c] < at[c] /\ at[c] <= minimum[c]
    BY <1>1, <2>1 DEF RingInvariant, ScansAreLowerBounds
  <2>6. minimum[c] <= cursor
    BY <1>1, <2>1, ReadsBelowCursor
  <2> QED
    BY <2>2, <2>3, <2>4, <2>5, <2>6, IntegerFacts, ThreadKinds, SlotsDiffer
<1> QED
  BY <1>1, InvariantHolds, PTL

(***************************************************************************)
(* Two publishers inside their claims never write the same slot, although  *)
(* each compared only its own wrap_point with the consumers.               *)
(***************************************************************************)
THEOREM PublishersNeverCollide == Spec => []NoTwoWriters
<1>1. ASSUME RingInvariant PROVE NoTwoWriters
  <2>1. SUFFICES ASSUME NEW p \in Producers, NEW q \in Producers, p # q,
                        pc[p] = "fill", pc[q] = "fill"
                 PROVE  Slot(at[p]) # Slot(at[q])
    BY DEF NoTwoWriters
  <2>2. TypeOK
    BY <1>1 DEF RingInvariant
  <2>3. PICK c \in Consumers : TRUE
    BY TopologyAssumption
  <2>4. /\ next[p] - delta[p] < at[p] /\ at[p] <= next[p]
        /\ next[q] - delta[q] < at[q] /\ at[q] <= next[q]
    BY <1>1, <2>1 DEF RingInvariant, SlotsAreFilled
  <2>5. /\ cursor <= next[p] - delta[p] /\ cursor <= next[q] - delta[q]
        /\ next[p] <= next[q] - delta[q] \/ next[q] <= next[p] - delta[p]
    BY <1>1, <2>1 DEF RingInvariant, ClaimsAreDisjoint, Active
  <2>6. next[p] - N <= sequence[c] /\ next[q] - N <= sequence[c] /\ sequence[c] <= cursor
    BY <1>1, <2>1
    DEF RingInvariant, AdmittedIsSafe, Admitted, StagesInOrder, PipelineOrder
  <2>7. /\ at[p] # at[q] /\ at[p] - at[q] < N /\ at[q] - at[p] < N
        /\ at[p] \in Int /\ at[q] \in Int
    BY <2>2, <2>4, <2>5, <2>6, IntegerFacts, ThreadKinds
  <2> QED
    BY <2>7, SlotsDiffer
<1> QED
  BY <1>1, InvariantHolds, PTL

(***************************************************************************)
(* A slot that is being written is touched by nobody else: the events of   *)
(* the ring need no lock, whatever the ring's size and the topology.       *)
(***************************************************************************)
THEOREM SlotsAreExclusive == Spec => []ExclusiveSlots
BY PublishersAndConsumersNeverCollide, PublishersNeverCollide, PTL DEF ExclusiveSlots

(***************************************************************************)
(* A consumer to which WaitFor returned s finds the event published as s.  *)
(***************************************************************************)
THEOREM ConsumersReadPublishedEvents == Spec => []ReadsWhatWasPublished
<1>1. ASSUME RingInvariant PROVE ReadsWhatWasPublished
  <2>1. SUFFICES ASSUME NEW c \in Consumers, pc[c] = "read"
                 PROVE  ring[Slot(at[c])] = at[c]
    BY Zenon DEF ReadsWhatWasPublished
  <2>2. TypeOK
    BY <1>1 DEF RingInvariant
  <2>3. sequence[c] < at[c] /\ at[c] <= minimum[c]
    BY <1>1, <2>1 DEF RingInvariant, ScansAreLowerBounds
  <2>4. minimum[c] <= cursor
    BY <1>1, <2>1, ReadsBelowCursor
  <2>5. at[c] \in 0 .. cursor
    BY <2>2, <2>3, <2>4, IntegerFacts, ThreadKinds
  <2> QED
    BY <1>1, <2>3, <2>5, Zenon DEF RingInvariant, SlotsAreFilled, Holds
<1> QED
  BY <1>1, InvariantHolds, PTL

(***************************************************************************)
(* No consumer overtakes the cursor or a stage its barrier depends on.     *)
(***************************************************************************)
THEOREM StagesStayInOrder == Spec => []PipelineOrder
<1>1. RingInvariant => PipelineOrder
  BY DEF RingInvariant, StagesInOrder
<1> QED
  BY <1>1, InvariantHolds, PTL

(***************************************************************************)
(* The cached last_consumer_sequence_ never passes a gating consumer, so   *)
(* Claim may skip the scan.                                                *)
(***************************************************************************)
THEOREM CacheIsLowerBound == Spec => []LastConsumerIsLowerBound
<1>1. RingInvariant => LastConsumerIsLowerBound
  BY DEF RingInvariant
<1> QED
  BY <1>1, InvariantHolds, PTL

(***************************************************************************)
(* With the single-threaded strategy a positive HasAvailableCapacity stays *)
(* true until the publisher's next claim.                                  *)
(***************************************************************************)
THEOREM CapacityIsKept == Spec => []CapacityIsPromise
<1>1. RingInvariant => CapacityIsPromise
  BY DEF RingInvariant
<1> QED
  BY <1>1, InvariantHolds, PTL

(***************************************************************************)
(* The cursor moves over one whole claim at a time, every event of which   *)
(* has been written.                                                       *)
(***************************************************************************)
THEOREM CursorMovesInOrder == Spec => CursorMovesByWholeClaims
<1>1. ASSUME RingInvariant, [Next]_vars, cursor' # cursor
      PROVE  \E p \in Producers :
               /\ Active(p)
               /\ cursor = next[p] - delta[p]
               /\ cursor' = next[p]
               /\ \A s \in cursor + 1 .. next[p] : ring[Slot(s)] = s
  <2> USE DEF claim, scan
  <2>1. \A p \in Producers : ProducerStep(p) => Publish(p)
    BY <1>1, Zenon
    DEF ProducerStep, ClaimChecksLastConsumer, ClaimChecksMinimum, FillEvent,
        SynchronizePublishing, CapacityChecksLastConsumer, CapacityStoresMinimum,
        LoadSequence
  <2>2. \A c \in Consumers : ~ConsumerStep(c)
    BY <1>1
    DEF ConsumerStep, WaitFor, WaitReturns, WaitSpins, ReadEvent, SetSequence,
        LoadSequence
  <2>3. PICK p \in Producers : Publish(p)
    BY <1>1, <2>1, <2>2 DEF Next, HasAvailableCapacity, IncrementAndGet, SetAlerted, vars
  <2>4. pc[p] = "publish" /\ cursor' = cursor + delta[p]
    BY <2>3 DEF Publish
  <2>5. cursor = next[p] - delta[p]
    BY <1>1, <2>4 DEF RingInvariant, PublishesInTurn
  <2>a. next[p] \in Int /\ delta[p] \in Int
    BY <1>1, IntegerFacts DEF RingInvariant
  <2>6. cursor' = next[p] /\ cursor + 1 = next[p] - delta[p] + 1
    BY <2>4, <2>5, <2>a
  <2>7. \A s \in next[p] - delta[p] + 1 .. next[p] : ring[Slot(s)] = s
    BY <1>1, <2>4 DEF RingInvariant, SlotsAreFilled, Holds
  <2> QED
    BY <2>4, <2>5, <2>6, <2>7 DEF Active
<1> QED
  BY <1>1, InvariantHolds, PTL DEF Spec, CursorMovesByWholeClaims

(***************************************************************************)
(* The sequencer implements the broadcast ring, for every ring size,       *)
(* number of threads and pipeline.                                         *)
(***************************************************************************)
THEOREM SequencerImplementsRing == Spec => ImplementsBroadcastRing
<1>1. Init => Promise!Init
  BY DEF Init, Promise!Init
<1>2. ASSUME RingInvariant, RingInvariant', [Next]_vars
      PROVE  [Promise!Next]_(Promise!vars)
  <2> USE DEF claim, scan
  <2>1. TypeOK
    BY <1>2 DEF RingInvariant
  <2>2. ASSUME NEW p \in Producers, Publish(p)
        PROVE  Promise!Next
    <3>1. pc[p] = "publish" /\ cursor' = cursor + delta[p] /\ UNCHANGED sequence
      BY <2>2 DEF Publish
    <3>2. delta[p] \in Deltas /\ cursor = next[p] - delta[p]
      BY <1>2, <3>1
      DEF RingInvariant, ClaimsAreDisjoint, PublishesInTurn, Active
    <3>3. \A g \in Gating : next[p] - N <= sequence[g]
      BY <1>2, <3>1, TopologyAssumption, Zenon DEF RingInvariant, AdmittedIsSafe, Admitted
    <3>4. \A g \in Gating : cursor + delta[p] - N <= sequence[g]
      BY <2>1, <3>2, <3>3, IntegerFacts
    <3>5. Promise!PublishBatch(delta[p])
      BY <3>1, <3>4 DEF Promise!PublishBatch
    <3> QED
      BY <3>2, <3>5 DEF Promise!Next
  <2>3. ASSUME NEW c \in Consumers, SetSequence(c)
        PROVE  Promise!Next
    <3>1. /\ pc[c] = "read" /\ at[c] = minimum[c] /\ UNCHANGED cursor
          /\ sequence' = [sequence EXCEPT ![c] = minimum[c]]
      BY <2>3 DEF SetSequence
    <3>2. /\ sequence[c] < minimum[c]
          /\ \A d \in Dependents[c] : minimum[c] <= sequence[d]
      BY <1>2, <3>1, Zenon DEF RingInvariant, ScansAreLowerBounds
    <3>3. minimum[c] <= cursor
      BY <1>2, <3>1, ReadsBelowCursor
    <3>4. Promise!ConsumeUpTo(c, minimum[c])
      BY <3>1, <3>2, <3>3 DEF Promise!ConsumeUpTo
    <3>a. minimum[c] \in Int /\ sequence[c] \in Int /\ cursor \in Int
      BY <2>1, IntegerFacts, ThreadKinds
    <3>5. minimum[c] \in sequence[c] + 1 .. cursor
      BY <3>2, <3>3, <3>a
    <3> QED
      BY <3>4, <3>5 DEF Promise!Next
  <2>4. CASE UNCHANGED <<cursor, sequence>>
    BY <2>4 DEF Promise!vars
  <2>5. ASSUME NEW p \in Producers, ProducerStep(p)
        PROVE  Promise!Next \/ UNCHANGED <<cursor, sequence>>
    BY <2>2, <2>5, Zenon
    DEF ProducerStep, ClaimChecksLastConsumer, ClaimChecksMinimum, FillEvent,
        SynchronizePublishing, CapacityChecksLastConsumer, CapacityStoresMinimum,
        LoadSequence
  <2>6. ASSUME NEW c \in Consumers, ConsumerStep(c)
        PROVE  Promise!Next \/ UNCHANGED <<cursor, sequence>>
    BY <2>3, <2>6
    DEF ConsumerStep, WaitFor, WaitReturns, WaitSpins, ReadEvent, LoadSequence
  <2>7. ASSUME NEW p \in Producers,
               HasAvailableCapacity(p) \/ \E d \in Deltas : IncrementAndGet(p, d)
        PROVE  UNCHANGED <<cursor, sequence>>
    BY <2>7 DEF HasAvailableCapacity, IncrementAndGet
  <2>8. ASSUME NEW c \in AlertTargets, NEW alert \in BOOLEAN, SetAlerted(c, alert)
        PROVE  UNCHANGED <<cursor, sequence>>
    BY <2>8 DEF SetAlerted
  <2>9. CASE UNCHANGED vars
    BY <2>4, <2>9 DEF vars
  <2> QED
    BY <1>2, <2>4, <2>5, <2>6, <2>7, <2>8, <2>9 DEF Next
<1> QED
  BY <1>1, <1>2, InvariantHolds, PTL DEF Spec, ImplementsBroadcastRing, Promise!Spec
=============================================================================
