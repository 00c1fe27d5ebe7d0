--------------------------- MODULE BroadcastRing ----------------------------
(***************************************************************************)
(* What disruptor-- promises its users: a bounded broadcast channel.       *)
(* Events are numbered; head is the last published one and tail[c] the     *)
(* last one consumer c has finished with.                                  *)
(***************************************************************************)
EXTENDS Integers

CONSTANTS Consumers, Gating, Dependents, N, Deltas

VARIABLES head, tail

vars == <<head, tail>>

Init ==
  /\ head = -1
  /\ tail = [c \in Consumers |-> -1]

\* A batch is published only when no gating consumer is lapped by it.
PublishBatch(d) ==
  /\ \A g \in Gating : head + d - N <= tail[g]
  /\ head' = head + d
  /\ UNCHANGED tail

\* A consumer advances within what is published and what its stages finished.
ConsumeUpTo(c, s) ==
  /\ tail[c] < s
  /\ s <= head
  /\ \A d \in Dependents[c] : s <= tail[d]
  /\ tail' = [tail EXCEPT ![c] = s]
  /\ UNCHANGED head

Next ==
  \/ \E d \in Deltas : PublishBatch(d)
  \/ \E c \in Consumers : \E s \in tail[c] + 1 .. head : ConsumeUpTo(c, s)

Spec == Init /\ [][Next]_vars
=============================================================================
