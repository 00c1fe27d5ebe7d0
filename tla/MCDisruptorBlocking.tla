------------------------ MODULE MCDisruptorBlocking -------------------------
(***************************************************************************)
(* Instances of DisruptorBlocking for TLC.                                 *)
(***************************************************************************)
EXTENDS DisruptorBlocking, TLC

CONSTANTS c1, c2, w0, w1

\* c2 follows c1.
Stages == (c1 :> None) @@ (c2 :> c1)
\* One strategy object, used by the publisher and by every consumer.
OneStrategy == [c \in Consumers |-> w0]

Alone == (c1 :> None)
\* SequenceBarrier has a wait_strategy_ of its own, Sequencer another.
OwnStrategy == (c1 :> w1)
=============================================================================
