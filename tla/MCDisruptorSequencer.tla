------------------------ MODULE MCDisruptorSequencer ------------------------
(***************************************************************************)
(* Instances of DisruptorSequencer for TLC.                                *)
(***************************************************************************)
EXTENDS DisruptorSequencer, TLC

CONSTANTS c1, c2, c3

\* A pipeline c1 -> c2.
PipelineDependents == (c1 :> {}) @@ (c2 :> {c1})
PipelineFollows == {<<c2, c1>>}
\* A diamond's end: c1 and c2 side by side, c3 behind both.
DiamondDependents == (c1 :> {}) @@ (c2 :> {}) @@ (c3 :> {c1, c2})
DiamondFollows == {<<c3, c1>>, <<c3, c2>>}
=============================================================================
