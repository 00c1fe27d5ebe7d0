-------------------------- MODULE MCLevelDBRecovery --------------------------
(***************************************************************************)
(* Instances of LevelDBRecovery for TLC.                                   *)
(***************************************************************************)
EXTENDS LevelDBRecovery

\* Files that fail and crashes of the process or the machine: none, with room
\* for a flush inside a merge; one; or two, the second one possibly in DB::Open.
\* With fewer than two there are also calls of TEST_CompactMemTable.
Faults(n, files, iterators) ==
  [reuse_logs |-> FALSE, machine |-> TRUE, io |-> TRUE, append |-> FALSE,
   iterators |-> iterators, force |-> (n < 2), crashes |-> n, files |-> files]

\* Files that fail, a flush inside a merge, and then a crash of the process: the
\* next DB::Open finds a MANIFEST whose torn record the merge's edit follows.
Nested == [Faults(1, 8, FALSE) EXCEPT !.machine = FALSE, !.force = FALSE]

\* Appends to logs that fail half way, and crashes of the process.
Appends(n, reuse) ==
  [reuse_logs |-> reuse, machine |-> FALSE, io |-> FALSE, append |-> TRUE,
   iterators |-> FALSE, force |-> FALSE, crashes |-> n, files |-> 5]

MCRegimes ==
  {Faults(0, 8, TRUE), Faults(1, 7, TRUE), Faults(2, 6, FALSE), Nested,
   Appends(1, FALSE), Appends(2, TRUE)}
==============================================================================
