------------------------- MODULE MCLevelDBCompaction -------------------------
(***************************************************************************)
(* Instances of LevelDBCompaction for TLC.                                 *)
(***************************************************************************)
EXTENDS LevelDBCompaction

Workload(keys, writes, deletes, snapshots) ==
  [keys |-> keys, manual |-> TRUE, writes |-> writes, deletes |-> deletes, snapshots |-> snapshots]

\* Three keys, of which one may be between the others; and two keys with a
\* deletion, and with a deletion and a snapshot.
MCWorkloads == {Workload({1, 2, 3}, 4, 0, 0), Workload({1, 2}, 4, 1, 0), Workload({1, 2}, 3, 1, 1)}

MCPuts == {Workload({1, 2, 3}, 4, 0, 0)}
==============================================================================
