---------------------------- MODULE MCLevelDBWrite ----------------------------
(***************************************************************************)
(* Instances of LevelDBWrite.  Writers are interchangeable: no action      *)
(* compares two of them other than for equality.                           *)
(***************************************************************************)
EXTENDS LevelDBWrite, TLC

WriterSymmetry == Permutations(Writers)
===============================================================================
