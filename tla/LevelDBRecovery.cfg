SPECIFICATION Spec
CONSTANTS
  Regimes <- MCRegimes
  MaxWrites = 2
INVARIANTS
  LiveVersionsHaveFiles
  RecoverableAtAnyTime
  RecoverySucceeds
  SequencesAreUnique
  OnlyTornFilesLose
CHECK_DEADLOCK FALSE
