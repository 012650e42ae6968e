\* Three ordinary commands and one failing command or file write, no backups.
CONSTANTS
  Procs = {p1, p2, p3}
  Keys <- MCKeys
  RandomIds = {r1}
  Ops <- MutatingOps
  Foreign <- ForeignHigh
  InitialSets <- MCInitialSets
  AutoBackup = FALSE
  MaxBackups = 1
  Budget <- OneFailure
SYMMETRY Symmetric
SPECIFICATION Spec
INVARIANT OneFailureIsHarmless
PROPERTY Atomic
\* Commands run once; nothing follows the last of them.
CHECK_DEADLOCK FALSE
