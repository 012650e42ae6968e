\* Two undisturbed edits, loaded before the lock is taken.
CONSTANTS
  Procs = {p1, p2}
  Keys <- MCKeys
  RandomIds = {r1}
  Ops <- MutatingOps
  Foreign <- NoForeign
  InitialSets <- MCInitialSets
  AutoBackup = TRUE
  MaxBackups = 1
  Budget <- Undisturbed
SPECIFICATION Spec
PROPERTY NoLostUpdate
\* Commands run once; nothing follows the last of them.
CHECK_DEADLOCK FALSE
