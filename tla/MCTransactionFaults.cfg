\* Commands of every kind under one failure, interrupt, crash and restart; the lock comes
\* back and reconcile repairs.
CONSTANTS
  Procs = {p1, p2}
  Keys <- MCKeys
  RandomIds = {r1}
  Ops <- AllOps
  Foreign <- NoForeign
  InitialSets <- MCInitialSets
  AutoBackup = TRUE
  MaxBackups = 1
  Budget <- OneOfEach
SPECIFICATION FairSpec
INVARIANTS LockProtects WorkIsCurrent PortsHaveOneOwner
PROPERTIES CommitsWhatIsEnforced GenerationCounts RolledBackIsSynced OverwrittenIsBackedUp LockComesBack RepairWorks
\* Commands run once; nothing follows the last of them.
CHECK_DEADLOCK FALSE
