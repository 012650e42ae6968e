\* Two commands on a full directory of either kind; a failure, a kill, and the clock may
\* be set back once.
CONSTANTS
  Procs = {1, 2}
  Kinds = {"backups", "reports"}
  Limit = 2
  Initial <- TwoOld
  MaxTime = 3
  Budget <- OneOfEach
SPECIFICATION Spec
INVARIANTS Bounded OwnFileSurvives
PROPERTY NewestAreKept
\* Commands run once; nothing follows the last of them.
CHECK_DEADLOCK FALSE
