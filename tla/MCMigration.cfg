\* Two migrations, up to two failures and a kill.
CONSTANTS
  Procs = {p1, p2}
  RuleLists <- Lists
  Managed <- Again
  Budget <- FailuresAndCrash
SPECIFICATION Spec
INVARIANT RulesStayInForce
PROPERTIES SuccessIsComplete FailureKeepsVersion5
\* Migrations run once; nothing follows the last of them.
CHECK_DEADLOCK FALSE
