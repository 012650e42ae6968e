\* Uninstalls one after the other, up to three failures and an interrupt.
CONSTANTS
  Keys <- OneKey
  RandomIds = {}
  RulesOf <- NoneOrOne
  Directories <- TheDirectories
  Budget <- FailuresAndInterrupt
SPECIFICATION Spec
INVARIANTS RemainsKeepTheirProgram NoServiceWithoutProgram
PROPERTY LateErrorRestoresRules
\* Nothing follows a complete uninstall.
CHECK_DEADLOCK FALSE
