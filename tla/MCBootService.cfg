\* Enabling and disabling in any order, two failing commands and an interrupt.
CONSTANT Budget <- TwoAndInterrupt
SPECIFICATION Spec
PROPERTIES ForeignUnitIsUntouched FailedEnableRestores
