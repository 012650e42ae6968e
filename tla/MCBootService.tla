----------------------------- MODULE MCBootService -----------------------------
(* Small instances of BootService for TLC. *)
EXTENDS BootService

Limits(fail, cancel) ==
  [d \in Disturbances |-> CASE d = "fail" -> fail [] d = "cancel" -> cancel]
TwoAndInterrupt == Limits(2, 1)
================================================================================
