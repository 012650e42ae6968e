------------------------------- MODULE MCUpdater -------------------------------
(* Small instances of Updater for TLC. *)
EXTENDS Updater, TLC

Limits(fail, crash) ==
  [d \in Disturbances |-> CASE d = "fail" -> fail [] d = "crash" -> crash]
OneCrash == Limits(0, 1)
OneOfEach == Limits(1, 1)
None == Limits(0, 0)

Symmetric == Permutations(Pids) \cup Permutations(Releases)
================================================================================
