------------------------------ MODULE MCUninstall ------------------------------
(* Small instances of Uninstall for TLC. *)
EXTENDS Uninstall

Limits(fail, cancel) ==
  [d \in Disturbances |-> CASE d = "fail" -> fail [] d = "cancel" -> cancel]
OneFailure == Limits(1, 0)
FailuresAndInterrupt == Limits(3, 1)

Some == [ip |-> 4, proto |-> "udp", lo |-> 1, hi |-> 2, to |-> 9]
OneKey == {Some}
NoneOrOne == {{}, {[id |-> Some, key |-> Some]}}
TheDirectories == <<"state", "log", "run", "config">>
================================================================================
