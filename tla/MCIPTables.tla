------------------------------ MODULE MCIPTables ------------------------------
(* Small instances of IPTables for TLC. *)
EXTENDS IPTables, TLC

Key(lo) == [ip |-> 4, proto |-> "tcp", lo |-> lo, hi |-> lo, to |-> 9]
MCKeys == {Key(1), Key(2)}
RuleFor(lo) == [id |-> Key(lo), key |-> Key(lo)]

\* Going from one to another adds, removes and replaces rules.
Applied == {Managed({}), Managed({RuleFor(1)}), Managed({RuleFor(1), RuleFor(2)})}
MCTargets == Applied \cup {Absent}

Limits(fail, cancel, crash) ==
  [d \in Disturbances |->
     CASE d = "fail" -> fail [] d = "cancel" -> cancel [] d = "crash" -> crash]
TwoFailures == Limits(2, 0, 0)
Everything == Limits(1, 1, 1)
OneCrash == Limits(0, 0, 1)
OneInterrupt == Limits(0, 1, 0)

Symmetric == Permutations(Chains)
================================================================================
