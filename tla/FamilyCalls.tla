------------------------------ MODULE FamilyCalls ------------------------------
(***************************************************************************)
(* One family's NAT table as the transaction manager sees it: backend      *)
(* calls one after the other, each with a target and with the trouble it   *)
(* met, each leaving what FamilyOutcomes allows.                           *)
(***************************************************************************)
EXTENDS FamilyOutcomes

VARIABLES
  family,  \* what snapshotFamily finds between calls
  last     \* target and trouble of the last call

NoTrouble == [fails |-> 0, killed |-> FALSE, crashed |-> FALSE]

\* What a call may leave behind.  A second failure hits the deferred cleanup and is
\* no better than a crash.
Leaves(k, target, trouble) ==
  IF ~Readable(k) THEN {k}
  ELSE IF trouble.killed /\ (trouble.crashed \/ trouble.fails > 0)
    THEN AfterKillAndMore(k, target)
  ELSE IF trouble.killed THEN AfterKill(k, target)
  ELSE IF trouble.crashed \/ trouble.fails > 1 THEN AfterCrash(k, target)
  ELSE IF trouble.fails = 1 THEN AfterFailure(k, target)
  ELSE {target}

Init == family = Absent /\ last = [target |-> Absent, trouble |-> NoTrouble]

Call == family' \in Leaves(family, last'.target, last'.trouble)

Spec == Init /\ [][Call]_<<family, last>>
================================================================================
