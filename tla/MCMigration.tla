------------------------------ MODULE MCMigration ------------------------------
(* Small instances of Migration for TLC. *)
EXTENDS Migration

Limits(fail, crash) ==
  [d \in Disturbances |-> CASE d = "fail" -> fail [] d = "crash" -> crash]
Quiet == Limits(0, 0)
OneFailure == Limits(1, 0)
FailuresAndCrash == Limits(2, 1)

\* v5 knew no rule, one, or two in either order.
Lists == {<<>>, <<"a">>, <<"a", "b">>, <<"b", "a">>}
FirstTime == {{}}
Again == {{}, {"c"}}
================================================================================
