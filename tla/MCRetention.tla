----------------------------- MODULE MCRetention -----------------------------
(* Small instances of Retention for TLC. *)
EXTENDS Retention

\* A full directory, written before the first command starts.
TwoOld == {[at |-> t, by |-> 0] : t \in 1..2}

Limits(fail, crash, back) ==
  [d \in Disturbances |->
     CASE d = "fail" -> fail [] d = "crash" -> crash [] d = "back" -> back]
OneOfEach == Limits(1, 1, 1)
ClockSetBack == Limits(0, 0, 1)
================================================================================
