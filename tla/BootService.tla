------------------------------ MODULE BootService ------------------------------
(***************************************************************************)
(* internal/persistence: enabling and disabling the unit that restores the *)
(* committed rules at boot, command by command, with failing commands and  *)
(* an interrupt.  One command runs after the other.                        *)
(*                                                                         *)
(*   Enable:  idle -> check enabled -> check active -> read ->             *)
(*            write -> reload -> enable -> start -> idle                   *)
(*            and after an error past "write",                             *)
(*            undo file -> undo reload -> undo enable -> undo active       *)
(*   Disable: idle -> drop -> remove -> forget -> idle                     *)
(***************************************************************************)
EXTENDS SystemdUnit, Naturals

CONSTANT Budget   \* how many disturbances of each kind are explored

Disturbances == {"fail", "cancel"}

ASSUME BudgetAssumption == Budget \in [Disturbances -> Nat]

VARIABLES
  unit,       \* pmm-rules.service
  pc,         \* the next command
  before,     \* what Enable's Check has seen so far, with the file it read
  cancelled,  \* the context is done
  failures,   \* how much failed in this call (read by no step)
  start,      \* the unit when the call began (read by no step)
  result,     \* what the last call reported
  budget      \* disturbances that may still happen

vars == <<unit, pc, before, cancelled, failures, start, result, budget>>

Init ==
  /\ unit \in {u \in Unit : Sound(u)}
  /\ pc = "idle" /\ before = NoUnit /\ cancelled = FALSE
  /\ failures = 0 /\ start = NoUnit
  /\ result = "none"
  /\ budget = Budget

Spend(d) == budget[d] > 0 /\ budget' = [budget EXCEPT ![d] = @ - 1]

At(step) == pc = step
Go(step) == pc' = step /\ UNCHANGED <<before, cancelled, start, result>>
End(res) ==
  /\ pc' = "idle" /\ result' = res
  /\ before' = NoUnit /\ start' = NoUnit /\ cancelled' = FALSE
Calm == UNCHANGED <<failures, budget>>
Fail == Spend("fail") /\ failures' = failures + 1

\* One systemctl command: its effect, then ok; or an error and then err.
Systemctl(possible, u, ok, err) ==
  \/ ~cancelled /\ possible /\ unit' = u /\ ok /\ Calm
  \/ (cancelled \/ ~possible) /\ err /\ UNCHANGED unit /\ Calm
  \/ ~cancelled /\ Fail /\ err /\ UNCHANGED unit

\* One file operation, which no interrupt stops.
FileOperation(u, ok, err) ==
  \/ unit' = u /\ ok /\ Calm
  \/ Fail /\ err /\ UNCHANGED unit

--------------------------------------------------------------------------------
(* Enable *)

\* Mutant: a unit of the same name is taken over.
AnyFile(u) == TRUE

OwnText(text) == text \in {"none", "v6"}

\* There is no file, or it is exactly PMM's.
OwnFile(u) == OwnText(u.file)

\* Check, whose look at the file Enable does not use.
Enable ==
  /\ At("idle")
  /\ pc' = "check enabled"
  /\ start' = unit
  /\ failures' = 0
  /\ UNCHANGED <<unit, before, cancelled, result, budget>>

\* is-enabled or is-active: one that fails, or that an interrupt stops, reads as "no".
Query(truth, answer) ==
  \/ ~cancelled /\ answer = truth /\ Calm
  \/ cancelled /\ ~answer /\ Calm
  \/ ~cancelled /\ ~answer /\ Fail

CheckEnabled ==
  /\ At("check enabled")
  /\ pc' = "check active"
  /\ \E answer \in BOOLEAN :
       Query(unit.enabled, answer) /\ before' = [before EXCEPT !.enabled = answer]
  /\ UNCHANGED <<unit, cancelled, start, result>>

CheckActive ==
  /\ At("check active")
  /\ pc' = "read"
  /\ \E answer \in BOOLEAN :
       Query(unit.active, answer) /\ before' = [before EXCEPT !.active = answer]
  /\ UNCHANGED <<unit, cancelled, start, result>>

\* A file that cannot be read, or that is not exactly PMM's, ends the call.
ReadFile ==
  /\ At("read")
  /\ \/ /\ OwnFile(unit) /\ Calm
        /\ pc' = "write" /\ before' = WithFile(before, unit.file)
        /\ UNCHANGED <<cancelled, start, result>>
     \/ ~OwnFile(unit) /\ End("error") /\ Calm
     \/ Fail /\ End("error")
  /\ UNCHANGED unit

Write ==
  /\ At("write")
  /\ FileOperation(WithFile(unit, "v6"), Go("reload"), End("error"))

Reload ==
  /\ At("reload")
  /\ Systemctl(TRUE, unit, Go("enable"), Go("undo file"))

SetEnabled ==
  /\ At("enable")
  /\ Systemctl(Startable(unit), Enabled(unit), Go("start"), Go("undo file"))

\* Starting the unit runs "pmm system restore", which may fail.
SetActive ==
  /\ At("start")
  /\ Systemctl(Startable(unit), Started(unit), End("ok"), Go("undo file"))

--------------------------------------------------------------------------------
(* rollbackUnit: every command is tried, errors are collected *)

UndoFile ==
  /\ At("undo file")
  /\ FileOperation(WithFile(unit, before.file), Go("undo reload"), Go("undo reload"))

\* Mutant: the unit stays enabled.
UndoneEnabling == "undo active"

AfterReload == IF before.enabled THEN "undo active" ELSE "undo enable"

UndoReload ==
  /\ At("undo reload")
  /\ Systemctl(TRUE, unit, Go(AfterReload), Go(AfterReload))

UndoEnable ==
  /\ At("undo enable")
  /\ Systemctl(TRUE, Disabled(unit), Go("undo active"), Go("undo active"))

UndoActive ==
  /\ At("undo active")
  /\ IF before.active
       THEN Systemctl(Startable(unit), Started(unit), End("error"), End("error"))
       ELSE Systemctl(TRUE, Stopped(unit), End("error"), End("error"))

--------------------------------------------------------------------------------
(* Disable *)

\* Check, of which Disable uses the file alone; one it cannot read is not PMM's.
Disable ==
  /\ At("idle")
  /\ start' = unit
  /\ \/ /\ unit.file = "v6"
        /\ pc' = "drop" /\ failures' = 0 /\ UNCHANGED <<result, budget>>
     \/ /\ unit.file # "v6"
        /\ pc' = "idle" /\ result' = "error" /\ failures' = 0 /\ UNCHANGED budget
     \/ Spend("fail") /\ failures' = 1 /\ pc' = "idle" /\ result' = "error"
  /\ UNCHANGED <<unit, before, cancelled>>

Drop ==
  /\ At("drop")
  /\ Systemctl(TRUE, DisabledNow(unit), Go("remove"), End("error"))

Remove ==
  /\ At("remove")
  /\ FileOperation(WithFile(unit, "none"), Go("forget"), End("error"))

Forget ==
  /\ At("forget")
  /\ Systemctl(TRUE, unit, End("off"), End("error"))

\* An interrupt; it lasts until the command returns.
Cancel ==
  /\ ~At("idle") /\ ~cancelled
  /\ Spend("cancel")
  /\ cancelled' = TRUE
  /\ UNCHANGED <<unit, pc, before, failures, start, result>>

Next ==
  \/ Enable \/ CheckEnabled \/ CheckActive \/ ReadFile
  \/ Write \/ Reload \/ SetEnabled \/ SetActive
  \/ UndoFile \/ UndoReload \/ UndoEnable \/ UndoActive
  \/ Disable \/ Drop \/ Remove \/ Forget
  \/ Cancel

Spec == Init /\ [][Next]_vars

--------------------------------------------------------------------------------

\* Types; a rollback only ever rewrites PMM's own text.
TypeOK ==
  /\ unit \in Unit /\ before \in Unit /\ start \in Unit
  /\ OwnText(before.file)
  /\ pc \in {"idle", "check enabled", "check active", "read", "write", "reload", "enable",
             "start", "undo file", "undo reload", "undo enable", "undo active", "drop",
             "remove", "forget"}
  /\ cancelled \in BOOLEAN /\ failures \in Nat
  /\ result \in {"none", "ok", "off", "error"}
  /\ budget \in [Disturbances -> Nat]

\* A unit file somebody else wrote is never touched, nor its enablement.
ForeignUnitIsUntouched == [][unit.file = "other" => unit' = unit]_vars

\* Enable that reports an error, after one failing command and no interrupt, leaves unit
\* file, enablement and activity as it found them, whatever became of earlier calls.
FailedEnableRestores ==
  [][/\ pc' = "idle" /\ pc \in {"write", "undo active"}
     /\ failures' <= 1 /\ ~cancelled
     => unit' = start]_vars
================================================================================
