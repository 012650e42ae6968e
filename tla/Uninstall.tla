------------------------------- MODULE Uninstall -------------------------------
(***************************************************************************)
(* internal/uninstall: "pmm uninstall --yes", which holds the lock from    *)
(* its first step to its last, so nothing else writes meanwhile.           *)
(*                                                                         *)
(*   idle -> delete IPv4 -> delete IPv6 -> verify ->                       *)
(*   check file -> check enabled -> check active ->                        *)
(*   (drop -> remove -> forget ->) data -> binary -> idle                  *)
(* and, after an error before "data", restore IPv4 -> restore IPv6 -> idle *)
(*                                                                         *)
(* What a call of the firewall backend leaves is FamilyOutcomes, which     *)
(* IPTables shows its commands to keep to.  File operations ignore an      *)
(* interrupt; commands run under it fail.                                  *)
(***************************************************************************)
EXTENDS FamilyOutcomes, SystemdUnit, Sequences

CONSTANTS
  RulesOf,     \* the rule sets a family may have been given
  Directories, \* the four directories, in the order they are removed
  Budget       \* how many disturbances of each kind are explored

Disturbances == {"fail", "cancel"}

ASSUME RulesOfAssumption == RulesOf \subseteq SUBSET Rule
ASSUME BudgetAssumption == Budget \in [Disturbances -> Nat]

VARIABLES
  fam,        \* the firewall of each family
  unit,       \* pmm-rules.service
  data,       \* the directories that exist
  binary,     \* "own", "other" (not the program that runs) or "none"
  pc,         \* the next step
  keepData,   \* --keep-data
  before,     \* the snapshot Execute took
  seen,       \* what Check has found of the unit so far
  cancelled,  \* the context is done
  cause,      \* the step whose error is being handled (read by no step)
  start,      \* firewall, unit and budget when the command began (read by no step)
  budget      \* disturbances that may still happen

machine == <<fam, unit, data, binary>>
vars == <<machine, pc, keepData, before, seen, cancelled, cause, start, budget>>

AllDirectories == {Directories[i] : i \in DOMAIN Directories}
Initial == {Absent} \cup {Managed(R) : R \in RulesOf}
Gone == [f \in Families |-> Absent]

Init ==
  /\ fam \in [Families -> Initial]
  /\ unit \in {u \in Unit : Sound(u)}
  /\ data = AllDirectories
  /\ binary \in {"own", "other"}
  /\ pc = "idle" /\ keepData = FALSE /\ before = fam /\ seen = NothingSeen
  /\ cancelled = FALSE /\ cause = "none"
  /\ budget = Budget
  /\ start = [fam |-> fam, unit |-> unit, budget |-> budget]

--------------------------------------------------------------------------------
(* Pieces of steps *)

Spend(d) == budget[d] > 0 /\ budget' = [budget EXCEPT ![d] = @ - 1]

At(step) == pc = step
Keep == UNCHANGED <<keepData, before, seen, start>>
Go(step) == pc' = step /\ Keep /\ UNCHANGED <<cancelled, cause>>
GoBecause(step) == pc' = step /\ cause' = pc /\ Keep /\ UNCHANGED cancelled
Return == pc' = "idle" /\ cancelled' = FALSE /\ Keep /\ UNCHANGED cause
ReturnBecause == pc' = "idle" /\ cancelled' = FALSE /\ cause' = pc /\ Keep

OnlyFamily(f, k) == fam' = [fam EXCEPT ![f] = k] /\ UNCHANGED <<unit, data, binary>>
OnlyUnit(u) == unit' = u /\ UNCHANGED <<fam, data, binary>>

\* One call of the backend that brings family f to a target.
Call(f, target, ok, err) ==
  \/ /\ ~cancelled /\ Readable(fam[f])
     /\ OnlyFamily(f, target) /\ ok /\ UNCHANGED budget
  \/ /\ cancelled \/ ~Readable(fam[f])
     /\ err /\ UNCHANGED <<machine, budget>>
  \/ /\ ~cancelled /\ Readable(fam[f]) /\ Spend("fail")
     /\ \E left \in AfterFailure(fam[f], target) : OnlyFamily(f, left)
     /\ err

\* One systemctl command, or reading both families.
Command(u, ok, err) ==
  \/ ~cancelled /\ OnlyUnit(u) /\ ok /\ UNCHANGED budget
  \/ cancelled /\ err /\ UNCHANGED <<machine, budget>>
  \/ ~cancelled /\ Spend("fail") /\ err /\ UNCHANGED machine

AllReadable == \A f \in Families : Readable(fam[f])

--------------------------------------------------------------------------------
(* Manager.Execute *)

Snapshot ==
  /\ At("idle") /\ binary # "none"
  /\ \/ AllReadable /\ pc' = "delete 4" /\ cause' = "none" /\ UNCHANGED budget
     \/ ~AllReadable /\ pc' = "idle" /\ cause' = "idle" /\ UNCHANGED budget
     \/ Spend("fail") /\ pc' = "idle" /\ cause' = "idle"
  /\ keepData' \in BOOLEAN
  /\ before' = fam /\ seen' = NothingSeen
  /\ start' = [fam |-> fam, unit |-> unit, budget |-> budget]
  /\ UNCHANGED <<machine, cancelled>>

\* DeleteManaged
Delete4 ==
  /\ At("delete 4")
  /\ Call(4, Absent, Go("delete 6"), GoBecause("restore 4"))

Delete6 ==
  /\ At("delete 6")
  /\ Call(6, Absent, Go("verify"), GoBecause("restore 4"))

Verify ==
  /\ At("verify")
  /\ IF AllReadable
       THEN Command(unit, IF fam = Gone THEN Go("check file") ELSE GoBecause("restore 4"),
                    GoBecause("restore 4"))
       ELSE GoBecause("restore 4") /\ UNCHANGED <<machine, budget>>

\* persistence.Check: a file that cannot be read is reported, and passed over by Execute.
CheckFile ==
  /\ At("check file")
  /\ pc' = "check enabled"
  /\ \/ seen' = [NothingSeen EXCEPT !.valid = unit.file = "v6"] /\ UNCHANGED budget
     \/ seen' = NothingSeen /\ Spend("fail")
  /\ UNCHANGED <<machine, keepData, before, cancelled, cause, start>>

\* is-enabled or is-active: one that fails, or that an interrupt stops, reads as "no".
Query(truth, answer) ==
  \/ ~cancelled /\ answer = truth /\ UNCHANGED budget
  \/ cancelled /\ ~answer /\ UNCHANGED budget
  \/ ~cancelled /\ ~answer /\ Spend("fail")

CheckEnabled ==
  /\ At("check enabled")
  /\ pc' = "check active"
  /\ \E answer \in BOOLEAN :
       Query(unit.enabled, answer) /\ seen' = [seen EXCEPT !.enabled = answer]
  /\ UNCHANGED <<machine, keepData, before, cancelled, cause, start>>

\* Mutant: a service that is neither enabled nor active is left.
StepForRunning(status) ==
  IF (status.enabled \/ status.active) /\ ~status.valid THEN "restore 4"
  ELSE IF status.enabled THEN "drop"
  ELSE "data"

\* An enabled or active unit of somebody else stops the command; PMM's is disabled.
StepFor(status) ==
  IF (status.enabled \/ status.active) /\ ~status.valid THEN "restore 4"
  ELSE IF status.valid THEN "drop"
  ELSE "data"

\* The last query, and what Execute makes of the status.
CheckActive ==
  /\ At("check active")
  /\ \E answer \in BOOLEAN :
       LET next == StepFor([seen EXCEPT !.active = answer]) IN
         /\ Query(unit.active, answer)
         /\ IF next = "restore 4" THEN GoBecause(next) ELSE Go(next)
  /\ UNCHANGED machine

\* persistence.Disable, whose own Check ends it when the file cannot be read this time.
Drop ==
  /\ At("drop")
  /\ Command(DisabledNow(unit), Go("remove"), GoBecause("restore 4"))

Remove ==
  /\ At("remove")
  /\ \/ OnlyUnit(WithFile(unit, "none")) /\ Go("forget") /\ UNCHANGED budget
     \/ Spend("fail") /\ GoBecause("restore 4") /\ UNCHANGED machine

Forget ==
  /\ At("forget")
  /\ Command(unit, Go("data"), GoBecause("restore 4"))

\* The first directory that is still there; one that cannot be removed ends the command.
RemoveData ==
  /\ At("data") /\ ~keepData /\ data # {}
  /\ \/ /\ LET first == CHOOSE i \in DOMAIN Directories :
                          /\ Directories[i] \in data
                          /\ \A j \in 1..(i - 1) : Directories[j] \notin data
           IN data' = data \ {Directories[first]}
        /\ Go("data")
        /\ UNCHANGED budget
     \/ Spend("fail") /\ ReturnBecause /\ UNCHANGED data
  /\ UNCHANGED <<fam, unit, binary>>

DataDone ==
  /\ At("data") /\ (keepData \/ data = {})
  /\ Go("binary")
  /\ UNCHANGED <<machine, budget>>

\* removeRunningBinary, which refuses a program that is not the one that runs.
RemoveBinary ==
  /\ At("binary")
  /\ \/ binary = "own" /\ binary' = "none" /\ Return /\ UNCHANGED budget
     \/ binary = "other" /\ ReturnBecause /\ UNCHANGED <<binary, budget>>
     \/ Spend("fail") /\ ReturnBecause /\ UNCHANGED binary
  /\ UNCHANGED <<fam, unit, data>>

--------------------------------------------------------------------------------
(* restoreFirewall: the snapshot's families, IPv4 first *)

\* Mutant: only the IPv4 rules are put back.
RestoreIPv4Only ==
  /\ At("restore 4")
  /\ Call(4, before[4], Return, Return)

Restore4 ==
  /\ At("restore 4")
  /\ Call(4, before[4], Go("restore 6"), Return)

\* Mutant: the cause is lost, and the command goes on.
AfterRestoreForgetful == Go("check file")

\* The cause is returned.
AfterRestore == Return

Restore6 ==
  /\ At("restore 6")
  /\ Call(6, before[6], AfterRestore, Return)

\* An interrupt between two commands; it lasts until the command returns.
Cancel ==
  /\ ~At("idle") /\ ~cancelled
  /\ Spend("cancel")
  /\ cancelled' = TRUE
  /\ UNCHANGED <<machine, pc, keepData, before, seen, cause, start>>

\* An interrupt that kills a command of a backend call.
CancelCall ==
  /\ ~cancelled
  /\ Spend("cancel")
  /\ \E f \in Families :
       LET target == IF At("delete 4") \/ At("delete 6") THEN Absent ELSE before[f] IN
         /\ \/ f = 4 /\ pc \in {"delete 4", "restore 4"}
            \/ f = 6 /\ pc \in {"delete 6", "restore 6"}
         /\ Readable(fam[f])
         /\ \E left \in AfterKillAndMore(fam[f], target) : OnlyFamily(f, left)
  /\ IF pc \in {"delete 4", "delete 6"}
       THEN pc' = "restore 4" /\ cause' = pc /\ cancelled' = TRUE /\ Keep
       ELSE Return

Next ==
  \/ Snapshot \/ Delete4 \/ Delete6 \/ Verify
  \/ CheckFile \/ CheckEnabled \/ CheckActive
  \/ Drop \/ Remove \/ Forget \/ RemoveData \/ DataDone \/ RemoveBinary
  \/ Restore4 \/ Restore6
  \/ Cancel \/ CancelCall

Spec == Init /\ [][Next]_vars

--------------------------------------------------------------------------------

Steps == {"idle", "delete 4", "delete 6", "verify", "check file", "check enabled",
          "check active", "drop", "remove", "forget", "data", "binary", "restore 4", "restore 6"}

Cleared == {"check file", "check enabled", "check active", "drop", "remove", "forget", "data",
            "binary"}

\* Types; a step past the verification has no firewall of PMM before it.
TypeOK ==
  /\ fam \in [Families -> FamilyState] /\ before \in [Families -> FamilyState]
  /\ unit \in Unit /\ seen \in Status
  /\ data \subseteq AllDirectories /\ binary \in {"own", "other", "none"}
  /\ pc \in Steps /\ cause \in Steps \cup {"none"}
  /\ pc \in Cleared => fam = Gone
  /\ keepData \in BOOLEAN /\ cancelled \in BOOLEAN
  /\ budget \in [Disturbances -> Nat]

\* While any rule or half-removed chain of PMM is in the firewall, the database, the
\* backups and the program that could remove it are there.
RemainsKeepTheirProgram ==
  fam # Gone => data = AllDirectories /\ binary # "none"

\* What has gone wrong in this command.
Spent(d) == start.budget[d] - budget[d]

Excused ==
  /\ Spent("fail") >= 1
  /\ unit.enabled \/ unit.active => Spent("fail") + Spent("cancel") >= 2
  /\ unit.enabled /\ unit.active /\ Spent("cancel") = 0 => Spent("fail") >= 3

\* PMM's unit outlives the program only if its file could not be read; and one that would
\* be started at boot, or still is active, only if the queries that would have told were
\* failed or interrupted as well.
NoServiceWithoutProgram == binary = "none" /\ unit.file = "v6" => Excused

\* README.md:185: an uninstall removes the unit that is exactly PMM's.
ServiceGoesFirst == unit.file = "v6" => binary # "none"

MustRestore ==
  \/ cause \in {"verify", "drop", "remove", "forget"}
  \/ cause = "check active" /\ budget'["fail"] = start.budget["fail"]

\* An error after the firewall was removed puts every rule back, when it is the only one
\* and nobody interrupts; a refusal because of the service does, when nothing fails.
LateErrorRestoresRules ==
  [][/\ pc' = "idle" /\ MustRestore
     /\ budget'["fail"] >= start.budget["fail"] - 1
     /\ budget'["cancel"] = start.budget["cancel"]
     => fam' = start.fam]_vars

\* What uninstall_test.go:19-29 expects: a failing DeleteManaged restores the firewall.
DeleteFailureRestoresFirewall ==
  [][pc' = "idle" /\ cause \in {"delete 4", "delete 6"} => fam' = start.fam]_vars

\* What README.md:12 says of every write, that a failure is rolled back: with the rules
\* comes back the service that restores them at boot.
ServiceComesBack ==
  [][pc = "restore 6" /\ pc' = "idle" /\ fam' = start.fam => unit' = start.unit]_vars
================================================================================
