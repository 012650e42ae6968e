---------------------------- MODULE UninstallProofs ----------------------------
(* What an uninstall never leaves behind, and what it puts back after an error, for     *)
(* every firewall, unit, list of directories and number of disturbances.                *)
EXTENDS Uninstall, TLAPS

\* The steps after which the snapshot may still be put back.
Undoable == {"delete 4", "delete 6", "verify", "check file", "check enabled", "check active",
             "drop", "remove", "forget", "restore 4", "restore 6"}

\* Something is gone that an uninstall keeps as long as the firewall has something.
Spoiled == data # AllDirectories \/ binary = "none"

Types ==
  /\ fam \in [Families -> FamilyState] /\ before \in [Families -> FamilyState]
  /\ unit \in Unit
  /\ pc \in Steps

\* The firewall is clear past the verification; once something is gone it stays clear,
\* because the snapshot that could be put back is clear too.
FirewallFirst ==
  /\ pc \in Cleared => fam = Gone
  /\ Spoiled => fam = Gone
  /\ Spoiled /\ pc \in Undoable => before = Gone

\* The unit file is gone when systemd is told, and the program goes last.
ServiceFirst ==
  /\ pc = "forget" => unit.file = "none"
  /\ binary = "none" => pc = "idle"

IInv == Types /\ FirewallFirst /\ ServiceFirst

--------------------------------------------------------------------------------

\* What a backend call leaves is a state of a family.
LEMMA OutcomesAreStates ==
  ASSUME NEW k \in FamilyState, NEW target \in FamilyState
  PROVE  /\ AfterFailure(k, target) \subseteq FamilyState
         /\ AfterKillAndMore(k, target) \subseteq FamilyState
         /\ Absent \in FamilyState
BY DEF AfterFailure, AfterKillAndMore, AfterKill, AfterCrash, Only, Absent, Drift, Managed,
       FamilyState

\* A backend call that removes nothing from a family leaves it as it is.
LEMMA AbsentStaysAbsent ==
  /\ AfterFailure(Absent, Absent) = {Absent}
  /\ AfterKillAndMore(Absent, Absent) = {Absent}
BY DEF AfterFailure, AfterKillAndMore, AfterKill, AfterCrash, Only, Absent, Managed

LEMMA InitIInv == Init => IInv
<1> SUFFICES ASSUME Init PROVE IInv
  OBVIOUS
<1>1. Initial \subseteq FamilyState
  BY RulesOfAssumption DEF Initial, Absent, Managed, FamilyState
<1> QED
  BY <1>1 DEF Init, IInv, Types, FirewallFirst, ServiceFirst, Spoiled, Steps, Cleared, Undoable

\* What a call of the backend may make of a family.
Outcomes(f, target) ==
  {target} \cup AfterFailure(fam[f], target) \cup AfterKillAndMore(fam[f], target)

\* A backend call that removes whatever has to stay removed.
LEMMA CallStep ==
  ASSUME IInv, NEW f \in Families, NEW target \in FamilyState,
         \/ UNCHANGED machine
         \/ \E left \in Outcomes(f, target) : OnlyFamily(f, left),
         Spoiled => target = Absent
  PROVE  /\ fam' \in [Families -> FamilyState]
         /\ Spoiled => fam' = Gone
         /\ Spoiled' = Spoiled
         /\ UNCHANGED <<unit, data, binary>>
<1>1. /\ fam' = fam \/ \E left \in Outcomes(f, target) : fam' = [fam EXCEPT ![f] = left]
      /\ UNCHANGED <<unit, data, binary>>
  BY DEF OnlyFamily, machine
<1>2. Outcomes(f, target) \subseteq FamilyState
  BY OutcomesAreStates DEF IInv, Types, Outcomes
<1>3. Spoiled => Outcomes(f, target) = {Absent} /\ fam = Gone
  <2>1. Spoiled => fam = Gone /\ fam[f] = Absent
    BY DEF IInv, FirewallFirst, Gone
  <2> QED
    BY <2>1, AbsentStaysAbsent DEF Outcomes
<1>4. Spoiled' = Spoiled
  BY <1>1 DEF Spoiled
<1>5. fam' \in [Families -> FamilyState]
  BY <1>1, <1>2 DEF IInv, Types
<1>6. Spoiled => fam' = Gone
  BY <1>1, <1>3 DEF Gone
<1> QED
  BY <1>1, <1>4, <1>5, <1>6

LEMMA NextIInv == IInv /\ [Next]_vars => IInv'
<1> USE DEF IInv, Types, FirewallFirst, ServiceFirst
<1> SUFFICES ASSUME IInv, [Next]_vars PROVE IInv'
  OBVIOUS
<1>1. CASE Snapshot
  BY <1>1 DEF Snapshot, machine, Spoiled, Steps, Cleared, Undoable
<1>2. CASE Delete4
  <2>1. Absent \in FamilyState /\ 4 \in Families
    BY OutcomesAreStates DEF Families, Absent, FamilyState
  <2>2. /\ fam' \in [Families -> FamilyState] /\ (Spoiled => fam' = Gone)
        /\ Spoiled' = Spoiled /\ UNCHANGED <<unit, data, binary>>
    <3>1. \/ UNCHANGED machine
          \/ \E left \in Outcomes(4, Absent) : OnlyFamily(4, left)
      BY <1>2 DEF Delete4, Call, Outcomes
    <3> QED
      BY <3>1, <2>1, CallStep
  <2>3. pc = "delete 4" /\ pc' \in {"delete 6", "restore 4"} /\ before' = before
    BY <1>2 DEF Delete4, At, Call, Go, GoBecause, Keep
  <2> QED
    BY <2>2, <2>3 DEF Steps, Cleared, Undoable
<1>3. CASE Delete6
  <2>1. Absent \in FamilyState /\ 6 \in Families
    BY OutcomesAreStates DEF Families, Absent, FamilyState
  <2>2. /\ fam' \in [Families -> FamilyState] /\ (Spoiled => fam' = Gone)
        /\ Spoiled' = Spoiled /\ UNCHANGED <<unit, data, binary>>
    <3>1. \/ UNCHANGED machine
          \/ \E left \in Outcomes(6, Absent) : OnlyFamily(6, left)
      BY <1>3 DEF Delete6, Call, Outcomes
    <3> QED
      BY <3>1, <2>1, CallStep
  <2>3. pc = "delete 6" /\ pc' \in {"verify", "restore 4"} /\ before' = before
    BY <1>3 DEF Delete6, At, Call, Go, GoBecause, Keep
  <2> QED
    BY <2>2, <2>3 DEF Steps, Cleared, Undoable
<1>4. CASE Verify
  <2>1. /\ UNCHANGED <<fam, unit, data, binary, before>>
        /\ pc = "verify" /\ pc' \in {"check file", "restore 4"}
        /\ pc' = "check file" => fam = Gone
    BY <1>4 DEF Verify, At, Command, OnlyUnit, Go, GoBecause, Keep, machine
  <2> QED
    BY <2>1 DEF Spoiled, Steps, Cleared, Undoable
<1>5. CASE CheckFile \/ CheckEnabled \/ CheckActive
  <2>1. /\ UNCHANGED <<machine, before>>
        /\ pc \in {"check file", "check enabled", "check active"}
        /\ pc' \in {"check enabled", "check active", "drop", "data", "restore 4"}
    BY <1>5 DEF CheckFile, CheckEnabled, CheckActive, StepFor, At, Go, GoBecause, Keep
  <2> QED
    BY <2>1 DEF machine, Spoiled, Steps, Cleared, Undoable
<1>6. CASE Drop
  <2>1. /\ unit' \in {unit, DisabledNow(unit)} /\ UNCHANGED <<fam, data, binary, before>>
        /\ pc = "drop" /\ pc' \in {"remove", "restore 4"}
    BY <1>6 DEF Drop, At, Command, OnlyUnit, Go, GoBecause, Keep, machine
  <2>2. unit' \in Unit
    BY <2>1 DEF Unit, DisabledNow, Disabled, Stopped
  <2> QED
    BY <2>1, <2>2 DEF Spoiled, Steps, Cleared, Undoable
<1>7. CASE Remove
  <2>1. /\ UNCHANGED <<fam, data, binary, before>> /\ pc = "remove"
        /\ \/ pc' = "forget" /\ unit' = WithFile(unit, "none")
           \/ pc' = "restore 4" /\ unit' = unit
    BY <1>7 DEF Remove, At, OnlyUnit, Go, GoBecause, Keep, machine
  <2>2. WithFile(unit, "none") \in Unit /\ WithFile(unit, "none").file = "none"
    BY DEF Unit, WithFile, Texts
  <2> QED
    BY <2>1, <2>2 DEF Spoiled, Steps, Cleared, Undoable
<1>8. CASE Forget
  <2>1. /\ UNCHANGED <<fam, unit, data, binary, before>>
        /\ pc = "forget" /\ pc' \in {"data", "restore 4"}
    BY <1>8 DEF Forget, At, Command, OnlyUnit, Go, GoBecause, Keep, machine
  <2> QED
    BY <2>1 DEF Spoiled, Steps, Cleared, Undoable
<1>9. CASE RemoveData
  <2>1. /\ UNCHANGED <<fam, unit, binary, before>>
        /\ pc = "data" /\ pc' \in {"data", "idle"}
    BY <1>9 DEF RemoveData, At, Go, ReturnBecause, Keep
  <2> QED
    BY <2>1 DEF Spoiled, Steps, Cleared, Undoable
<1>10. CASE DataDone
  BY <1>10 DEF DataDone, At, Go, Keep, machine, Spoiled, Steps, Cleared, Undoable
<1>11. CASE RemoveBinary
  <2>1. /\ UNCHANGED <<fam, unit, data, before>>
        /\ pc = "binary" /\ pc' = "idle"
    BY <1>11 DEF RemoveBinary, At, Return, ReturnBecause, Keep
  <2> QED
    BY <2>1 DEF Spoiled, Steps, Cleared, Undoable
<1>12. CASE Restore4
  <2>1. pc = "restore 4" /\ pc' \in {"restore 6", "idle"} /\ before' = before
    BY <1>12 DEF Restore4, At, Call, Go, Return, Keep
  <2>2. before[4] \in FamilyState /\ 4 \in Families /\ (Spoiled => before[4] = Absent)
    BY <2>1 DEF Families, Undoable, Gone
  <2>3. /\ fam' \in [Families -> FamilyState] /\ (Spoiled => fam' = Gone)
        /\ Spoiled' = Spoiled /\ UNCHANGED <<unit, data, binary>>
    <3>1. \/ UNCHANGED machine
          \/ \E left \in Outcomes(4, before[4]) : OnlyFamily(4, left)
      BY <1>12 DEF Restore4, Call, Outcomes
    <3> QED
      BY <3>1, <2>2, CallStep
  <2> QED
    BY <2>1, <2>3 DEF Steps, Cleared, Undoable
<1>13. CASE Restore6
  <2>1. pc = "restore 6" /\ pc' = "idle" /\ before' = before
    BY <1>13 DEF Restore6, At, Call, AfterRestore, Return, Keep
  <2>2. before[6] \in FamilyState /\ 6 \in Families /\ (Spoiled => before[6] = Absent)
    BY <2>1 DEF Families, Undoable, Gone
  <2>3. /\ fam' \in [Families -> FamilyState] /\ (Spoiled => fam' = Gone)
        /\ Spoiled' = Spoiled /\ UNCHANGED <<unit, data, binary>>
    <3>1. \/ UNCHANGED machine
          \/ \E left \in Outcomes(6, before[6]) : OnlyFamily(6, left)
      BY <1>13 DEF Restore6, Call, Outcomes
    <3> QED
      BY <3>1, <2>2, CallStep
  <2> QED
    BY <2>1, <2>3 DEF Steps, Cleared, Undoable
<1>14. CASE Cancel
  BY <1>14 DEF Cancel, machine, Spoiled, Steps, Cleared, Undoable
<1>15. CASE CancelCall
  <2>1. /\ pc \in {"delete 4", "delete 6", "restore 4", "restore 6"}
        /\ pc' \in {"restore 4", "idle"} /\ before' = before
    BY <1>15 DEF CancelCall, At, Return, Keep
  <2>2. PICK f \in Families :
          \E target \in {Absent, before[f]} :
            \E left \in Outcomes(f, target) : OnlyFamily(f, left)
    BY <1>15 DEF CancelCall, At, Outcomes
  <2>3. PICK target \in {Absent, before[f]} :
          \E left \in Outcomes(f, target) : OnlyFamily(f, left)
    BY <2>2
  <2>4. target \in FamilyState /\ (Spoiled => target = Absent)
    BY <2>1, <2>2, <2>3, OutcomesAreStates DEF Undoable, Gone, Absent, FamilyState
  <2>5. /\ fam' \in [Families -> FamilyState] /\ (Spoiled => fam' = Gone)
        /\ Spoiled' = Spoiled /\ UNCHANGED <<unit, data, binary>>
    BY <2>2, <2>3, <2>4, CallStep
  <2> QED
    BY <2>1, <2>5 DEF Steps, Cleared, Undoable
<1>16. CASE UNCHANGED vars
  BY <1>16 DEF vars, machine, Spoiled, Steps, Cleared, Undoable
<1> QED
  BY <1>1, <1>2, <1>3, <1>4, <1>5, <1>6, <1>7, <1>8, <1>9, <1>10, <1>11, <1>12, <1>13,
     <1>14, <1>15, <1>16 DEF Next

\* While any rule or half-removed chain of PMM is in the firewall, an uninstall has taken
\* neither data nor program (uninstall.go:57-86), whatever fails or interrupts it.
THEOREM NothingStranded == Spec => []RemainsKeepTheirProgram
<1>1. IInv => RemainsKeepTheirProgram
  BY DEF IInv, FirewallFirst, Spoiled, RemainsKeepTheirProgram
<1> QED
  BY <1>1, InitIInv, NextIInv, PTL DEF Spec

--------------------------------------------------------------------------------
(* Types *)

\* The variables IInv says nothing of.
OtherTypes ==
  /\ data \subseteq AllDirectories /\ binary \in {"own", "other", "none"}
  /\ cause \in Steps \cup {"none"} /\ seen \in Status
  /\ keepData \in BOOLEAN /\ cancelled \in BOOLEAN
  /\ budget \in [Disturbances -> Nat]

LEMMA SpendOK ==
  ASSUME budget \in [Disturbances -> Nat], NEW d \in Disturbances, Spend(d)
  PROVE  budget' \in [Disturbances -> Nat]
BY DEF Spend

LEMMA InitOtherTypes == Init => OtherTypes
<1> SUFFICES ASSUME Init PROVE OtherTypes
  OBVIOUS
<1>1. seen \in Status
  BY DEF Init, Status, NothingSeen
<1>2. budget \in [Disturbances -> Nat]
  BY BudgetAssumption DEF Init
<1> QED
  BY <1>1, <1>2 DEF Init, OtherTypes

LEMMA OtherTypesStep == pc \in Steps /\ OtherTypes /\ [Next]_vars => OtherTypes'
<1> SUFFICES ASSUME pc \in Steps, OtherTypes, [Next]_vars PROVE OtherTypes'
  OBVIOUS
<1> USE DEF OtherTypes, Steps, machine
<1>1. ASSUME NEW d \in Disturbances, Spend(d) PROVE budget' \in [Disturbances -> Nat]
  BY <1>1, SpendOK
<1>2. "fail" \in Disturbances /\ "cancel" \in Disturbances
  BY DEF Disturbances
<1> USE <1>1, <1>2 DEF Go, GoBecause, Return, ReturnBecause, Keep, OnlyUnit, OnlyFamily
<1>3. CASE Snapshot
  BY <1>3 DEF Snapshot, Status, NothingSeen
<1>4. CASE Delete4 \/ Delete6
  BY <1>4 DEF Delete4, Delete6, Call
<1>5. CASE Verify \/ Drop \/ Forget
  <2>1. CASE Verify
    <3>1. CASE AllReadable
      <4>1. GoBecause("restore 4") \/ Go("check file")
        BY <2>1, <3>1 DEF Verify, Command
      <4>2. UNCHANGED budget \/ Spend("fail")
        BY <2>1, <3>1 DEF Verify, Command
      <4>3. UNCHANGED <<data, binary>>
        BY <2>1, <3>1 DEF Verify, Command
      <4> QED
        BY <4>1, <4>2, <4>3
    <3>2. CASE ~AllReadable
      BY <2>1, <3>2 DEF Verify
    <3> QED
      BY <3>1, <3>2
  <2>2. CASE Drop BY <2>2 DEF Drop, Command
  <2>3. CASE Forget BY <2>3 DEF Forget, Command
  <2> QED BY <1>5, <2>1, <2>2, <2>3
<1>6. CASE CheckFile \/ CheckEnabled \/ CheckActive
  <2>1. (UNCHANGED budget \/ Spend("fail")) /\ UNCHANGED <<data, binary, keepData, cancelled>>
    BY <1>6 DEF CheckFile, CheckEnabled, CheckActive, Query
  <2>2. cause' \in {cause, pc}
    BY <1>6 DEF CheckFile, CheckEnabled, CheckActive
  <2>3. seen' \in Status
    <3>1. CASE CheckFile
      <4>1. NothingSeen \in Status /\ \A b \in BOOLEAN : [NothingSeen EXCEPT !.valid = b] \in Status
        BY DEF NothingSeen, Status
      <4> QED
        BY <3>1, <4>1 DEF CheckFile
    <3>2. CASE CheckEnabled
      BY <3>2 DEF CheckEnabled, Status
    <3>3. CASE CheckActive
      BY <3>3 DEF CheckActive
    <3> QED
      BY <1>6, <3>1, <3>2, <3>3
  <2> QED
    BY <2>1, <2>2, <2>3
<1>7. CASE Remove \/ RemoveData \/ DataDone \/ RemoveBinary
  BY <1>7 DEF Remove, RemoveData, DataDone, RemoveBinary
<1>8. CASE Restore4 \/ Restore6
  BY <1>8 DEF Restore4, Restore6, Call, AfterRestore
<1>9. CASE Cancel \/ CancelCall
  BY <1>9 DEF Cancel, CancelCall
<1>10. CASE UNCHANGED vars
  BY <1>10 DEF vars
<1> QED
  BY <1>3, <1>4, <1>5, <1>6, <1>7, <1>8, <1>9, <1>10 DEF Next

\* The types of all variables, and that a step past the verification has no firewall of
\* PMM before it (uninstall.go:60-67).
THEOREM UninstallTypes == Spec => []TypeOK
<1>1. Init => OtherTypes
  BY InitOtherTypes
<1>2. IInv /\ OtherTypes => TypeOK
  BY DEF IInv, Types, FirewallFirst, OtherTypes, TypeOK, Cleared
<1>3. IInv => pc \in Steps
  BY DEF IInv, Types
<1> QED
  BY <1>1, <1>2, <1>3, InitIInv, NextIInv, OtherTypesStep, PTL DEF Spec

--------------------------------------------------------------------------------
(* What a late error leaves *)

\* The errors of the command so far, and whether nobody has interrupted it.
Errors == start.budget["fail"] - budget["fail"]
Quiet == budget["cancel"] = start.budget["cancel"]

Forward == {"delete 4", "delete 6", "verify", "check file", "check enabled", "check active",
            "drop", "remove", "forget", "data", "binary"}
Late == {"verify", "drop", "remove", "forget"}

\* No step can fail any more without the theorem's leave.
Bearable ==
  /\ Quiet
  /\ \/ cause \in Late /\ Errors <= 1
     \/ cause = "check active" /\ Errors = 0

\* What the command counts against.
Counts ==
  /\ start.budget \in [Disturbances -> Nat]
  /\ \A d \in Disturbances : budget[d] <= start.budget[d]
  /\ cancelled => pc # "idle" /\ ~Quiet
  /\ pc \in Forward => cause = "none"
  /\ pc \in {"restore 4", "restore 6"} /\ Quiet /\ cause \in Late => Errors >= 1

\* The snapshot is what was there, and can be put back.
SnapshotHolds ==
  pc # "idle" => before = start.fam /\ \A f \in Families : Readable(before[f])

\* The families that are removed, and those that have been put back.
Restoration ==
  /\ pc \in {"delete 6", "verify"} => fam[4] = Absent
  /\ pc = "verify" => fam[6] = Absent
  /\ Bearable =>
       /\ pc = "restore 4" => fam = Gone
       /\ pc = "restore 6" => fam[4] = before[4] /\ fam[6] = Absent
       /\ pc = "idle" => fam = start.fam

LInv == Counts /\ SnapshotHolds /\ Restoration

LEMMA Squeezed ==
  ASSUME NEW b \in Nat, NEW s \in Nat
  PROVE  /\ b >= s - 1 => s - b <= 1
         /\ b = s => s - b = 0
         /\ b <= s /\ (s = b \/ s = b - 1) => b = s
OBVIOUS

LEMMA OneMore ==
  ASSUME NEW e \in Nat
  PROVE  /\ e + 1 # 0
         /\ e >= 1 => e + 1 >= 1 /\ ~(e + 1 <= 1)
OBVIOUS

\* An error counts, and so does an interrupt.
LEMMA BudgetSteps ==
  ASSUME OtherTypes, Counts, UNCHANGED start
  PROVE  /\ Errors \in Nat
         /\ UNCHANGED budget => /\ Errors' = Errors /\ (Quiet' <=> Quiet)
                                /\ \A d \in Disturbances : budget'[d] <= start'.budget[d]
         /\ Spend("fail") => /\ Errors' = Errors + 1 /\ (Quiet' <=> Quiet)
                             /\ \A d \in Disturbances : budget'[d] <= start'.budget[d]
         /\ Spend("cancel") => /\ Errors' = Errors /\ ~Quiet'
                               /\ \A d \in Disturbances : budget'[d] <= start'.budget[d]
<1>1. /\ budget \in [Disturbances -> Nat] /\ start.budget \in [Disturbances -> Nat]
      /\ Disturbances = {"fail", "cancel"}
      /\ budget["fail"] <= start.budget["fail"] /\ budget["cancel"] <= start.budget["cancel"]
  BY DEF OtherTypes, Counts, Disturbances
<1>2. budget["fail"] \in Nat /\ budget["cancel"] \in Nat /\ start.budget["fail"] \in Nat
      /\ start.budget["cancel"] \in Nat
  BY <1>1
<1>3. Errors \in Nat
  BY <1>1, <1>2 DEF Errors
<1>4. UNCHANGED budget => /\ Errors' = Errors /\ (Quiet' <=> Quiet)
                          /\ \A d \in Disturbances : budget'[d] <= start'.budget[d]
  BY DEF Errors, Quiet, Counts
<1>5. ASSUME Spend("fail")
      PROVE  /\ Errors' = Errors + 1 /\ (Quiet' <=> Quiet)
             /\ \A d \in Disturbances : budget'[d] <= start'.budget[d]
  <2>1. budget'["fail"] = budget["fail"] - 1 /\ budget'["cancel"] = budget["cancel"]
    BY <1>1, <1>5 DEF Spend
  <2> QED
    BY <1>1, <1>2, <2>1 DEF Errors, Quiet
<1>6. ASSUME Spend("cancel")
      PROVE  /\ Errors' = Errors /\ ~Quiet'
             /\ \A d \in Disturbances : budget'[d] <= start'.budget[d]
  <2>1. budget'["cancel"] = budget["cancel"] - 1 /\ budget'["fail"] = budget["fail"]
    BY <1>1, <1>6 DEF Spend
  <2> QED
    BY <1>1, <1>2, <2>1 DEF Errors, Quiet
<1> QED
  BY <1>3, <1>4, <1>5, <1>6

\* A step of the command that no interrupt ends.
LEMMA CountsStep ==
  ASSUME OtherTypes, LInv, pc # "idle", UNCHANGED <<start, before>>,
         UNCHANGED budget \/ Spend("fail"),
         (cancelled' = cancelled /\ pc' # "idle") \/ cancelled' = FALSE,
         pc' \in Forward => cause' = cause /\ pc \in Forward,
         pc' \in {"restore 4", "restore 6"} =>
           \/ pc \in {"restore 4", "restore 6"} /\ cause' = cause
           \/ cause' \in Late /\ Quiet => Errors' >= 1
  PROVE  Counts' /\ SnapshotHolds'
<1> USE DEF LInv
<1>1. /\ Errors \in Nat /\ Errors' \in {Errors, Errors + 1} /\ (Quiet' <=> Quiet)
      /\ \A d \in Disturbances : budget'[d] <= start'.budget[d]
  BY BudgetSteps
<1>2. cancelled' => pc' # "idle" /\ ~Quiet'
  <2>1. cancelled' => cancelled /\ pc' # "idle"
    OBVIOUS
  <2>2. cancelled => ~Quiet
    BY DEF Counts
  <2> QED
    BY <1>1, <2>1, <2>2, Zenon
<1>3. pc' \in Forward => cause' = "none"
  BY DEF Counts
<1>4. ASSUME pc' \in {"restore 4", "restore 6"}, Quiet', cause' \in Late PROVE Errors' >= 1
  <2>1. Quiet
    BY <1>1, <1>4
  <2>2. CASE pc \in {"restore 4", "restore 6"} /\ cause' = cause
    <3>1. Errors >= 1
      BY <1>4, <2>1, <2>2 DEF Counts
    <3>2. Errors \in Nat /\ (Errors' = Errors \/ Errors' = Errors + 1)
      BY BudgetSteps
    <3>3. Errors + 1 >= 1
      BY <3>1, <3>2, OneMore
    <3> QED
      BY <3>1, <3>2, <3>3, Zenon
  <2>3. CASE cause' \in Late /\ Quiet => Errors' >= 1
    BY <1>4, <2>1, <2>3
  <2> QED
    BY <1>4, <2>2, <2>3
<1>5. start'.budget \in [Disturbances -> Nat]
  BY DEF Counts
<1>6. SnapshotHolds'
  BY DEF SnapshotHolds
<1> QED
  BY <1>1, <1>2, <1>3, <1>4, <1>5, <1>6 DEF Counts

LEMMA LateSnapshot == ASSUME IInv, OtherTypes, LInv, Snapshot PROVE LInv'
<1>1. /\ start' = [fam |-> fam, unit |-> unit, budget |-> budget] /\ before' = fam
      /\ UNCHANGED <<fam, cancelled>> /\ pc = "idle" /\ budget \in [Disturbances -> Nat]
      /\ \/ AllReadable /\ pc' = "delete 4" /\ cause' = "none"
         \/ pc' = "idle" /\ cause' = "idle"
      /\ UNCHANGED budget \/ Spend("fail")
  BY DEF Snapshot, At, machine, OtherTypes
<1>2. start'.budget = budget /\ start'.fam = fam /\ ~cancelled
  BY <1>1 DEF LInv, Counts
<1>3. \A d \in Disturbances : budget'[d] <= budget[d]
  <2>1. budget["fail"] \in Nat /\ budget["cancel"] \in Nat
    BY <1>1 DEF Disturbances
  <2>2. budget' = budget \/ budget' = [budget EXCEPT !["fail"] = @ - 1]
    BY <1>1 DEF Spend
  <2> QED
    <3>1. CASE budget' = budget
      BY <2>1, <3>1 DEF Disturbances
    <3>2. CASE budget' = [budget EXCEPT !["fail"] = @ - 1]
      <4>1. budget'["fail"] = budget["fail"] - 1 /\ budget'["cancel"] = budget["cancel"]
        BY <1>1, <3>2 DEF Disturbances
      <4> QED
        BY <2>1, <4>1 DEF Disturbances
    <3> QED
      BY <2>2, <3>1, <3>2
<1>4. Counts'
  <2>1. ~cancelled'
    BY <1>1, <1>2
  <2>2. start'.budget \in [Disturbances -> Nat] /\ \A d \in Disturbances : budget'[d] <= start'.budget[d]
    BY <1>1, <1>2, <1>3
  <2>3. (pc' \in Forward => cause' = "none") /\ pc' \notin {"restore 4", "restore 6"}
    BY <1>1 DEF Forward
  <2> QED
    BY <2>1, <2>2, <2>3 DEF Counts
<1>5. SnapshotHolds'
  BY <1>1, <1>2 DEF SnapshotHolds, AllReadable
<1>6. Restoration'
  BY <1>1 DEF Restoration, Bearable, Late
<1> QED
  BY <1>4, <1>5, <1>6 DEF LInv

LEMMA LateDelete == ASSUME IInv, OtherTypes, LInv, Delete4 \/ Delete6 PROVE LInv'
<1>1. /\ pc \in {"delete 4", "delete 6"} /\ UNCHANGED <<start, before, cancelled>>
      /\ \/ pc' = (IF pc = "delete 4" THEN "delete 6" ELSE "verify") /\ cause' = cause
         \/ pc' = "restore 4" /\ cause' = pc
      /\ UNCHANGED budget \/ Spend("fail")
  BY DEF Delete4, Delete6, At, Call, Go, GoBecause, Keep
<1>2. Counts' /\ SnapshotHolds'
  BY <1>1, CountsStep DEF Forward, Late
<1>3. pc' = "delete 6" => fam'[4] = Absent
  BY <1>1 DEF Delete4, Delete6, Call, OnlyFamily, IInv, Types, At, Families, GoBecause, Go, Keep
<1>4. pc' = "verify" => fam'[4] = Absent /\ fam'[6] = Absent
  BY <1>1 DEF Delete4, Delete6, Call, OnlyFamily, IInv, Types, At, Families, GoBecause, Go,
              LInv, Restoration
<1>5. pc' = "restore 4" => ~Bearable'
  BY <1>1 DEF Bearable, Late
<1>6. Restoration'
  BY <1>1, <1>3, <1>4, <1>5 DEF Restoration
<1> QED
  BY <1>2, <1>6 DEF LInv

LEMMA LateCommands == ASSUME IInv, OtherTypes, LInv, Verify \/ Drop \/ Remove \/ Forget PROVE LInv'
<1>1. fam = Gone
  <2>1. CASE Verify
    <3>1. fam[4] = Absent /\ fam[6] = Absent /\ fam \in [Families -> FamilyState]
      BY <2>1 DEF Verify, At, LInv, Restoration, IInv, Types
    <3> QED
      BY <3>1 DEF Gone, Families
  <2>2. CASE Drop \/ Remove \/ Forget
    BY <2>2 DEF Drop, Remove, Forget, At, IInv, FirewallFirst, Cleared
  <2> QED
    BY <2>1, <2>2
<1>2. AllReadable
  BY <1>1 DEF AllReadable, Gone, Readable, Absent
<1>3. /\ pc \in Late /\ UNCHANGED <<fam, start, before, cancelled>>
      /\ \/ pc' \in {"check file", "remove", "forget", "data"} /\ cause' = cause
         \/ pc' = "restore 4" /\ cause' = pc /\ (cancelled \/ Spend("fail"))
      /\ UNCHANGED budget \/ Spend("fail")
  <2>1. CASE Verify
    <3>1. Command(unit, Go("check file"), GoBecause("restore 4"))
      BY <1>1, <1>2, <2>1 DEF Verify, Command
    <3> QED
      BY <2>1, <3>1 DEF Verify, At, Command, OnlyUnit, Go, GoBecause, Keep, machine, Late
  <2>2. CASE Drop
    BY <2>2 DEF Drop, At, Command, OnlyUnit, Go, GoBecause, Keep, machine, Late
  <2>3. CASE Remove
    BY <2>3 DEF Remove, At, OnlyUnit, Go, GoBecause, Keep, machine, Late
  <2>4. CASE Forget
    BY <2>4 DEF Forget, At, Command, OnlyUnit, Go, GoBecause, Keep, machine, Late
  <2> QED
    BY <2>1, <2>2, <2>3, <2>4
<1>4. Spend("fail") => Errors' >= 1
  <2>1. Spend("fail") => Errors' = Errors + 1 /\ Errors \in Nat
    BY <1>3, BudgetSteps DEF LInv
  <2> QED
    BY <2>1
<1>5. cancelled => ~Quiet
  BY DEF LInv, Counts
<1>6. Counts' /\ SnapshotHolds'
  BY <1>3, <1>4, <1>5, CountsStep DEF Forward, Late
<1>7. Restoration'
  BY <1>1, <1>3 DEF Restoration, Gone
<1> QED
  BY <1>6, <1>7 DEF LInv

LEMMA LateService ==
  ASSUME IInv, OtherTypes, LInv, CheckFile \/ CheckEnabled \/ CheckActive
  PROVE  LInv'
<1>1. /\ pc \in {"check file", "check enabled", "check active"}
      /\ fam = Gone /\ UNCHANGED fam /\ (UNCHANGED budget \/ Spend("fail"))
  BY DEF CheckFile, CheckEnabled, CheckActive, Query, At, IInv, FirewallFirst, Cleared, machine
<1>2. /\ UNCHANGED <<start, before, cancelled>>
      /\ \/ pc' \in {"check enabled", "check active", "drop", "data"} /\ cause' = cause
         \/ pc' = "restore 4" /\ cause' = "check active"
  BY DEF CheckFile, CheckEnabled, CheckActive, StepFor, At, Go, GoBecause, Keep
<1>3. Counts' /\ SnapshotHolds'
  BY <1>1, <1>2, CountsStep DEF Forward, Late
<1>4. Restoration'
  BY <1>1, <1>2 DEF Restoration, Gone
<1> QED
  BY <1>3, <1>4 DEF LInv

LEMMA LateFiles == ASSUME IInv, OtherTypes, LInv, RemoveData \/ DataDone \/ RemoveBinary PROVE LInv'
<1>1. /\ pc \in {"data", "binary"} /\ UNCHANGED <<start, before>>
      /\ \/ pc' \in {"data", "binary"} /\ cause' = cause /\ cancelled' = cancelled
         \/ pc' = "idle" /\ cause' \in {cause, pc} /\ cancelled' = FALSE
      /\ UNCHANGED budget \/ Spend("fail")
  BY DEF RemoveData, DataDone, RemoveBinary, At, Go, Return, ReturnBecause, Keep, machine
<1>2. Counts' /\ SnapshotHolds'
  BY <1>1, CountsStep DEF Forward
<1>3. cause = "none"
  BY <1>1 DEF LInv, Counts, Forward
<1>4. Restoration'
  BY <1>1, <1>3 DEF Restoration, Bearable, Late
<1> QED
  BY <1>2, <1>4 DEF LInv

\* What the theorem bears after a step of the restoration it bore before it.
LEMMA BearableBefore ==
  ASSUME OtherTypes, Counts, UNCHANGED <<start, cause>>, pc \in {"restore 4", "restore 6"},
         UNCHANGED budget \/ Spend("fail"), Bearable'
  PROVE  Bearable /\ ~Spend("fail") /\ ~cancelled
<1>1. /\ Errors \in Nat /\ (UNCHANGED budget => Errors' = Errors)
      /\ (Spend("fail") => Errors' = Errors + 1)
  BY BudgetSteps
<1>2. Quiet' <=> Quiet
  BY BudgetSteps
<1>3. Quiet /\ (cause \in Late => Errors >= 1)
  BY <1>2 DEF Counts, Bearable
<1>4. ~Spend("fail")
  <2> SUFFICES ASSUME Spend("fail") PROVE FALSE
    OBVIOUS
  <2>1. Errors' = Errors + 1 /\ cause' = cause
    BY <1>1
  <2>2. \/ cause' \in Late /\ Errors' <= 1
        \/ cause' = "check active" /\ Errors' = 0
    BY DEF Bearable, Late
  <2>3. Errors \in Nat
    BY <1>1
  <2>4. ~(cause \in Late)
    <3> SUFFICES ASSUME cause \in Late PROVE FALSE
      OBVIOUS
    <3>1. Errors >= 1
      BY <1>3
    <3>2. Errors + 1 # 0 /\ ~(Errors + 1 <= 1)
      BY <2>3, <3>1, OneMore
    <3> QED
      BY <2>1, <2>2, <3>2, Zenon
  <2>5. Errors + 1 # 0
    BY <2>3, OneMore
  <2> QED
    BY <2>1, <2>2, <2>4, <2>5, Zenon
<1>5. Errors' = Errors
  BY <1>1, <1>4
<1>6. Bearable
  BY <1>3, <1>5 DEF Bearable
<1>7. ~cancelled
  BY <1>3 DEF Counts
<1> QED
  BY <1>4, <1>6, <1>7

\* One family is put back, unless one error more than the theorem bears happens.
LEMMA LateRestore4 == ASSUME IInv, OtherTypes, LInv, Restore4 PROVE LInv'
<1>1. /\ pc = "restore 4" /\ UNCHANGED <<start, before, cause>>
      /\ \/ pc' = "restore 6" /\ cancelled' = cancelled
         \/ pc' = "idle" /\ cancelled' = FALSE
      /\ UNCHANGED budget \/ Spend("fail")
  BY DEF Restore4, At, Call, Go, Return, Keep
<1>2. Counts' /\ SnapshotHolds'
  BY <1>1, CountsStep DEF Forward
<1>3. ASSUME Bearable' PROVE fam = Gone /\ ~Spend("fail") /\ ~cancelled
  <2>1. Bearable /\ ~Spend("fail") /\ ~cancelled
    BY <1>1, <1>3, BearableBefore DEF LInv
  <2> QED
    BY <1>1, <2>1 DEF LInv, Restoration
<1>4. Bearable' => pc' = "restore 6" /\ fam'[4] = before'[4] /\ fam'[6] = Absent
  <2> SUFFICES ASSUME Bearable' PROVE pc' = "restore 6" /\ fam'[4] = before'[4] /\ fam'[6] = Absent
    OBVIOUS
  <2>1. Readable(fam[4])
    BY <1>3 DEF Gone, Families, Absent, Readable
  <2>2. Go("restore 6") /\ fam' = [fam EXCEPT ![4] = before[4]]
    BY <1>3, <2>1 DEF Restore4, Call, OnlyFamily
  <2>3. pc' = "restore 6" /\ before' = before
    BY <2>2 DEF Go, Keep
  <2>4. DOMAIN fam = Families /\ fam[6] = Absent
    BY <1>3 DEF Gone, Families
  <2>5. fam'[4] = before[4]
    BY <2>2, <2>4 DEF Families
  <2>6. fam'[6] = Absent
    <3> DEFINE k == before[4]
    <3>1. fam' = [fam EXCEPT ![4] = k] /\ 6 \in DOMAIN fam
      BY <2>2, <2>4 DEF Families
    <3> HIDE DEF k
    <3>2. fam'[6] = fam[6]
      BY <3>1
    <3> QED
      BY <2>4, <3>2, Zenon
  <2>7. before'[4] = before[4]
    BY <2>3
  <2> QED
    BY <2>3, <2>5, <2>6, <2>7, Zenon
<1>5. Restoration'
  BY <1>1, <1>4 DEF Restoration
<1> QED
  BY <1>2, <1>5 DEF LInv

LEMMA LateRestore6 == ASSUME IInv, OtherTypes, LInv, Restore6 PROVE LInv'
<1>1. /\ pc = "restore 6" /\ UNCHANGED <<start, before, cause>> /\ pc' = "idle"
      /\ cancelled' = FALSE
      /\ UNCHANGED budget \/ Spend("fail")
  BY DEF Restore6, At, Call, AfterRestore, Return, Keep
<1>2. Counts' /\ SnapshotHolds'
  BY <1>1, CountsStep DEF Forward
<1>3. ASSUME Bearable' PROVE fam[4] = before[4] /\ fam[6] = Absent /\ ~Spend("fail") /\ ~cancelled
  <2>1. Bearable /\ ~Spend("fail") /\ ~cancelled
    BY <1>1, <1>3, BearableBefore DEF LInv
  <2> QED
    BY <1>1, <2>1 DEF LInv, Restoration
<1>4. Bearable' => fam' = start'.fam
  <2> SUFFICES ASSUME Bearable' PROVE fam' = start'.fam
    OBVIOUS
  <2>1. Readable(fam[6])
    BY <1>3 DEF Absent, Readable
  <2>2. fam' = [fam EXCEPT ![6] = before[6]]
    BY <1>3, <2>1 DEF Restore6, Call, OnlyFamily
  <2>3. fam' = before
    BY <1>3, <2>2 DEF IInv, Types, Families
  <2> QED
    BY <1>1, <2>3 DEF LInv, SnapshotHolds
<1>5. Restoration'
  BY <1>1, <1>4 DEF Restoration
<1> QED
  BY <1>2, <1>5 DEF LInv

LEMMA LateInterrupt == ASSUME IInv, OtherTypes, LInv, Cancel \/ CancelCall PROVE LInv'
<1>1. /\ pc # "idle" /\ UNCHANGED <<start, before>> /\ Spend("cancel")
      /\ \/ pc' = pc /\ cause' = cause /\ fam' = fam
         \/ pc' = "restore 4"
         \/ pc' = "idle" /\ cancelled' = FALSE
  BY DEF Cancel, CancelCall, At, Return, Keep, machine
<1>2. /\ ~Quiet' /\ \A d \in Disturbances : budget'[d] <= start'.budget[d]
  BY <1>1, BudgetSteps DEF LInv
<1>3. pc' \in Forward => pc' = pc /\ cause' = cause /\ fam' = fam
  BY <1>1 DEF Forward
<1>4. Counts'
  BY <1>1, <1>2, <1>3 DEF LInv, Counts
<1>5. SnapshotHolds'
  BY <1>1 DEF LInv, SnapshotHolds
<1>6. Restoration'
  BY <1>1, <1>2, <1>3 DEF LInv, Restoration, Bearable, Forward
<1> QED
  BY <1>4, <1>5, <1>6 DEF LInv

LEMMA NextLInv == IInv /\ OtherTypes /\ LInv /\ [Next]_vars => LInv'
<1> SUFFICES ASSUME IInv, OtherTypes, LInv, [Next]_vars PROVE LInv'
  OBVIOUS
<1>1. CASE UNCHANGED vars
  BY <1>1 DEF vars, machine, LInv, Counts, SnapshotHolds, Restoration, Bearable, Errors, Quiet
<1>2. CASE Next
  BY <1>2, LateSnapshot, LateDelete, LateCommands, LateService, LateFiles, LateRestore4,
     LateRestore6, LateInterrupt DEF Next
<1> QED
  BY <1>1, <1>2

LEMMA InitLInv == Init => LInv
<1> SUFFICES ASSUME Init PROVE LInv
  OBVIOUS
<1>1. /\ pc = "idle" /\ cancelled = FALSE /\ cause = "none" /\ start.budget = budget
      /\ budget \in [Disturbances -> Nat]
  BY BudgetAssumption DEF Init
<1>2. \A d \in Disturbances : budget[d] <= start.budget[d]
  BY <1>1
<1> QED
  BY <1>1, <1>2 DEF LInv, Counts, SnapshotHolds, Restoration, Bearable, Late, Forward

--------------------------------------------------------------------------------
(* The unit and the program *)

\* An error and an interrupt, as they are counted.
LEMMA SpentSteps ==
  ASSUME OtherTypes, Counts, UNCHANGED start
  PROVE  /\ Spent("fail") \in Nat /\ Spent("cancel") \in Nat
         /\ UNCHANGED budget =>
              Spent("fail")' = Spent("fail") /\ Spent("cancel")' = Spent("cancel")
         /\ Spend("fail") =>
              Spent("fail")' = Spent("fail") + 1 /\ Spent("cancel")' = Spent("cancel")
         /\ Spend("cancel") =>
              Spent("fail")' = Spent("fail") /\ Spent("cancel")' = Spent("cancel") + 1
<1>1. /\ budget \in [Disturbances -> Nat] /\ start.budget \in [Disturbances -> Nat]
      /\ Disturbances = {"fail", "cancel"}
      /\ budget["fail"] <= start.budget["fail"] /\ budget["cancel"] <= start.budget["cancel"]
  BY DEF OtherTypes, Counts, Disturbances
<1>2. budget["fail"] \in Nat /\ budget["cancel"] \in Nat /\ start.budget["fail"] \in Nat
      /\ start.budget["cancel"] \in Nat
  BY <1>1
<1>3. Spend("fail") => budget'["fail"] = budget["fail"] - 1 /\ budget'["cancel"] = budget["cancel"]
  BY <1>1 DEF Spend
<1>4. Spend("cancel") => budget'["cancel"] = budget["cancel"] - 1 /\ budget'["fail"] = budget["fail"]
  BY <1>1 DEF Spend
<1> QED
  BY <1>1, <1>2, <1>3, <1>4 DEF Spent

\* What has to have gone wrong for Check to overlook PMM's unit, query by query.
Overlooked ==
  unit.file = "v6" /\ ~seen.valid =>
    /\ Spent("fail") >= 1
    /\ pc = "check active" /\ unit.enabled /\ ~seen.enabled =>
         Spent("fail") + Spent("cancel") >= 2

ServiceGone ==
  /\ pc \in {"check enabled", "check active"} => Overlooked
  /\ pc \in {"data", "binary"} \/ binary = "none" => (unit.file = "v6" => Excused)

\* More of what went wrong is no less of an excuse.
LEMMA ExcusedStays ==
  ASSUME OtherTypes, Counts, UNCHANGED <<start, unit>>,
         UNCHANGED budget \/ Spend("fail") \/ Spend("cancel"), Excused
  PROVE  Excused'
<1>1. /\ Spent("fail") \in Nat /\ Spent("cancel") \in Nat
      /\ Spent("fail")' \in {Spent("fail"), Spent("fail") + 1}
      /\ Spent("cancel")' \in {Spent("cancel"), Spent("cancel") + 1}
  BY SpentSteps
<1> DEFINE E == Spent("fail")
           C == Spent("cancel")
           E2 == Spent("fail")'
           C2 == Spent("cancel")'
<1>2. E \in Nat /\ C \in Nat /\ E2 \in {E, E + 1} /\ C2 \in {C, C + 1}
  BY <1>1
<1>3. /\ E >= 1 /\ (unit.enabled \/ unit.active => E + C >= 2)
      /\ (unit.enabled /\ unit.active /\ C = 0 => E >= 3)
  BY DEF Excused
<1> HIDE DEF E, C, E2, C2
<1>4. /\ E2 >= 1 /\ (unit.enabled \/ unit.active => E2 + C2 >= 2)
      /\ (unit.enabled /\ unit.active /\ C2 = 0 => E2 >= 3)
  BY <1>2, <1>3
<1> QED
  BY <1>4 DEF Excused, E2, C2

\* An interrupt counts at least once.
LEMMA CancelledCounts ==
  ASSUME OtherTypes, Counts, cancelled
  PROVE  Spent("cancel") >= 1
<1>1. /\ budget["cancel"] \in Nat /\ start.budget["cancel"] \in Nat
      /\ budget["cancel"] <= start.budget["cancel"] /\ budget["cancel"] # start.budget["cancel"]
  BY DEF OtherTypes, Counts, Quiet, Disturbances
<1> QED
  BY <1>1 DEF Spent

\* The last query adds what Excused still lacks.
LEMMA LastQuery ==
  ASSUME IInv, OtherTypes, Counts, ServiceGone, CheckActive, pc' = "data", unit.file = "v6"
  PROVE  Excused'
<1>1. PICK answer \in BOOLEAN :
        /\ Query(unit.active, answer)
        /\ LET next == StepFor([seen EXCEPT !.active = answer]) IN
             IF next = "restore 4" THEN GoBecause(next) ELSE Go(next)
  BY DEF CheckActive
<1>2. ~seen.valid /\ ~seen.enabled /\ ~answer
  <2>1. StepFor([seen EXCEPT !.active = answer]) = "data"
    BY <1>1 DEF Go, GoBecause
  <2>2. /\ [seen EXCEPT !.active = answer].valid = seen.valid
        /\ [seen EXCEPT !.active = answer].enabled = seen.enabled
        /\ [seen EXCEPT !.active = answer].active = answer
    BY DEF OtherTypes, Status
  <2> QED
    BY <2>1, <2>2 DEF StepFor
<1>3. /\ UNCHANGED <<start, unit>>
      /\ Spent("fail") >= 1 /\ (unit.enabled => Spent("fail") + Spent("cancel") >= 2)
  BY <1>1, <1>2 DEF CheckActive, At, ServiceGone, Overlooked, Go, GoBecause, Keep, machine
<1>4. /\ Spent("fail") \in Nat /\ Spent("cancel") \in Nat
      /\ \/ /\ Spent("fail")' = Spent("fail") /\ Spent("cancel")' = Spent("cancel")
            /\ unit.active => Spent("cancel") >= 1
         \/ Spent("fail")' = Spent("fail") + 1 /\ Spent("cancel")' = Spent("cancel")
  BY <1>1, <1>2, <1>3, SpentSteps, CancelledCounts DEF Query
<1> DEFINE E == Spent("fail")
           C == Spent("cancel")
           E2 == Spent("fail")'
           C2 == Spent("cancel")'
<1>5. /\ E \in Nat /\ C \in Nat /\ E >= 1 /\ (unit.enabled => E + C >= 2)
      /\ \/ E2 = E /\ C2 = C /\ (unit.active => C >= 1)
         \/ E2 = E + 1 /\ C2 = C
  BY <1>3, <1>4
<1> HIDE DEF E, C, E2, C2
<1>6. /\ E2 >= 1 /\ (unit.enabled \/ unit.active => E2 + C2 >= 2)
      /\ (unit.enabled /\ unit.active /\ C2 = 0 => E2 >= 3)
  BY <1>5
<1> QED
  BY <1>3, <1>6 DEF Excused, E2, C2

LEMMA ServiceGoneStep ==
  IInv /\ OtherTypes /\ Counts /\ ServiceGone /\ [Next]_vars => ServiceGone'
<1> SUFFICES ASSUME IInv, OtherTypes, Counts, ServiceGone, [Next]_vars PROVE ServiceGone'
  OBVIOUS
<1>1. CASE UNCHANGED vars
  BY <1>1 DEF vars, machine, ServiceGone, Overlooked, Excused, Spent
<1>2. CASE CheckFile
  <2>1. /\ UNCHANGED <<start, unit, binary>> /\ pc = "check file" /\ pc' = "check enabled"
        /\ \/ seen'.valid = (unit.file = "v6")
           \/ Spend("fail")
    BY <1>2 DEF CheckFile, At, machine, NothingSeen
  <2>2. Spend("fail") => Spent("fail")' >= 1
    <3>1. Spent("fail") \in Nat /\ (Spend("fail") => Spent("fail")' = Spent("fail") + 1)
      BY <2>1, SpentSteps
    <3> QED
      BY <3>1, OneMore
  <2>3. binary # "none"
    BY <2>1 DEF IInv, ServiceFirst
  <2> QED
    BY <2>1, <2>2, <2>3 DEF ServiceGone, Overlooked
<1>3. CASE CheckEnabled
  <2>1. PICK answer \in BOOLEAN :
          Query(unit.enabled, answer) /\ seen' = [seen EXCEPT !.enabled = answer]
    BY <1>3 DEF CheckEnabled
  <2>2. /\ UNCHANGED <<start, unit, binary>> /\ pc = "check enabled" /\ pc' = "check active"
        /\ seen'.valid = seen.valid /\ seen'.enabled = answer
    BY <1>3, <2>1 DEF CheckEnabled, At, machine, OtherTypes, Status
  <2>3. binary # "none"
    BY <2>2 DEF IInv, ServiceFirst
  <2>4. ASSUME unit.file = "v6", ~seen.valid
        PROVE  /\ Spent("fail")' >= 1
               /\ unit.enabled /\ ~answer => Spent("fail")' + Spent("cancel")' >= 2
    <3>1. Spent("fail") >= 1
      BY <2>2, <2>4 DEF ServiceGone, Overlooked
    <3>2. /\ Spent("fail") \in Nat /\ Spent("cancel") \in Nat
          /\ \/ /\ Spent("fail")' = Spent("fail") /\ Spent("cancel")' = Spent("cancel")
                /\ unit.enabled /\ ~answer => Spent("cancel") >= 1
             \/ Spent("fail")' = Spent("fail") + 1 /\ Spent("cancel")' = Spent("cancel")
      BY <2>1, <2>2, SpentSteps, CancelledCounts DEF Query
    <3> DEFINE E == Spent("fail")
               C == Spent("cancel")
               E2 == Spent("fail")'
               C2 == Spent("cancel")'
    <3>3. /\ E \in Nat /\ C \in Nat /\ E >= 1
          /\ \/ E2 = E /\ C2 = C /\ (unit.enabled /\ ~answer => C >= 1)
             \/ E2 = E + 1 /\ C2 = C
      BY <3>1, <3>2
    <3> HIDE DEF E, C, E2, C2
    <3>4. E2 >= 1 /\ (unit.enabled /\ ~answer => E2 + C2 >= 2)
      BY <3>3
    <3> QED
      BY <3>4 DEF E2, C2
  <2> QED
    BY <2>2, <2>3, <2>4 DEF ServiceGone, Overlooked
<1>4. CASE CheckActive
  <2>1. /\ UNCHANGED <<unit, binary>> /\ pc = "check active"
        /\ pc' \in {"restore 4", "drop", "data"}
    BY <1>4 DEF CheckActive, StepFor, At, Go, GoBecause, machine
  <2>2. binary # "none"
    BY <2>1 DEF IInv, ServiceFirst
  <2>3. pc' = "data" /\ unit.file = "v6" => Excused'
    BY <1>4, LastQuery
  <2> QED
    BY <2>1, <2>2, <2>3 DEF ServiceGone
<1>5. CASE Drop \/ Remove \/ Forget
  <2>1. /\ pc \in {"drop", "remove", "forget"} /\ binary' = binary
        /\ pc' \in {"remove", "forget", "data", "restore 4"}
        /\ pc' = "data" => unit.file = "none" /\ unit' = unit
    <3>1. CASE Drop
      BY <3>1 DEF Drop, At, Command, OnlyUnit, Go, GoBecause, machine
    <3>2. CASE Remove
      BY <3>2 DEF Remove, At, OnlyUnit, Go, GoBecause, machine
    <3>3. CASE Forget
      BY <3>3 DEF Forget, At, Command, OnlyUnit, Go, GoBecause, machine, IInv, ServiceFirst
    <3> QED
      BY <1>5, <3>1, <3>2, <3>3
  <2>2. binary # "none"
    BY <2>1 DEF IInv, ServiceFirst
  <2> QED
    BY <2>1, <2>2 DEF ServiceGone
<1>6. CASE RemoveData \/ DataDone \/ RemoveBinary
  <2>1. /\ pc \in {"data", "binary"} /\ pc' \in {"data", "binary", "idle"}
        /\ UNCHANGED <<start, unit>> /\ (UNCHANGED budget \/ Spend("fail"))
    BY <1>6 DEF RemoveData, DataDone, RemoveBinary, At, Go, Return, ReturnBecause, Keep, machine
  <2>2. unit.file = "v6" => Excused'
    BY <2>1, ExcusedStays DEF ServiceGone
  <2> QED
    BY <2>1, <2>2 DEF ServiceGone
<1>7. CASE Snapshot \/ Delete4 \/ Delete6 \/ Verify \/ Restore4 \/ Restore6 \/ CancelCall
  <2>1. /\ UNCHANGED <<unit, binary>> /\ binary # "none"
    <3>1. CASE Snapshot
      BY <3>1 DEF Snapshot, machine
    <3>2. CASE ~Snapshot
      <4>1. UNCHANGED <<unit, binary>>
        BY <1>7, <3>2 DEF Delete4, Delete6, Verify, Restore4, Restore6, CancelCall, Call, Command,
           OnlyFamily, OnlyUnit, machine
      <4>2. pc # "idle"
        BY <1>7, <3>2 DEF Delete4, Delete6, Verify, Restore4, Restore6, CancelCall, At
      <4> QED
        BY <4>1, <4>2 DEF IInv, ServiceFirst
    <3> QED
      BY <3>1, <3>2
  <2>2. pc' \in {"idle", "delete 4", "delete 6", "verify", "check file", "restore 4", "restore 6"}
    BY <1>7 DEF Snapshot, Delete4, Delete6, Verify, Restore4, Restore6, AfterRestore, CancelCall,
       Call, Command, Go, GoBecause, Return
  <2> QED
    BY <2>1, <2>2 DEF ServiceGone
<1>8. CASE Cancel
  <2>1. UNCHANGED <<pc, unit, binary, seen, start>> /\ Spend("cancel")
    BY <1>8 DEF Cancel, machine
  <2>2. (pc \in {"data", "binary"} \/ binary = "none") /\ unit.file = "v6" => Excused'
    BY <2>1, ExcusedStays DEF ServiceGone
  <2>3. pc \in {"check enabled", "check active"} => Overlooked'
    <3>1. /\ Spent("fail") \in Nat /\ Spent("cancel") \in Nat
          /\ Spent("fail")' = Spent("fail") /\ Spent("cancel")' = Spent("cancel") + 1
      BY <2>1, SpentSteps
    <3> DEFINE E == Spent("fail")
               C == Spent("cancel")
               E2 == Spent("fail")'
               C2 == Spent("cancel")'
    <3>2. E \in Nat /\ C \in Nat /\ E2 = E /\ C2 = C + 1
      BY <3>1
    <3> HIDE DEF E, C, E2, C2
    <3>3. (E >= 1 => E2 >= 1) /\ (E + C >= 2 => E2 + C2 >= 2)
      BY <3>2
    <3>4. /\ Spent("fail") >= 1 => Spent("fail")' >= 1
          /\ Spent("fail") + Spent("cancel") >= 2 => Spent("fail")' + Spent("cancel")' >= 2
      BY <3>3 DEF E, C, E2, C2
    <3> QED
      BY <2>1, <3>4 DEF ServiceGone, Overlooked
  <2> QED
    BY <2>1, <2>2, <2>3 DEF ServiceGone
<1> QED
  BY <1>1, <1>2, <1>3, <1>4, <1>5, <1>6, <1>7, <1>8 DEF Next

\* The program goes with PMM's unit still there only if Check could not read its file
\* (persistence.go:51-60), and with one that is enabled or active only if the query that
\* tells so failed or was interrupted as well (persistence.go:61-66, uninstall.go:67-86).
THEOREM NoStrandedService == Spec => []NoServiceWithoutProgram
<1>1. Init => ServiceGone
  BY DEF Init, ServiceGone
<1>2. ServiceGone => NoServiceWithoutProgram
  BY DEF ServiceGone, NoServiceWithoutProgram
<1>3. IInv => pc \in Steps
  BY DEF IInv, Types
<1>4. LInv => Counts
  BY DEF LInv
<1> QED
  BY <1>1, <1>2, <1>3, <1>4, InitIInv, NextIInv, InitOtherTypes, OtherTypesStep, InitLInv,
     NextLInv, ServiceGoneStep, PTL DEF Spec

--------------------------------------------------------------------------------

\* An error after the firewall was removed (uninstall.go:63-80) puts every rule back, when it
\* is the only one and nobody interrupts; a refusal because of the service (uninstall.go:68-73)
\* does, when nothing fails.
THEOREM LateErrorsUndo == Spec => LateErrorRestoresRules
<1> DEFINE A == /\ pc' = "idle" /\ MustRestore
                /\ budget'["fail"] >= start.budget["fail"] - 1
                /\ budget'["cancel"] = start.budget["cancel"]
                => fam' = start.fam
<1>1. IInv /\ OtherTypes /\ LInv /\ OtherTypes' /\ LInv' /\ [Next]_vars => [A]_vars
  <2> SUFFICES ASSUME IInv, OtherTypes, LInv, OtherTypes', LInv', Next,
                      pc' = "idle", MustRestore,
                      budget'["fail"] >= start.budget["fail"] - 1,
                      budget'["cancel"] = start.budget["cancel"]
               PROVE  fam' = start.fam
    OBVIOUS
  <2>1. CASE Snapshot
    <3>1. pc = "idle" /\ UNCHANGED <<fam>> /\ (UNCHANGED budget \/ Spend("fail"))
      BY <2>1, <2>1 DEF Snapshot, At, machine
    <3> DEFINE b == budget
               s == start.budget
    <3>2. b \in [Disturbances -> Nat] /\ s \in [Disturbances -> Nat] /\ Disturbances = {"fail", "cancel"}
          /\ b["fail"] <= s["fail"] /\ b["cancel"] <= s["cancel"]
      BY DEF OtherTypes, LInv, Counts, Disturbances
    <3>3. budget'["cancel"] = b["cancel"] /\ (budget'["fail"] = b["fail"] \/ budget'["fail"] = b["fail"] - 1)
      BY <3>1, <3>2 DEF Spend
    <3>4. b["fail"] >= s["fail"] - 1 /\ b["cancel"] = s["cancel"]
      BY <3>2, <3>3
    <3>5. cause = "check active" => b["fail"] = s["fail"]
      <4>1. cause = "check active" => budget'["fail"] = s["fail"]
        BY DEF MustRestore
      <4>2. b["fail"] \in Nat /\ s["fail"] \in Nat /\ b["fail"] <= s["fail"]
        BY <3>2
      <4> QED
        BY <3>3, <4>1, <4>2, Squeezed
    <3>6. Errors <= 1 /\ (cause = "check active" => Errors = 0)
      <4>1. b["fail"] \in Nat /\ s["fail"] \in Nat /\ Errors = s["fail"] - b["fail"]
        BY <3>2 DEF Errors
      <4> QED
        BY <3>4, <3>5, <4>1, Squeezed
    <3>7. Bearable
      BY <3>4, <3>6 DEF Bearable, Quiet, MustRestore, Late
    <3> QED
      BY <3>1, <3>7 DEF LInv, Restoration
  <2>2. CASE ~Snapshot
    <3>1. start' = start
      BY <2>2 DEF Next, Delete4, Delete6, Verify, CheckFile, CheckEnabled, CheckActive,
         Drop, Remove, Forget, RemoveData,
         DataDone, RemoveBinary, Restore4, Restore6, AfterRestore, Cancel, CancelCall, Call,
         Command, Go, GoBecause, Return, ReturnBecause, Keep
    <3>2. cause' = cause
      <4>1. pc \in Forward => cause = "none"
        BY DEF LInv, Counts
      <4>2. pc \notin Forward
        BY <4>1 DEF MustRestore
      <4>3. pc # "idle" => cause' = cause
        BY <2>2, <4>2 DEF Next, Delete4, Delete6, Verify, CheckFile, CheckEnabled, CheckActive,
           Drop, Remove, Forget, RemoveData,
           DataDone, RemoveBinary, Restore4, Restore6, AfterRestore, Cancel, CancelCall, Call,
           Go, Return, At, Forward
      <4>4. pc # "idle"
        BY <2>2 DEF Next, Delete4, Delete6, Verify, CheckFile, CheckEnabled, CheckActive,
           Drop, Remove, Forget, RemoveData,
           DataDone, RemoveBinary, Restore4, Restore6, Cancel, CancelCall, At
      <4> QED
        BY <4>3, <4>4
    <3>3. budget'["fail"] \in Nat /\ start.budget["fail"] \in Nat
      BY <3>1 DEF OtherTypes, LInv, Counts, Disturbances
    <3>4. Errors' <= 1 /\ (cause = "check active" => Errors' = 0)
      <4>1. cause = "check active" => budget'["fail"] = start.budget["fail"]
        BY DEF MustRestore
      <4>2. Errors' = start.budget["fail"] - budget'["fail"]
        BY <3>1 DEF Errors
      <4> QED
        BY <3>3, <4>1, <4>2, Squeezed
    <3>5. Bearable'
      BY <3>1, <3>2, <3>4 DEF Bearable, Quiet, MustRestore, Late
    <3> QED
      BY <3>1, <3>5 DEF LInv, Restoration
  <2> QED
    BY <2>1, <2>2
<1>2. Init => OtherTypes
  BY InitOtherTypes
<1>3. IInv => pc \in Steps
  BY DEF IInv, Types
<1>4. Spec => [][A]_vars
  BY <1>1, <1>2, <1>3, InitIInv, NextIInv, OtherTypesStep, InitLInv, NextLInv, PTL DEF Spec
<1> QED
  BY <1>4 DEF LateErrorRestoresRules
================================================================================
