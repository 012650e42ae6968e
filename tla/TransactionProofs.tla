--------------------------- MODULE TransactionProofs ---------------------------
(***************************************************************************)
(* Theorems about Transaction, for any set of commands, requests, foreign  *)
(* redirects and any number of disturbances.  The inductive invariant is   *)
(* TypeOK with LockProtects and WorkIsCurrent: the lock is what makes a    *)
(* command's reads stay true, and these make its commit and its rollback   *)
(* right.  From them also follows what becomes of other software's         *)
(* redirects.  Where one failure is the most there is, what each family    *)
(* holds follows from where a command is, and so does that Transaction     *)
(* implements AtomicStore.  At the end, theorems about RuleEdits, and what *)
(* they say of the database transactions share, and about Doctor, whose    *)
(* walk finds the lines a packet can get to, in any graph of chains.       *)
(***************************************************************************)
EXTENDS Transaction, RuleEdits, Doctor, TLAPS

--------------------------------------------------------------------------------
(* The operators the model is built from *)

\* Comparing the ends of two ranges finds every shared port: the test Normalize
\* makes on two rules of the same family and protocol (model.go:137).
LEMMA OverlapFindsSharedPorts ==
  ASSUME NEW j \in KeyType, NEW k \in KeyType
  PROVE  SameTraffic(j, k) /\ (Ports(j) \cap Ports(k)) # {} => Overlaps(j, k)
  BY DEF KeyType, SameTraffic, Overlaps, Ports

\* The rule set of a fresh installation is normal.
LEMMA EmptySetIsNormal == EmptySet \in RuleSet /\ Normal(EmptySet)
  BY DEF EmptySet, RuleSet, Normal, UniqueIds, UniqueKeys, NoOverlap

\* The edits of internal/app make rule sets.
LEMMA EditsAreRuleSets ==
  ASSUME NEW o \in Requests, o.kind \notin {"restore", "reconcile"},
         NEW s \in RuleSet, NEW t \in Edits(o, s)
  PROVE  t \in RuleSet
<1>1. CASE o.kind = "add"
  <2>1. o.key \in Keys /\ t \in Add(o.key, s)
    BY <1>1 DEF Requests, Edits
  <2> QED BY <2>1 DEF Add, FreeIds, RuleSet, Rule, Ids, IdsOf, KeysOf
<1>2. CASE o.kind = "delete"
  <2>1. t \in Delete(o.id, s) BY <1>2 DEF Requests, Edits
  <2> QED BY <2>1 DEF Delete, Carrier, RuleSet
<1>3. CASE o.kind = "toggle"
  <2>1. t \in Toggle(o.id, o.enabled, s) BY <1>3 DEF Requests, Edits
  <2> QED BY <2>1 DEF Toggle, Carrier, RuleSet
<1>4. CASE o.kind = "edit"
  <2>1. o.id \in Ids /\ o.key \in Keys /\ t \in Edit(o.id, o.key, s)
    BY <1>4 DEF Requests, Edits
  <2> QED BY <2>1 DEF Edit, Carrier, RuleSet, Rule
<1>5. CASE o.kind = "clear"
  BY <1>5, EmptySetIsNormal DEF Requests, Edits
<1>6. CASE o.kind = "replace"
  <2>1. o.keys \subseteq Keys /\ t \in ImportReplace(o.keys, s)
    BY <1>6 DEF Requests, Edits
  <2> QED BY <2>1 DEF ImportReplace, Parsed, RuleSet, Rule, Ids
<1>7. CASE o.kind = "merge"
  <2>1. o.keys \subseteq Keys /\ t \in ImportMerge(o.keys, s)
    BY <1>7 DEF Requests, Edits
  <2> QED BY <2>1 DEF ImportMerge, NewKeys, RuleSet, Rule, Ids
<1> QED BY <1>1, <1>2, <1>3, <1>4, <1>5, <1>6, <1>7 DEF Requests

\* Backend calls leave family states.
LEMMA CallsLeaveStates ==
  ASSUME NEW k \in FamilyState, NEW t \in FamilyState
  PROVE  /\ AfterFailure(k, t) \subseteq FamilyState
         /\ AfterCrash(k, t) \subseteq FamilyState
         /\ AfterKill(k, t) \subseteq FamilyState
<1>1. Drift \in FamilyState /\ Managed({}) \in FamilyState
  BY DEF Drift, Managed, FamilyState
<1> QED BY <1>1 DEF AfterFailure, AfterCrash, AfterKill, Only

--------------------------------------------------------------------------------
(* Pieces of steps keep their types *)

\* The values locals are reset to have their types.
LEMMA ConstantsOK ==
  /\ NoKernel \in Kernel
  /\ NoDatabase \in Database
  /\ EmptySet \in RuleSet /\ Normal(EmptySet)
<1>1. Absent \in FamilyState BY DEF Absent, FamilyState
<1> QED BY <1>1, EmptySetIsNormal DEF NoKernel, Kernel, NoDatabase, Database

\* A disturbance leaves a budget.
LEMMA SpendOK ==
  ASSUME TypeOK, NEW d \in Disturbances, Spend(d)
  PROVE  budget' \in [Disturbances -> Nat]
  BY DEF TypeOK, SharedOK, Spend

\* So do several at once.
LEMMA SpendAllOK ==
  ASSUME TypeOK, NEW D, SpendAll(D)
  PROVE  budget' \in [Disturbances -> Nat]
  BY DEF TypeOK, SharedOK, SpendAll

\* So does a firewall command that fails.
LEMMA CommandFailsOK ==
  ASSUME TypeOK, NEW p \in Procs, CommandFails(p)
  PROVE  budget' \in [Disturbances -> Nat]
  BY SpendOK DEF CommandFails, TypeOK, SharedOK, Disturbances

\* Moving to a step keeps the control variables in their types.
LEMMA MoveOK ==
  ASSUME TypeOK, NEW p \in Procs, NEW step \in Steps, Move(p, step)
  PROVE  ControlOK'
  BY DEF TypeOK, ControlOK, Move

\* Moving without touching the locals keeps those, too.
LEMMA GoOK ==
  ASSUME TypeOK, NEW p \in Procs, NEW step \in Steps, Go(p, step),
         cancelled' \in [Procs -> BOOLEAN]
  PROVE  ControlOK' /\ WorkOK'
  BY MoveOK DEF TypeOK, WorkOK, Go, work

\* Ending a command does.
LEMMA EndOK ==
  ASSUME TypeOK, NEW p \in Procs, NEW r \in Results, End(p, r), UNCHANGED cancelled
  PROVE  ControlOK' /\ WorkOK'
<1>1. ControlOK'
  BY DEF TypeOK, ControlOK, End, LockAfter, Steps
<1>2. op' \in [Procs -> Ops \cup {NoOp}] /\ cancelled' \in [Procs -> BOOLEAN]
  BY DEF TypeOK, WorkOK, End
<1>3. desired' \in [Procs -> RuleSet] /\ \A q \in Procs : Normal(desired'[q])
  BY ConstantsOK DEF TypeOK, WorkOK, End
<1>4. before' \in [Procs -> Kernel] /\ seen' \in [Procs -> Database]
  BY ConstantsOK DEF TypeOK, WorkOK, End
<1> QED BY <1>1, <1>2, <1>3, <1>4 DEF WorkOK

\* What a family call needs of its target, and what it does.
LEMMA TargetsOK ==
  ASSUME TypeOK, NEW p \in Procs, NEW f \in Families
  PROVE  ApplyTarget(p, f) \in FamilyState /\ before[p][f] \in FamilyState
  BY DEF TypeOK, WorkOK, RuleSet, Kernel, ApplyTarget, FamilyRules, Managed, FamilyState

\* A family call leaves a kernel state and goes to one of its two successors.
LEMMA FamilyCallOK ==
  ASSUME TypeOK, NEW p \in Procs, NEW f \in Families, NEW t \in FamilyState,
         NEW next \in Steps, NEW onError \in Steps,
         FamilyCall(p, f, t, next, onError)
  PROVE  /\ kernel' \in Kernel
         /\ budget' \in [Disturbances -> Nat]
         /\ cancelled' \in [Procs -> BOOLEAN]
         /\ Go(p, next) \/ Go(p, onError)
<1>1. kernel \in Kernel /\ kernel[f] \in FamilyState
  BY DEF TypeOK, SharedOK, Kernel
<1>2. \A x \in FamilyState : [kernel EXCEPT ![f] = x] \in Kernel
  BY <1>1 DEF Kernel
<1>3. /\ AfterFailure(kernel[f], t) \subseteq FamilyState
      /\ AfterKill(kernel[f], t) \subseteq FamilyState
  BY <1>1, CallsLeaveStates
<1>4. kernel' \in Kernel
  BY <1>1, <1>2, <1>3 DEF FamilyCall
<1>5. budget' \in [Disturbances -> Nat] /\ cancelled' \in [Procs -> BOOLEAN]
  BY SpendOK DEF FamilyCall, TypeOK, SharedOK, WorkOK, Disturbances
<1> QED BY <1>4, <1>5 DEF FamilyCall

--------------------------------------------------------------------------------
(* Type correctness *)

\* Whatever a command asks for is a rule set.
LEMMA WantedOK ==
  ASSUME TypeOK, NEW o \in Ops, NEW s \in Wanted(o)
  PROVE  s \in RuleSet
<1>1. o \in Requests BY OpsAssumption
<1>2. db.set \in RuleSet /\ BackedUpSets \subseteq RuleSet
  BY DEF TypeOK, SharedOK, Database, BackedUpSets
<1>3. CASE o.kind = "reconcile" BY <1>2, <1>3 DEF Wanted, ReconcileWants
<1>4. CASE o.kind = "restore" BY <1>2, <1>4 DEF Wanted, RestoreWants
<1>5. CASE o.kind \notin {"reconcile", "restore"}
  <2>1. s \in Edits(o, db.set) BY <1>5 DEF Wanted
  <2> QED BY <2>1, <1>1, <1>2, <1>5, EditsAreRuleSets
<1> QED BY <1>3, <1>4, <1>5

\* The initial states are type-correct.
LEMMA InitTypeOK == Init => TypeOK
<1> SUFFICES ASSUME Init PROVE TypeOK OBVIOUS
<1>1. db \in Database /\ Normal(db.set)
  BY InitialAssumption DEF Init, Database
<1>2. kernel \in Kernel
  <2>1. Installed(db.set) \in Kernel
    BY <1>1 DEF Installed, Kernel, FamilyState, Managed, FamilyRules, Database, RuleSet
  <2> QED BY <2>1, ConstantsOK DEF Init, Only
<1>3. ControlOK BY DEF Init, ControlOK, Steps, Results
<1>4. WorkOK BY ConstantsOK DEF Init, WorkOK
<1>5. SharedOK
  BY <1>1, <1>2, BudgetAssumption DEF Init, SharedOK, Phases
<1> QED BY <1>3, <1>4, <1>5 DEF TypeOK

\* The routine backup of a command, and the removal of a backup by somebody else, leave
\* backups.
LEMMA BackupsOK ==
  ASSUME TypeOK, (\E p \in Procs : Backup(p)) \/ Tidy
  PROVE  backups' \in Seq(RuleSet)
<1>1. backups \in Seq(RuleSet) /\ MaxBackups \in Nat
  BY MaxBackupsAssumption DEF TypeOK, SharedOK
<1>2. ASSUME NEW p \in Procs, Backup(p) PROVE backups' \in Seq(RuleSet)
  <2>1. BackupOf(p) \in RuleSet BY DEF BackupOf, TypeOK, WorkOK, Database
  <2>2. ASSUME NEW place \in 1 .. Len(backups) + 1 PROVE Written(p, place) \in Seq(RuleSet)
    BY <1>1, <2>1 DEF Written
  <2>3. ASSUME NEW files \in Seq(RuleSet) PROVE Kept(files) \in Seq(RuleSet)
    BY <1>1 DEF Kept
  <2>4. ASSUME NEW files \in Seq(RuleSet) PROVE HalfPruned(files) \subseteq Seq(RuleSet)
    <3>1. ASSUME NEW i \in MaxBackups + 1 .. Len(files)
          PROVE  SubSeq(files, 1, MaxBackups) \o SubSeq(files, i, Len(files)) \in Seq(RuleSet)
      BY <1>1
    <3> QED BY <3>1 DEF HalfPruned
  <2> QED BY <1>1, <1>2, <2>2, <2>3, <2>4 DEF Backup
<1>3. CASE Tidy
  <2>1. ASSUME NEW i \in DOMAIN backups
        PROVE  SubSeq(backups, 1, i - 1) \o SubSeq(backups, i + 1, Len(backups)) \in Seq(RuleSet)
    BY <1>1
  <2> QED BY <1>3, <2>1 DEF Tidy
<1> QED BY <1>2, <1>3

\* What else a routine backup does: the command goes on, or ends.
LEMMA BackupShape ==
  ASSUME TypeOK, NEW p \in Procs, Backup(p)
  PROVE  /\ At(p, "backup") /\ UNCHANGED <<cancelled, journal, db, kernel>>
         /\ Go(p, "applying") \/ End(p, "error")
         /\ budget' \in [Disturbances -> Nat]
  BY SpendAllOK DEF Backup

\* A step that touches no shared variable but the budget.
LEMMA SharedStaysOK ==
  ASSUME TypeOK, UNCHANGED <<journal, db, kernel, backups>>,
         budget' \in [Disturbances -> Nat]
  PROVE  SharedOK'
  BY DEF TypeOK, SharedOK

\* What happens before the lock keeps the types; only Normal rule sets get past it.
LEMMA StartTypeOK ==
  ASSUME TypeOK, NEW p \in Procs, Start(p) \/ Refuse(p)
  PROVE  TypeOK'
<1>1. CASE Start(p)
  <2>1. PICK o \in Ops : \E s \in Wanted(o) :
          /\ Normal(s)
          /\ op' = [op EXCEPT ![p] = o]
          /\ desired' = [desired EXCEPT ![p] = s]
    BY <1>1 DEF Start, Accepts
  <2>2. PICK s \in Wanted(o) :
          /\ Normal(s)
          /\ op' = [op EXCEPT ![p] = o]
          /\ desired' = [desired EXCEPT ![p] = s]
    BY <2>1
  <2>3. s \in RuleSet BY WantedOK
  <2>4. ControlOK' BY <1>1, MoveOK DEF Start, Steps
  <2>5. op' \in [Procs -> Ops \cup {NoOp}]
    BY <2>2 DEF TypeOK, WorkOK
  <2>6. desired' \in [Procs -> RuleSet] /\ \A q \in Procs : Normal(desired'[q])
    BY <2>2, <2>3 DEF TypeOK, WorkOK
  <2>7. WorkOK' BY <1>1, <2>5, <2>6 DEF TypeOK, WorkOK, Start
  <2>8. SharedOK' BY <1>1 DEF TypeOK, SharedOK, Start
  <2> QED BY <2>4, <2>7, <2>8 DEF TypeOK
<1>2. CASE Refuse(p)
  <2>1. ControlOK' /\ WorkOK' BY <1>2, EndOK DEF Refuse, Results
  <2>2. SharedOK' BY <1>2 DEF TypeOK, SharedOK, Refuse
  <2> QED BY <2>1, <2>2 DEF TypeOK
<1> QED BY <1>1, <1>2

\* Every step of a started command keeps the types.
LEMMA StepTypeOK ==
  ASSUME TypeOK, NEW p \in Procs, Step(p)
  PROVE  TypeOK'
<1> USE DEF Steps, Results
<1>1. CASE Acquire(p)
  BY <1>1 DEF TypeOK, ControlOK, WorkOK, SharedOK, Acquire, work
<1>2. CASE GiveUp(p)
  BY <1>2, EndOK DEF TypeOK, SharedOK, GiveUp
<1>3. CASE Snapshot(p)
  <2>1. SharedOK' BY <1>3, SharedStaysOK, CommandFailsOK DEF Snapshot, TypeOK, SharedOK
  <2>2. CASE End(p, "error")
    BY <1>3, <2>1, <2>2, EndOK DEF Snapshot, TypeOK
  <2>3. CASE Move(p, "check") /\ before' = [before EXCEPT ![p] = kernel]
             /\ UNCHANGED <<op, desired, seen>>
    BY <1>3, <2>1, <2>3, MoveOK DEF Snapshot, TypeOK, WorkOK, SharedOK
  <2> QED BY <1>3, <2>2, <2>3 DEF Snapshot
<1>4. CASE Check(p)
  <2>1. SharedOK' BY <1>4, SpendOK DEF Check, Disturbances, TypeOK, SharedOK
  <2>2. CASE End(p, "error")
    BY <1>4, <2>1, <2>2, EndOK DEF Check, TypeOK
  <2>3. CASE Move(p, "prepare") /\ seen' = [seen EXCEPT ![p] = db]
             /\ UNCHANGED <<op, desired, before>>
    BY <1>4, <2>1, <2>3, MoveOK DEF Check, TypeOK, WorkOK, SharedOK
  <2> QED BY <1>4, <2>2, <2>3 DEF Check
<1>5. CASE Prepare(p)
  <2>1. SharedOK'
    BY <1>5, SpendOK DEF Prepare, Journal, WriteFails, Disturbances, TypeOK, SharedOK, Phases
  <2> QED BY <1>5, <2>1, GoOK, EndOK DEF Prepare, Journal, TypeOK, WorkOK
<1>6. CASE Backup(p)
  <2>1. SharedOK' BY <1>6, BackupShape, BackupsOK DEF TypeOK, SharedOK
  <2> QED BY <1>6, <2>1, BackupShape, GoOK, EndOK DEF TypeOK, WorkOK
<1>7. CASE Applying(p)
  <2>1. SharedOK'
    BY <1>7, SpendOK DEF Applying, Journal, WriteFails, Disturbances, TypeOK, SharedOK, Phases
  <2> QED BY <1>7, <2>1, GoOK, EndOK DEF Applying, Journal, TypeOK, WorkOK
<1>8. ASSUME NEW f \in Families, NEW step, NEW next \in Steps, ApplyFamily(p, f, step, next)
      PROVE  TypeOK'
  <2>1. /\ kernel' \in Kernel
        /\ budget' \in [Disturbances -> Nat]
        /\ cancelled' \in [Procs -> BOOLEAN]
        /\ Go(p, next) \/ Go(p, "rollback")
    BY <1>8, FamilyCallOK, TargetsOK DEF ApplyFamily
  <2>2. SharedOK' BY <1>8, <2>1 DEF ApplyFamily, TypeOK, SharedOK
  <2> QED BY <2>1, <2>2, GoOK DEF TypeOK
<1>9. ASSUME NEW step, NEW next \in Steps, Verify(p, step, next)
      PROVE  TypeOK'
  <2>1. SharedOK'
    BY <1>9, SharedStaysOK, CommandFailsOK DEF Verify, TypeOK, SharedOK
  <2> QED BY <1>9, <2>1, GoOK DEF Verify, TypeOK, WorkOK
<1>10. CASE Applied(p)
  <2>1. SharedOK'
    BY <1>10, SpendOK DEF Applied, Journal, WriteFails, Disturbances, TypeOK, SharedOK, Phases
  <2> QED BY <1>10, <2>1, GoOK DEF Applied, Journal, TypeOK, WorkOK
<1>11. CASE Verifying(p)
  <2>1. SharedOK'
    BY <1>11, SpendOK DEF Verifying, Journal, WriteFails, Disturbances, TypeOK, SharedOK, Phases
  <2> QED BY <1>11, <2>1, GoOK DEF Verifying, Journal, TypeOK, WorkOK
<1>12. CASE Save(p)
  <2>1. [set |-> desired[p], gen |-> NextGeneration(p)] \in Database /\ Normal(desired[p])
    BY DEF TypeOK, WorkOK, Database, NextGeneration
  <2>2. budget' \in [Disturbances -> Nat]
    <3>1. "fail" \in Disturbances BY DEF Disturbances
    <3> QED BY <1>12, <3>1, SpendOK DEF Save, WriteFails, TypeOK, SharedOK
  <2>3. db' \in Database /\ Normal(db'.set)
    BY <1>12, <2>1 DEF Save, TypeOK, SharedOK
  <2>4. SharedOK' BY <1>12, <2>2, <2>3 DEF Save, TypeOK, SharedOK
  <2> QED BY <1>12, <2>4, GoOK DEF Save, SaveError, TypeOK, WorkOK
<1>13. CASE Finish(p)
  <2>1. SharedOK'
    BY <1>13, SpendOK DEF Finish, Journal, WriteFails, Disturbances, TypeOK, SharedOK, Phases
  <2> QED BY <1>13, <2>1, EndOK DEF Finish, Journal, TypeOK
<1>14. CASE Rollback(p)
  <2>1. SharedOK'
    BY <1>14, SpendOK DEF Rollback, TryJournal, Journal, WriteFails, Disturbances, TypeOK,
       SharedOK, Phases
  <2> QED BY <1>14, <2>1, GoOK DEF Rollback, TypeOK, WorkOK
<1>15. ASSUME NEW f \in Families, NEW step, NEW next \in Steps, RestoreFamily(p, f, step, next)
       PROVE  TypeOK'
  <2>1. /\ kernel' \in Kernel
        /\ budget' \in [Disturbances -> Nat]
        /\ cancelled' \in [Procs -> BOOLEAN]
        /\ Go(p, next) \/ Go(p, "failed")
    BY <1>15, FamilyCallOK, TargetsOK DEF RestoreFamily
  <2>2. SharedOK' BY <1>15, <2>1 DEF RestoreFamily, TypeOK, SharedOK
  <2> QED BY <2>1, <2>2, GoOK DEF TypeOK
<1>16. CASE Recheck(p)
  <2>1. SharedOK'
    BY <1>16, SharedStaysOK, CommandFailsOK DEF Recheck, TypeOK, SharedOK
  <2> QED BY <1>16, <2>1, GoOK DEF Recheck, TypeOK, WorkOK
<1>17. CASE RolledBack(p) \/ RollbackFailed(p)
  <2>1. SharedOK'
    BY <1>17, SpendOK DEF RolledBack, RollbackFailed, TryJournal, Journal, WriteFails,
       Disturbances, TypeOK, SharedOK, Phases
  <2> QED BY <1>17, <2>1, EndOK DEF RolledBack, RollbackFailed, TypeOK
<1> QED
  BY <1>1, <1>2, <1>3, <1>4, <1>5, <1>6, <1>7, <1>8, <1>9, <1>10, <1>11, <1>12, <1>13,
     <1>14, <1>15, <1>16, <1>17
  DEF Step, Families

\* So does what happens to a command from outside.
LEMMA OutsideTypeOK ==
  ASSUME TypeOK, \/ \E p \in Procs : Cancel(p) \/ Crash(p)
                 \/ Reboot \/ Tidy
  PROVE  TypeOK'
<1> USE DEF Steps, Results
<1>1. ASSUME NEW p \in Procs, Cancel(p) PROVE TypeOK'
  <2>1. SharedOK' BY <1>1, SpendOK DEF Cancel, Disturbances, TypeOK, SharedOK
  <2> QED BY <1>1, <2>1 DEF Cancel, work, TypeOK, ControlOK, WorkOK
<1>2. ASSUME NEW p \in Procs, Crash(p) PROVE TypeOK'
  <2>1. ControlOK' /\ WorkOK' BY <1>2, EndOK DEF Crash
  <2>2. kernel' \in Kernel
    <3>1. CASE UNCHANGED kernel BY <3>1 DEF TypeOK, SharedOK
    <3>2. ASSUME NEW c \in Calls(p),
                 \E x \in AfterCrash(kernel[c[1]], c[2]) :
                   kernel' = [kernel EXCEPT ![c[1]] = x]
          PROVE  kernel' \in Kernel
      <4>1. c[1] \in Families /\ c[2] \in FamilyState
        <5>1. \E f \in Families : c = <<f, ApplyTarget(p, f)>> \/ c = <<f, before[p][f]>>
          BY <3>2 DEF Calls, Families
        <5> QED BY <5>1, TargetsOK
      <4>2. kernel \in Kernel /\ kernel[c[1]] \in FamilyState
        BY <4>1 DEF TypeOK, SharedOK, Kernel
      <4>3. AfterCrash(kernel[c[1]], c[2]) \subseteq FamilyState
        BY <4>1, <4>2, CallsLeaveStates
      <4> QED BY <3>2, <4>1, <4>2, <4>3 DEF Kernel
    <3> QED BY <1>2, <3>1, <3>2 DEF Crash
  <2>3. SharedOK' BY <1>2, <2>2, SpendOK DEF Crash, Disturbances, TypeOK, SharedOK
  <2> QED BY <2>1, <2>3 DEF TypeOK
<1>3. ASSUME Reboot PROVE TypeOK'
  <2>1. ControlOK' BY <1>3 DEF Reboot, TypeOK, ControlOK
  <2>2. WorkOK' BY <1>3, ConstantsOK DEF Reboot, TypeOK, WorkOK
  <2>3. SharedOK' BY <1>3, ConstantsOK, SpendOK DEF Reboot, Disturbances, TypeOK, SharedOK
  <2> QED BY <2>1, <2>2, <2>3 DEF TypeOK
<1>4. ASSUME Tidy PROVE TypeOK'
  <2>1. SharedOK' BY <1>4, BackupsOK, SpendOK DEF Tidy, Disturbances, TypeOK, SharedOK
  <2> QED BY <1>4, <2>1 DEF Tidy, work, TypeOK, ControlOK, WorkOK
<1> QED BY <1>1, <1>2, <1>3, <1>4

\* Every step and stutter keeps the types.
LEMMA NextTypeOK == TypeOK /\ [Next]_vars => TypeOK'
<1>1. TypeOK /\ Next => TypeOK'
  BY StartTypeOK, StepTypeOK, OutsideTypeOK DEF Next
<1>2. TypeOK /\ UNCHANGED vars => TypeOK'
  BY DEF vars, TypeOK, ControlOK, WorkOK, SharedOK
<1> QED BY <1>1, <1>2

\* Whatever was edited, imported or restored, by any number of commands with any
\* disturbances: the database and what commands want to commit satisfy Normalize.
THEOREM TypeCorrect == Spec => []TypeOK
<1> QED BY InitTypeOK, NextTypeOK, PTL DEF Spec

--------------------------------------------------------------------------------
(* Safety *)

IInv == TypeOK /\ LockProtects /\ WorkIsCurrent

\* The step of p leaves the control and the locals of other commands alone.
OwnStep(p) ==
  \A q \in Procs \ {p} :
    /\ pc'[q] = pc[q] /\ result'[q] = result[q]
    /\ op'[q] = op[q] /\ desired'[q] = desired[q]
    /\ before'[q] = before[q] /\ seen'[q] = seen[q]

--------------------------------------------------------------------------------
(* The lock *)

\* What moving does to the control variables.
LEMMA MoveShape ==
  ASSUME TypeOK, NEW p \in Procs, NEW s, Move(p, s)
  PROVE  /\ pc'[p] = s /\ lock' = lock /\ result' = result
         /\ \A q \in Procs \ {p} : pc'[q] = pc[q]
  BY DEF TypeOK, ControlOK, Move

\* What moving and keeping the locals does.
LEMMA GoShape ==
  ASSUME TypeOK, NEW p \in Procs, NEW s, Go(p, s)
  PROVE  /\ pc'[p] = s /\ lock' = lock /\ result' = result
         /\ op' = op /\ desired' = desired /\ before' = before /\ seen' = seen
         /\ OwnStep(p)
  BY MoveShape DEF Go, work, OwnStep

\* What ending a command does.
LEMMA EndShape ==
  ASSUME TypeOK, NEW p \in Procs, NEW r, End(p, r)
  PROVE  /\ pc'[p] = "done" /\ lock' = LockAfter(p) /\ result'[p] = r
         /\ OwnStep(p)
  BY DEF TypeOK, ControlOK, WorkOK, End, OwnStep

\* A started command takes the lock, ends, or moves on holding it.
LEMMA StepShape ==
  ASSUME TypeOK, NEW p \in Procs, Step(p)
  PROVE  /\ OwnStep(p)
         /\ \/ Acquire(p)
            \/ \E r : End(p, r)
            \/ pc[p] \in Critical /\ \E s \in Critical : Move(p, s)
<1> USE DEF Critical, Steps, At
<1>1. CASE Acquire(p)
  BY <1>1 DEF Acquire, OwnStep, TypeOK, ControlOK, work
<1>2. CASE GiveUp(p)
  BY <1>2, EndShape DEF GiveUp
<1>3. CASE Snapshot(p)
  <2>1. CASE End(p, "error") BY <2>1, EndShape
  <2>2. CASE Move(p, "check") /\ before' = [before EXCEPT ![p] = kernel]
             /\ UNCHANGED <<op, desired, seen>>
    BY <1>3, <2>2, MoveShape DEF Snapshot, OwnStep, TypeOK, WorkOK
  <2> QED BY <1>3, <2>1, <2>2 DEF Snapshot
<1>4. CASE Check(p)
  <2>1. CASE End(p, "error") BY <2>1, EndShape
  <2>2. CASE Move(p, "prepare") /\ seen' = [seen EXCEPT ![p] = db]
             /\ UNCHANGED <<op, desired, before>>
    BY <1>4, <2>2, MoveShape DEF Check, OwnStep, TypeOK, WorkOK
  <2> QED BY <1>4, <2>1, <2>2 DEF Check
<1>5. ASSUME NEW s \in Critical, Go(p, s), pc[p] \in Critical
      PROVE  /\ OwnStep(p)
             /\ pc[p] \in Critical /\ \E t \in Critical : Move(p, t)
  BY <1>5, GoShape DEF Go
<1>6. ASSUME NEW r, End(p, r)
      PROVE  OwnStep(p) /\ \E t : End(p, t)
  BY <1>6, EndShape
<1>7. CASE Prepare(p)
  BY <1>7, <1>5, <1>6 DEF Prepare, Journal
<1>8. CASE Backup(p)
  BY <1>8, <1>5, <1>6 DEF Backup
<1>9. CASE Applying(p)
  BY <1>9, <1>5, <1>6 DEF Applying, Journal
<1>10. CASE \/ ApplyFamily(p, 4, "apply4", "apply6")
            \/ ApplyFamily(p, 6, "apply6", "confirm")
  BY <1>10, <1>5 DEF ApplyFamily, FamilyCall
<1>11. CASE \/ Verify(p, "confirm", "applied")
            \/ Verify(p, "verify", IF Commits(op[p]) THEN "save" ELSE "finish")
  BY <1>11, <1>5 DEF Verify
<1>12. CASE Applied(p) \/ Verifying(p)
  BY <1>12, <1>5 DEF Applied, Verifying, Journal
<1>13. CASE Save(p)
  BY <1>13, <1>5 DEF Save, SaveError
<1>14. CASE Finish(p)
  BY <1>14, <1>6 DEF Finish, Journal
<1>15. CASE Rollback(p)
  BY <1>15, <1>5 DEF Rollback
<1>16. CASE \/ RestoreFamily(p, 4, "restore4", "restore6")
            \/ RestoreFamily(p, 6, "restore6", "recheck")
  BY <1>16, <1>5 DEF RestoreFamily, FamilyCall
<1>17. CASE Recheck(p)
  BY <1>17, <1>5 DEF Recheck
<1>18. CASE RolledBack(p) \/ RollbackFailed(p)
  BY <1>18, <1>6 DEF RolledBack, RollbackFailed
<1> QED
  BY <1>1, <1>2, <1>3, <1>4, <1>7, <1>8, <1>9, <1>10, <1>11, <1>12, <1>13, <1>14,
     <1>15, <1>16, <1>17, <1>18
  DEF Step

\* Before the lock a command touches neither the database nor the firewall, and
\* killing it there does not either.
LEMMA OnlyOwnersChangeState ==
  ASSUME TypeOK, NEW p \in Procs, pc[p] \notin Critical,
         Start(p) \/ Refuse(p) \/ Step(p) \/ Cancel(p) \/ Crash(p)
  PROVE  UNCHANGED <<db, kernel>>
<1> USE DEF Critical, Steps, At
<1>1. CASE Start(p) \/ Refuse(p) \/ Cancel(p)
  BY <1>1 DEF Start, Refuse, Cancel
<1>2. CASE Step(p)
  <2>1. Acquire(p) \/ GiveUp(p)
    BY <1>2 DEF Step, Snapshot, Check, Prepare, Backup, Applying, ApplyFamily, Verify,
       Applied, Verifying, Save, Finish, Rollback, RestoreFamily, Recheck, RolledBack,
       RollbackFailed
  <2> QED BY <2>1 DEF Acquire, GiveUp
<1>3. CASE Crash(p)
  <2>1. Calls(p) = {} BY DEF Calls
  <2> QED BY <1>3, <2>1 DEF Crash
<1> QED BY <1>1, <1>2, <1>3

\* Every step keeps the lock with the one command that is past lock.Acquire.
LEMMA LockInductive ==
  ASSUME TypeOK, LockProtects, [Next]_vars
  PROVE  LockProtects'
<1> USE DEF Critical, Steps
<1>1. ASSUME NEW p \in Procs, OwnStep(p), pc'[p] = "done", lock' = LockAfter(p)
      PROVE  LockProtects'
  BY <1>1, ProcsAssumption DEF LockProtects, OwnStep, LockAfter
<1>2. ASSUME NEW p \in Procs, Start(p) PROVE LockProtects'
  BY <1>2, MoveShape DEF Start, LockProtects, At
<1>3. ASSUME NEW p \in Procs, Refuse(p) \/ Crash(p) PROVE LockProtects'
  BY <1>3, <1>1, EndShape DEF Refuse, Crash
<1>4. ASSUME NEW p \in Procs, Cancel(p) PROVE LockProtects'
  BY <1>4 DEF Cancel, LockProtects
<1>5. ASSUME NEW p \in Procs, Step(p) PROVE LockProtects'
  <2>1. CASE Acquire(p)
    BY <2>1, ProcsAssumption DEF Acquire, LockProtects, TypeOK, ControlOK
  <2>2. CASE \E r : End(p, r) BY <2>2, <1>1, EndShape
  <2>3. CASE pc[p] \in Critical /\ \E s \in Critical : Move(p, s)
    BY <2>3, MoveShape DEF LockProtects
  <2> QED BY <1>5, <2>1, <2>2, <2>3, StepShape
<1>6. ASSUME Reboot PROVE LockProtects'
  BY <1>6, ProcsAssumption DEF Reboot, LockProtects, Active
<1>7. CASE UNCHANGED vars \/ Tidy BY <1>7 DEF vars, Tidy, work, LockProtects
<1> QED BY <1>2, <1>3, <1>4, <1>5, <1>6, <1>7 DEF Next

\* In the initial states nobody is past the lock.
LEMMA InitInvariant == Init => IInv
<1> SUFFICES ASSUME Init PROVE IInv OBVIOUS
<1>1. LockProtects BY ProcsAssumption DEF Init, LockProtects, Critical, Steps
<1>2. WorkIsCurrent BY DEF Init, WorkIsCurrent, Current, Checked, Midway
<1> QED BY <1>1, <1>2, InitTypeOK DEF IInv

--------------------------------------------------------------------------------
(* What a command read under the lock *)

\* A step that keeps the locals and the database, between two steps at which the
\* database has been read, keeps Current.
LEMMA StaysCurrent ==
  ASSUME TypeOK, NEW p \in Procs, Current(p), pc[p] \in Checked,
         NEW s \in Checked \ {"save", "rolledback"}, Go(p, s), UNCHANGED db
  PROVE  Current(p)'
  BY GoShape DEF Current, Go, SameEnabledRules, Commits

\* A command that has ended, or has not loaded the database yet, has nothing to
\* keep current.
LEMMA NothingToKeep ==
  ASSUME NEW p \in Procs, pc'[p] \notin Checked
  PROVE  Current(p)'
  BY DEF Current, Checked, Midway

\* The command's own steps keep what it read current.
LEMMA OwnCurrent ==
  ASSUME TypeOK, NEW p \in Procs, Current(p), Step(p)
  PROVE  Current(p)'
<1> USE DEF Checked, Midway, At
<1>1. ASSUME NEW r, End(p, r) PROVE Current(p)'
  BY <1>1, EndShape, NothingToKeep
<1>2. CASE Acquire(p)
  <2>1. pc'[p] = "snapshot" BY <1>2 DEF Acquire, TypeOK, ControlOK
  <2> QED BY <2>1, NothingToKeep
<1>3. CASE GiveUp(p) BY <1>3, <1>1 DEF GiveUp
<1>4. CASE Snapshot(p)
  <2>1. CASE Move(p, "check") BY <2>1, MoveShape, NothingToKeep
  <2> QED BY <1>4, <1>1, <2>1 DEF Snapshot
<1>5. CASE Check(p)
  <2>1. CASE /\ ~Drifted(p) /\ Move(p, "prepare") /\ seen' = [seen EXCEPT ![p] = db]
             /\ UNCHANGED <<op, desired, before>>
    <3>1. pc'[p] = "prepare" /\ seen'[p] = db BY <2>1, MoveShape DEF TypeOK, WorkOK
    <3>2. UNCHANGED <<db, op, before>> BY <1>5, <2>1 DEF Check
    <3> QED BY <2>1, <3>1, <3>2 DEF Current, Drifted
  <2> QED BY <1>5, <1>1, <2>1 DEF Check
<1>6. CASE Prepare(p)
  BY <1>6, <1>1, StaysCurrent DEF Prepare, Journal
<1>7. CASE Backup(p)
  BY <1>7, <1>1, StaysCurrent DEF Backup
<1>8. CASE Applying(p)
  BY <1>8, <1>1, StaysCurrent DEF Applying, Journal
<1>9. CASE \/ ApplyFamily(p, 4, "apply4", "apply6")
           \/ ApplyFamily(p, 6, "apply6", "confirm")
  BY <1>9, StaysCurrent DEF ApplyFamily, FamilyCall
<1>10. CASE Verify(p, "confirm", "applied")
  BY <1>10, StaysCurrent DEF Verify
<1>11. CASE Verify(p, "verify", IF Commits(op[p]) THEN "save" ELSE "finish")
  <2>1. CASE Go(p, "rollback") BY <1>11, <2>1, StaysCurrent DEF Verify
  <2>2. CASE Go(p, "finish") BY <2>2, GoShape, NothingToKeep
  <2>3. CASE Go(p, "save") /\ KernelReadable(kernel) /\ KernelRules(kernel) = desired[p].on
    BY <1>11, <2>3, GoShape
    DEF Verify, Current, KernelReadable, KernelRules, SameEnabledRules, Commits
  <2> QED BY <1>11, <2>1, <2>2, <2>3 DEF Verify
<1>12. CASE Applied(p) \/ Verifying(p)
  BY <1>12, StaysCurrent DEF Applied, Verifying, Journal
<1>13. CASE Save(p)
  <2>1. CASE Go(p, "finish") BY <2>1, GoShape, NothingToKeep
  <2>2. CASE Go(p, "rollback") /\ UNCHANGED db BY <1>13, <2>2, StaysCurrent DEF Save
  <2> QED BY <1>13, <2>1, <2>2 DEF Save, SaveError
<1>14. CASE Finish(p) BY <1>14, <1>1 DEF Finish, Journal
<1>15. CASE Rollback(p) BY <1>15, StaysCurrent DEF Rollback
<1>16. CASE \/ RestoreFamily(p, 4, "restore4", "restore6")
            \/ RestoreFamily(p, 6, "restore6", "recheck")
  BY <1>16, StaysCurrent DEF RestoreFamily, FamilyCall
<1>17. CASE Recheck(p)
  <2>1. CASE Go(p, "failed") BY <1>17, <2>1, StaysCurrent DEF Recheck
  <2>2. CASE /\ Go(p, "rolledback") /\ KernelReadable(kernel)
             /\ KernelRules(kernel) = KernelRules(before[p])
    BY <1>17, <2>2, GoShape
    DEF Recheck, Current, KernelReadable, KernelRules, SameEnabledRules, Commits
  <2> QED BY <1>17, <2>1, <2>2 DEF Recheck
<1>18. CASE RolledBack(p) \/ RollbackFailed(p)
  BY <1>18, <1>1 DEF RolledBack, RollbackFailed
<1> QED
  BY <1>2, <1>3, <1>4, <1>5, <1>6, <1>7, <1>8, <1>9, <1>10, <1>11, <1>12, <1>13, <1>14,
     <1>15, <1>16, <1>17, <1>18
  DEF Step

\* The steps of others do not disturb it: whoever is not past the lock changes
\* neither the database nor the kernel, and only one command is past the lock.
LEMMA OthersCurrent ==
  ASSUME TypeOK, LockProtects, NEW p \in Procs, NEW q \in Procs \ {p}, Current(q),
         OwnStep(p), Start(p) \/ Refuse(p) \/ Step(p) \/ Cancel(p) \/ Crash(p)
  PROVE  Current(q)'
<1>1. CASE pc[q] \notin Checked
  BY <1>1, NothingToKeep DEF OwnStep
<1>2. CASE pc[q] \in Checked
  <2>1. pc[q] \in Critical BY <1>2 DEF Checked, Midway, Critical, Steps
  <2>2. pc[p] \notin Critical BY <2>1 DEF LockProtects
  <2>3. UNCHANGED <<db, kernel>> BY <2>2, OnlyOwnersChangeState
  <2> QED BY <2>3
    DEF Current, OwnStep, KernelReadable, KernelRules, SameEnabledRules, Commits
<1> QED BY <1>1, <1>2

\* Every step keeps what commands read under the lock current.
LEMMA CurrentInductive ==
  ASSUME IInv, [Next]_vars
  PROVE  WorkIsCurrent'
<1> USE DEF IInv
<1>1. ASSUME NEW p \in Procs, Start(p) \/ Refuse(p) \/ Step(p) \/ Cancel(p) \/ Crash(p)
      PROVE  WorkIsCurrent'
  <2>1. OwnStep(p)
    <3>1. CASE Start(p)
      BY <3>1, MoveShape DEF Start, OwnStep, TypeOK, WorkOK
    <3>2. CASE Refuse(p) \/ Crash(p) BY <3>2, EndShape DEF Refuse, Crash
    <3>3. CASE Cancel(p) BY <3>3 DEF Cancel, OwnStep, work
    <3> QED BY <1>1, <3>1, <3>2, <3>3, StepShape
  <2>2. Current(p)'
    <3>1. CASE Start(p)
      BY <3>1, MoveShape, NothingToKeep DEF Start, Checked, Midway
    <3>2. CASE Refuse(p) \/ Crash(p)
      BY <3>2, EndShape, NothingToKeep DEF Refuse, Crash, Checked, Midway
    <3>3. CASE Cancel(p)
      BY <3>3 DEF Cancel, work, WorkIsCurrent, Current
    <3> QED BY <1>1, <3>1, <3>2, <3>3, OwnCurrent DEF WorkIsCurrent
  <2> QED BY <1>1, <2>1, <2>2, OthersCurrent DEF WorkIsCurrent
<1>2. ASSUME Reboot PROVE WorkIsCurrent'
  <2>1. \A p \in Procs : pc'[p] \notin Checked
    BY <1>2 DEF Reboot, Active, Checked, Midway
  <2> QED BY <2>1, NothingToKeep DEF WorkIsCurrent
<1>3. CASE UNCHANGED vars \/ Tidy
  BY <1>3 DEF vars, Tidy, work, WorkIsCurrent, Current
<1> QED BY <1>1, <1>2, <1>3 DEF Next

\* The inductive invariant.
LEMMA NextInvariant == IInv /\ [Next]_vars => IInv'
  BY NextTypeOK, LockInductive, CurrentInductive DEF IInv

\* It holds in every reachable state.
LEMMA Invariant == Spec => []IInv
  BY InitInvariant, NextInvariant, PTL DEF Spec

\* Mutual exclusion: a command is past lock.Acquire if and only if it owns the lock,
\* also after other owners were killed or the machine restarted.
THEOREM MutualExclusion == Spec => []LockProtects
  BY Invariant, PTL DEF IInv

\* What a command read under the lock is true when it acts on it.
THEOREM ReadsStayTrue == Spec => []WorkIsCurrent
  BY Invariant, PTL DEF IInv

--------------------------------------------------------------------------------
(* What commits and rollbacks leave behind *)

\* Only Save changes the database, to what its command wants, one generation on.
LEMMA OnlySaveCommits ==
  ASSUME IInv, [Next]_vars, db' # db
  PROVE  \E p \in Procs :
           /\ pc[p] = "save"
           /\ db' = [set |-> desired[p], gen |-> NextGeneration(p)]
           /\ UNCHANGED kernel
<1>1. PICK p \in Procs : Step(p)
  BY DEF vars, Next, Start, Refuse, Cancel, Crash, Reboot, Tidy
<1>2. Save(p)
  BY <1>1 DEF Step, Acquire, GiveUp, Snapshot, Check, Prepare, Backup, Applying,
     ApplyFamily, Verify, Applied, Verifying, Finish, Rollback, RestoreFamily, Recheck,
     RolledBack, RollbackFailed
<1> QED BY <1>2 DEF Save, At

\* The database changes only to what the firewall enforces at that moment: Verify
\* comes before Save, and nobody touches the kernel in between.
THEOREM CommitsAreEnforced == Spec => CommitsWhatIsEnforced
<1>1. IInv /\ [Next]_vars => (db' # db => Synced')
  <2> SUFFICES ASSUME IInv, [Next]_vars, db' # db PROVE Synced'
    OBVIOUS
  <2>1. PICK p \in Procs :
          /\ pc[p] = "save"
          /\ db' = [set |-> desired[p], gen |-> NextGeneration(p)]
          /\ UNCHANGED kernel
    BY OnlySaveCommits
  <2>2. KernelReadable(kernel) /\ KernelRules(kernel) = desired[p].on
    BY <2>1 DEF IInv, WorkIsCurrent, Current
  <2> QED BY <2>1, <2>2 DEF Synced, KernelReadable, KernelRules, SameEnabledRules
<1> QED BY <1>1, Invariant, PTL DEF Spec, CommitsWhatIsEnforced

\* Every commit counts one generation from the very database it replaces.
THEOREM GenerationsCount == Spec => GenerationCounts
<1>1. IInv /\ [Next]_vars => (db' # db => db'.gen = db.gen + 1)
  <2> SUFFICES ASSUME IInv, [Next]_vars, db' # db PROVE db'.gen = db.gen + 1
    OBVIOUS
  <2>1. PICK p \in Procs :
          pc[p] = "save" /\ db' = [set |-> desired[p], gen |-> NextGeneration(p)]
    BY OnlySaveCommits
  <2>2. seen[p] = db
    BY <2>1 DEF IInv, WorkIsCurrent, Current, Checked, Midway
  <2> QED BY <2>1, <2>2 DEF NextGeneration
<1> QED BY <1>1, Invariant, PTL DEF Spec, GenerationCounts

\* An ordinary command that reports ROLLED_BACK leaves database and firewall in
\* agreement: the drift check made them agree, and the snapshot is back.
THEOREM RollbacksAgree == Spec => RolledBackIsSynced
<1>1. ASSUME IInv, [Next]_vars, NEW p \in Procs,
             result'[p] = "ROLLED_BACK", result[p] # "ROLLED_BACK", Commits(op[p])
      PROVE  Synced'
  <2> USE DEF IInv
  <2>1. result' # result /\ ~Reboot
    BY <1>1 DEF Reboot
  <2>2. PICK q \in Procs : Start(q) \/ Refuse(q) \/ Step(q) \/ Cancel(q) \/ Crash(q)
    BY <1>1, <2>1 DEF Next, vars, Tidy
  <2>3. ~Start(q) /\ ~Cancel(q)
    BY <2>1 DEF Start, Cancel, Move
  <2>4. ~Refuse(q) /\ ~Crash(q)
    BY <1>1, EndShape DEF Refuse, Crash, OwnStep
  <2>5. Step(q) BY <2>2, <2>3, <2>4
  <2>6. RolledBack(q) \/ UNCHANGED result \/ result'[q] # "ROLLED_BACK"
    <3>1. \A r \in Results : End(q, r) => result'[q] = r
      BY <1>1, EndShape
    <3>2. CASE Snapshot(q) \/ Check(q)
      BY <3>1, <3>2 DEF Snapshot, Check, Move, Results
    <3>3. CASE Acquire(q) \/ GiveUp(q)
      BY <3>1, <3>3 DEF Acquire, GiveUp, Results
    <3>4. CASE \/ Prepare(q) \/ Backup(q) \/ Applying(q) \/ Applied(q) \/ Verifying(q)
               \/ Finish(q) \/ RollbackFailed(q)
      BY <3>1, <3>4 DEF Prepare, Backup, Applying, Applied, Verifying, Finish,
         RollbackFailed, Journal, Go, Move, Results
    <3>5. CASE Save(q) \/ Rollback(q) \/ Recheck(q)
      BY <3>5 DEF Save, SaveError, Rollback, Recheck, Go, Move
    <3>6. ASSUME NEW f \in Families, NEW step, NEW next,
                 ApplyFamily(q, f, step, next) \/ RestoreFamily(q, f, step, next)
          PROVE  UNCHANGED result
      BY <3>6 DEF ApplyFamily, RestoreFamily, FamilyCall, Go, Move
    <3>7. ASSUME NEW step, NEW next, Verify(q, step, next)
          PROVE  UNCHANGED result
      BY <3>7 DEF Verify, Go, Move
    <3> QED
      BY <2>5, <3>2, <3>3, <3>4, <3>5, <3>6, <3>7 DEF Step, Families
  <2>7. OwnStep(q) BY <1>1, <2>5, StepShape
  <2>8. p = q /\ RolledBack(p) BY <1>1, <2>1, <2>6, <2>7 DEF OwnStep
  <2>9. pc[p] = "rolledback" /\ UNCHANGED <<db, kernel>> BY <2>8 DEF RolledBack, At
  <2>10. /\ SameEnabledRules(db.set, KernelRules(before[p]))
         /\ KernelReadable(kernel) /\ KernelRules(kernel) = KernelRules(before[p])
    BY <1>1, <2>9 DEF WorkIsCurrent, Current, Checked, Midway
  <2> QED BY <2>9, <2>10 DEF Synced, SameEnabledRules, KernelReadable, KernelRules
<1>2. IInv /\ [Next]_vars =>
        \A p \in Procs :
          result'[p] = "ROLLED_BACK" /\ result[p] # "ROLLED_BACK" /\ Commits(op[p])
            => Synced'
  BY <1>1
<1> QED BY <1>2, Invariant, PTL DEF Spec, RolledBackIsSynced

--------------------------------------------------------------------------------
(* No redirect has two owners *)

\* A family holds only rules of its own, and no two of them overlap.
Separate(k, f) ==
  /\ \A r \in k.rules : r.key.ip = f
  /\ \A r, q \in k.rules : r # q => ~Overlaps(r.key, q.key)

\* The kernel and every snapshot a rollback may put back are separate.
KernelsSeparate ==
  \A f \in Families :
    /\ Separate(kernel[f], f)
    /\ \A p \in Procs : Separate(before[p][f], f)

\* A backend call leaves the rules it found, those of its target, or none.
LEMMA CallsInventNoRules ==
  ASSUME NEW k, NEW t,
         NEW x \in AfterFailure(k, t) \cup AfterCrash(k, t) \cup AfterKill(k, t)
  PROVE  x.rules \in {k.rules, t.rules, {}}
  BY DEF AfterFailure, AfterCrash, AfterKill, Only, Drift, Managed

\* So does a family call of a command.
LEMMA FamilyCallOutcome ==
  ASSUME NEW p, NEW f, NEW t, NEW next, NEW onError, FamilyCall(p, f, t, next, onError)
  PROVE  \/ kernel' = kernel
         \/ \E x : /\ x.rules \in {kernel[f].rules, t.rules, {}}
                   /\ kernel' = [kernel EXCEPT ![f] = x]
  BY CallsInventNoRules DEF FamilyCall

\* What a command installs in a family is separate, because it is Normal.
LEMMA TargetsSeparate ==
  ASSUME TypeOK, NEW p \in Procs, NEW f \in Families
  PROVE  Separate(ApplyTarget(p, f), f)
  BY DEF TypeOK, WorkOK, Normal, NoOverlap, ApplyTarget, Managed, FamilyRules, Separate

\* So is what a family call leaves.
LEMMA FamilyCallSeparate ==
  ASSUME TypeOK, KernelsSeparate, NEW p \in Procs, NEW f \in Families,
         NEW t, Separate(t, f), NEW next, NEW onError, FamilyCall(p, f, t, next, onError)
  PROVE  \A g \in Families : Separate(kernel'[g], g)
<1>1. kernel \in [Families -> FamilyState] BY DEF TypeOK, SharedOK, Kernel
<1>2. \/ kernel' = kernel
      \/ \E x : /\ x.rules \in {kernel[f].rules, t.rules, {}}
                /\ kernel' = [kernel EXCEPT ![f] = x]
  BY FamilyCallOutcome
<1>3. ASSUME NEW x, x.rules \in {kernel[f].rules, t.rules, {}} PROVE Separate(x, f)
  BY <1>3 DEF KernelsSeparate, Separate
<1> QED BY <1>1, <1>2, <1>3 DEF KernelsSeparate

\* The step of a command either leaves kernel and snapshots, takes a snapshot of the
\* kernel, drops its snapshot, or is a family call.
LEMMA StepSeparate ==
  ASSUME TypeOK, KernelsSeparate, NEW p \in Procs, Step(p)
  PROVE  KernelsSeparate'
<1> USE DEF Families
<1>1. ASSUME UNCHANGED <<kernel, before>> PROVE KernelsSeparate'
  BY <1>1 DEF KernelsSeparate
<1>2. ASSUME NEW r, End(p, r), UNCHANGED kernel PROVE KernelsSeparate'
  <2>1. \A f \in Families : Separate(NoKernel[f], f) BY DEF NoKernel, Absent, Separate
  <2>2. before' = [before EXCEPT ![p] = NoKernel] BY <1>2 DEF End
  <2> QED BY <1>2, <2>1, <2>2 DEF KernelsSeparate, TypeOK, WorkOK
<1>3. ASSUME NEW s, Go(p, s), UNCHANGED kernel PROVE KernelsSeparate'
  BY <1>1, <1>3 DEF Go, work
<1>4. CASE Acquire(p) BY <1>1, <1>4 DEF Acquire, work
<1>5. CASE GiveUp(p) BY <1>2, <1>5 DEF GiveUp
<1>6. CASE Snapshot(p)
  <2>1. CASE before' = [before EXCEPT ![p] = kernel]
    BY <1>6, <2>1 DEF Snapshot, KernelsSeparate, TypeOK, WorkOK
  <2> QED BY <1>6, <2>1, <1>2 DEF Snapshot
<1>7. CASE Check(p) BY <1>1, <1>2, <1>7 DEF Check
<1>8. CASE Prepare(p) \/ Backup(p) \/ Applying(p)
  BY <1>2, <1>3, <1>8 DEF Prepare, Backup, Applying, Journal
<1>9. CASE Applied(p) \/ Verifying(p) \/ Save(p) \/ Finish(p) \/ Rollback(p) \/ Recheck(p)
  BY <1>2, <1>3, <1>9
  DEF Applied, Verifying, Save, SaveError, Finish, Rollback, Recheck, Journal
<1>10. ASSUME NEW step, NEW next, Verify(p, step, next) PROVE KernelsSeparate'
  BY <1>3, <1>10 DEF Verify
<1>11. CASE RolledBack(p) \/ RollbackFailed(p)
  BY <1>2, <1>11 DEF RolledBack, RollbackFailed
<1>12. ASSUME NEW f \in Families, NEW t, Separate(t, f), NEW next, NEW onError,
              FamilyCall(p, f, t, next, onError)
       PROVE  KernelsSeparate'
  <2>1. \A g \in Families : Separate(kernel'[g], g) BY <1>12, FamilyCallSeparate
  <2>2. UNCHANGED before BY <1>12 DEF FamilyCall, Go, work
  <2> QED BY <2>1, <2>2 DEF KernelsSeparate
<1>13. ASSUME NEW f \in Families, NEW step, NEW next,
              ApplyFamily(p, f, step, next) \/ RestoreFamily(p, f, step, next)
       PROVE  KernelsSeparate'
  BY <1>12, <1>13, TargetsSeparate DEF ApplyFamily, RestoreFamily, KernelsSeparate
<1> QED
  BY <1>4, <1>5, <1>6, <1>7, <1>8, <1>9, <1>10, <1>11, <1>13 DEF Step

\* Every step keeps the kernel and the snapshots separate.
LEMMA NextSeparate ==
  ASSUME TypeOK, KernelsSeparate, [Next]_vars
  PROVE  KernelsSeparate'
<1>1. \A f \in Families : Separate(NoKernel[f], f) BY DEF NoKernel, Absent, Separate
<1>2. ASSUME NEW p \in Procs, Start(p) \/ Cancel(p) PROVE KernelsSeparate'
  BY <1>2 DEF Start, Cancel, work, KernelsSeparate
<1>3. ASSUME NEW p \in Procs, Refuse(p) \/ Crash(p) PROVE KernelsSeparate'
  <2>1. before' = [before EXCEPT ![p] = NoKernel] BY <1>3 DEF Refuse, Crash, End
  <2>2. \A q \in Procs, f \in Families : Separate(before'[q][f], f)
    BY <1>1, <2>1 DEF KernelsSeparate, TypeOK, WorkOK
  <2>3. \A g \in Families : Separate(kernel'[g], g)
    <3>1. CASE UNCHANGED kernel BY <3>1 DEF KernelsSeparate
    <3>2. ASSUME NEW c \in Calls(p),
                 NEW x \in AfterCrash(kernel[c[1]], c[2]),
                 kernel' = [kernel EXCEPT ![c[1]] = x]
          PROVE  \A g \in Families : Separate(kernel'[g], g)
      <4>1. \E f \in Families : c = <<f, ApplyTarget(p, f)>> \/ c = <<f, before[p][f]>>
        BY <3>2 DEF Calls, Families
      <4>2. c[1] \in Families /\ Separate(c[2], c[1])
        BY <4>1, TargetsSeparate DEF KernelsSeparate
      <4>3. x.rules \in {kernel[c[1]].rules, c[2].rules, {}}
        BY <3>2, CallsInventNoRules
      <4>4. Separate(x, c[1]) BY <4>2, <4>3 DEF KernelsSeparate, Separate
      <4> QED BY <3>2, <4>2, <4>4 DEF KernelsSeparate, TypeOK, SharedOK, Kernel
    <3> QED BY <1>3, <3>1, <3>2 DEF Refuse, Crash
  <2> QED BY <2>2, <2>3 DEF KernelsSeparate
<1>4. CASE Reboot
  BY <1>1, <1>4 DEF Reboot, KernelsSeparate
<1>5. CASE UNCHANGED vars \/ Tidy
  BY <1>5 DEF vars, Tidy, work, KernelsSeparate
<1> QED BY <1>2, <1>3, <1>4, <1>5, StepSeparate DEF Next

\* The rules Installed puts into a family are separate.
LEMMA InitSeparate == Init => KernelsSeparate
<1> SUFFICES ASSUME Init PROVE KernelsSeparate OBVIOUS
<1>1. \A f \in Families : Separate(NoKernel[f], f) BY DEF NoKernel, Absent, Separate
<1>2. NoOverlap(db.set.on) BY InitialAssumption DEF Init, Normal
<1>3. \A f \in Families : Separate(Installed(db.set)[f], f)
  BY <1>2 DEF Installed, Managed, FamilyRules, Separate, NoOverlap
<1> QED BY <1>1, <1>3 DEF Init, Only, KernelsSeparate

\* No redirect has two owners, in the database or in the kernel: not while one family
\* is new and the other old, not after a failed rollback, not after a crash.
THEOREM NoTwoOwners == Spec => []PortsHaveOneOwner
<1>1. TypeOK /\ KernelsSeparate => PortsHaveOneOwner
  <2> SUFFICES ASSUME TypeOK, KernelsSeparate PROVE PortsHaveOneOwner OBVIOUS
  <2>1. Rule \in SUBSET [id : Ids, key : KeyType]
    BY KeysAssumption DEF Rule
  <2>2. db.set.on \subseteq Rule /\ NoOverlap(db.set.on)
    BY DEF TypeOK, SharedOK, Database, RuleSet, Normal
  <2>3. OneOwner(db.set.on)
    BY <2>1, <2>2, OverlapFindsSharedPorts DEF OneOwner, NoOverlap
  <2>4. \A f \in Families : kernel[f].rules \subseteq Rule
    BY DEF TypeOK, SharedOK, Kernel, FamilyState
  <2>5. ASSUME NEW r \in KernelRules(kernel), NEW q \in KernelRules(kernel),
               SameTraffic(r.key, q.key), (Ports(r.key) \cap Ports(q.key)) # {}
        PROVE  r = q
    <3>1. PICK f \in Families, g \in Families : r \in kernel[f].rules /\ q \in kernel[g].rules
      BY DEF KernelRules
    <3>2. f = g BY <2>5, <3>1 DEF KernelsSeparate, Separate, SameTraffic
    <3>3. r.key \in KeyType /\ q.key \in KeyType BY <2>1, <2>4, <3>1
    <3>4. Overlaps(r.key, q.key) BY <2>5, <3>3, OverlapFindsSharedPorts
    <3> QED BY <3>1, <3>2, <3>4 DEF KernelsSeparate, Separate
  <2> QED BY <2>3, <2>5 DEF PortsHaveOneOwner, OneOwner
<1>2. TypeOK /\ KernelsSeparate /\ [Next]_vars => TypeOK' /\ KernelsSeparate'
  BY NextTypeOK, NextSeparate
<1> QED BY <1>1, <1>2, InitTypeOK, InitSeparate, PTL DEF Spec

--------------------------------------------------------------------------------
(* Redirects of other software *)

\* No rule of R meets a redirect of others.
Clear(R) == \A r \in R, k \in Foreign : ~Overlaps(r.key, k)

\* The steps after the inspection.
PastInspection == Critical \ {"snapshot"}

\* What is wanted was inspected (transaction.go:103-107), and nothing else is wanted since.
WantedIsClear == \A p \in Procs : pc[p] \in PastInspection => Clear(desired[p].on)

\* The kernel, and what a rollback may put back.
KernelsClear ==
  \A f \in Families :
    /\ Clear(kernel[f].rules)
    /\ \A p \in Procs : Clear(before[p][f].rules)

\* A step of p that leaves the locals of others alone, and its own wanted rules.
LEMMA StaysWanted ==
  ASSUME WantedIsClear, NEW p \in Procs, OwnStep(p),
         pc'[p] \in PastInspection => desired'[p] = desired[p] /\ Clear(desired[p].on)
  PROVE  WantedIsClear'
  BY DEF WantedIsClear, OwnStep, Clear

LEMMA StepWanted ==
  ASSUME TypeOK, WantedIsClear, NEW p \in Procs, Step(p)
  PROVE  WantedIsClear'
<1> USE DEF PastInspection, Critical, Steps, At
<1>1. OwnStep(p)
  BY StepShape
<1>2. ASSUME NEW r, End(p, r) PROVE WantedIsClear'
  BY <1>1, <1>2, EndShape, StaysWanted
<1>3. ASSUME NEW s, Go(p, s), pc[p] \in PastInspection PROVE WantedIsClear'
  BY <1>1, <1>3, GoShape, StaysWanted DEF WantedIsClear
<1>4. CASE Acquire(p)
  <2>1. pc'[p] = "snapshot"
    BY <1>4 DEF Acquire, TypeOK, ControlOK
  <2> QED
    BY <1>1, <2>1, StaysWanted
<1>5. CASE GiveUp(p)
  BY <1>2, <1>5 DEF GiveUp
<1>6. CASE Snapshot(p)
  <2>1. CASE ~ConflictsWithForeign(desired[p]) /\ desired' = desired
    BY <1>1, <2>1, StaysWanted DEF ConflictsWithForeign, Clear
  <2> QED
    BY <1>2, <1>6, <2>1 DEF Snapshot
<1>7. CASE Check(p)
  <2>1. CASE desired' = desired
    BY <1>1, <1>7, <2>1, StaysWanted DEF Check, WantedIsClear
  <2> QED
    BY <1>2, <1>7, <2>1 DEF Check
<1>8. CASE Prepare(p) \/ Backup(p) \/ Applying(p)
  BY <1>2, <1>3, <1>8 DEF Prepare, Backup, Applying, Journal
<1>9. CASE Applied(p) \/ Verifying(p) \/ Save(p) \/ Finish(p) \/ Rollback(p) \/ Recheck(p)
  BY <1>2, <1>3, <1>9
  DEF Applied, Verifying, Save, SaveError, Finish, Rollback, Recheck, Journal
<1>10. CASE \/ Verify(p, "confirm", "applied")
            \/ Verify(p, "verify", IF Commits(op[p]) THEN "save" ELSE "finish")
  BY <1>3, <1>10 DEF Verify
<1>11. CASE RolledBack(p) \/ RollbackFailed(p)
  BY <1>2, <1>11 DEF RolledBack, RollbackFailed
<1>12. CASE \/ ApplyFamily(p, 4, "apply4", "apply6")
            \/ ApplyFamily(p, 6, "apply6", "confirm")
            \/ RestoreFamily(p, 4, "restore4", "restore6")
            \/ RestoreFamily(p, 6, "restore6", "recheck")
  BY <1>3, <1>12 DEF ApplyFamily, RestoreFamily, FamilyCall
<1> QED
  BY <1>4, <1>5, <1>6, <1>7, <1>8, <1>9, <1>10, <1>11, <1>12 DEF Step

LEMMA NextWanted ==
  ASSUME TypeOK, WantedIsClear, [Next]_vars
  PROVE  WantedIsClear'
<1> USE DEF PastInspection, Critical, Steps, At
<1>1. ASSUME NEW p \in Procs, Start(p) PROVE WantedIsClear'
  BY <1>1, MoveShape DEF Start, WantedIsClear, Clear, TypeOK, WorkOK
<1>2. ASSUME NEW p \in Procs, Refuse(p) \/ Crash(p) PROVE WantedIsClear'
  BY <1>2, EndShape, StaysWanted DEF Refuse, Crash
<1>3. ASSUME NEW p \in Procs, Cancel(p) PROVE WantedIsClear'
  BY <1>3 DEF Cancel, work, WantedIsClear, Clear
<1>4. CASE Reboot
  BY <1>4 DEF Reboot, Active, WantedIsClear
<1>5. CASE UNCHANGED vars \/ Tidy
  BY <1>5 DEF vars, Tidy, work, WantedIsClear, Clear
<1> QED
  BY <1>1, <1>2, <1>3, <1>4, <1>5, StepWanted DEF Next

LEMMA WantedInvariant == Spec => [](IInv /\ WantedIsClear)
<1>1. Init => WantedIsClear
  BY DEF Init, WantedIsClear, PastInspection, Critical, Steps
<1>2. IInv /\ WantedIsClear /\ [Next]_vars => IInv' /\ WantedIsClear'
  BY NextInvariant, NextWanted DEF IInv
<1> QED
  BY <1>1, <1>2, InitInvariant, PTL DEF Spec

\* Whatever database is committed leaves the redirects of others their packets
\* (transaction.go:103-107, 228-244), however the commands race.
THEOREM CommitsLeaveOthersAlone == Spec => [][db' # db => Clear(db'.set.on)]_vars
<1>1. IInv /\ WantedIsClear /\ [Next]_vars => (db' # db => Clear(db'.set.on))
  <2> SUFFICES ASSUME IInv, WantedIsClear, [Next]_vars, db' # db
               PROVE  Clear(db'.set.on)
    OBVIOUS
  <2>1. PICK p \in Procs : pc[p] = "save" /\ db'.set = desired[p]
    BY OnlySaveCommits
  <2> QED
    BY <2>1 DEF WantedIsClear, PastInspection, Critical, Steps
<1> QED
  BY <1>1, WantedInvariant, PTL DEF Spec

LEMMA TargetsClear ==
  ASSUME NEW p \in Procs, NEW f \in Families, Clear(desired[p].on)
  PROVE  Clear(ApplyTarget(p, f).rules)
  BY DEF ApplyTarget, Managed, FamilyRules, Clear

LEMMA NothingIsClear == \A f \in Families : Clear(NoKernel[f].rules)
  BY DEF NoKernel, Absent, Clear

\* What a backend call that is cut short leaves.
LEMMA OutcomeClear ==
  ASSUME TypeOK, KernelsClear, NEW f \in Families, NEW t, Clear(t.rules),
         NEW x, x.rules \in {kernel[f].rules, t.rules, {}}
  PROVE  \A g \in Families : Clear([kernel EXCEPT ![f] = x][g].rules)
<1>1. kernel \in [Families -> FamilyState]
  BY DEF TypeOK, SharedOK, Kernel
<1>2. Clear(x.rules)
  BY DEF KernelsClear, Clear
<1> QED
  BY <1>1, <1>2 DEF KernelsClear

LEMMA FamilyCallClear ==
  ASSUME TypeOK, KernelsClear, NEW p \in Procs, NEW f \in Families,
         NEW t, Clear(t.rules), NEW next, NEW onError, FamilyCall(p, f, t, next, onError)
  PROVE  KernelsClear'
<1>1. \/ kernel' = kernel
      \/ \E x : x.rules \in {kernel[f].rules, t.rules, {}} /\ kernel' = [kernel EXCEPT ![f] = x]
  BY FamilyCallOutcome
<1>2. before' = before
  BY DEF FamilyCall, Go, work
<1>3. CASE kernel' = kernel
  BY <1>2, <1>3 DEF KernelsClear
<1>4. CASE \E x : x.rules \in {kernel[f].rules, t.rules, {}} /\ kernel' = [kernel EXCEPT ![f] = x]
  <2>1. PICK x : /\ x.rules \in {kernel[f].rules, t.rules, {}}
                 /\ kernel' = [kernel EXCEPT ![f] = x]
    BY <1>4
  <2>2. \A g \in Families : Clear([kernel EXCEPT ![f] = x][g].rules)
    BY <2>1, OutcomeClear
  <2> QED
    BY <1>2, <2>1, <2>2 DEF KernelsClear, Clear
<1> QED
  BY <1>1, <1>3, <1>4

LEMMA StepClear ==
  ASSUME TypeOK, KernelsClear, WantedIsClear, NEW p \in Procs, Step(p)
  PROVE  KernelsClear'
<1> USE DEF Families
<1>1. ASSUME UNCHANGED <<kernel, before>> PROVE KernelsClear'
  BY <1>1 DEF KernelsClear
<1>2. ASSUME NEW r, End(p, r), UNCHANGED kernel PROVE KernelsClear'
  <2>1. before' = [before EXCEPT ![p] = NoKernel]
    BY <1>2 DEF End
  <2> QED
    BY <1>2, <2>1, NothingIsClear DEF KernelsClear, TypeOK, WorkOK
<1>3. ASSUME NEW s, Go(p, s), UNCHANGED kernel PROVE KernelsClear'
  BY <1>1, <1>3 DEF Go, work
<1>4. CASE Acquire(p)
  BY <1>1, <1>4 DEF Acquire, work
<1>5. CASE GiveUp(p)
  BY <1>2, <1>5 DEF GiveUp
<1>6. CASE Snapshot(p)
  <2>1. CASE before' = [before EXCEPT ![p] = kernel]
    BY <1>6, <2>1 DEF Snapshot, KernelsClear, TypeOK, WorkOK
  <2> QED
    BY <1>2, <1>6, <2>1 DEF Snapshot
<1>7. CASE Check(p)
  BY <1>1, <1>2, <1>7 DEF Check
<1>8. CASE Prepare(p) \/ Backup(p) \/ Applying(p)
  BY <1>2, <1>3, <1>8 DEF Prepare, Backup, Applying, Journal
<1>9. CASE Applied(p) \/ Verifying(p) \/ Save(p) \/ Finish(p) \/ Rollback(p) \/ Recheck(p)
  BY <1>2, <1>3, <1>9
  DEF Applied, Verifying, Save, SaveError, Finish, Rollback, Recheck, Journal
<1>10. ASSUME NEW step, NEW next, Verify(p, step, next) PROVE KernelsClear'
  BY <1>3, <1>10 DEF Verify
<1>11. CASE RolledBack(p) \/ RollbackFailed(p)
  BY <1>2, <1>11 DEF RolledBack, RollbackFailed
<1>12. ASSUME NEW f \in Families, NEW step \in PastInspection, NEW next, ApplyFamily(p, f, step, next)
       PROVE  KernelsClear'
  BY <1>12, TargetsClear, FamilyCallClear DEF ApplyFamily, At, WantedIsClear
<1>13. ASSUME NEW f \in Families, NEW step, NEW next, RestoreFamily(p, f, step, next)
       PROVE  KernelsClear'
  BY <1>13, FamilyCallClear DEF RestoreFamily, KernelsClear
<1>14. "apply4" \in PastInspection /\ "apply6" \in PastInspection
  BY DEF PastInspection, Critical, Steps
<1> QED
  BY <1>4, <1>5, <1>6, <1>7, <1>8, <1>9, <1>10, <1>11, <1>12, <1>13, <1>14 DEF Step

LEMMA NextClear ==
  ASSUME TypeOK, KernelsClear, WantedIsClear, [Next]_vars
  PROVE  KernelsClear'
<1>1. ASSUME NEW p \in Procs, Start(p) \/ Cancel(p) PROVE KernelsClear'
  BY <1>1 DEF Start, Cancel, work, KernelsClear
<1>2. ASSUME NEW p \in Procs, Refuse(p) \/ Crash(p) PROVE KernelsClear'
  <2>1. before' = [before EXCEPT ![p] = NoKernel]
    BY <1>2 DEF Refuse, Crash, End
  <2>2. \A q \in Procs, f \in Families : Clear(before'[q][f].rules)
    BY <2>1, NothingIsClear DEF KernelsClear, TypeOK, WorkOK
  <2>3. CASE UNCHANGED kernel
    BY <2>2, <2>3 DEF KernelsClear
  <2>4. ASSUME NEW c \in Calls(p), NEW x \in AfterCrash(kernel[c[1]], c[2]),
               kernel' = [kernel EXCEPT ![c[1]] = x]
        PROVE  KernelsClear'
    <3>1. PICK f \in Families :
            \/ c = <<f, ApplyTarget(p, f)>> /\ pc[p] \in {"apply4", "apply6"}
            \/ c = <<f, before[p][f]>>
      BY <2>4 DEF Calls, Families
    <3>2. pc[p] \in {"apply4", "apply6"} => pc[p] \in PastInspection
      BY DEF PastInspection, Critical, Steps
    <3>3. c[1] = f /\ Clear(c[2].rules)
      BY <3>1, <3>2, TargetsClear DEF KernelsClear, WantedIsClear
    <3>4. x.rules \in {kernel[f].rules, c[2].rules, {}}
      BY <2>4, <3>3, CallsInventNoRules
    <3>5. kernel' = [kernel EXCEPT ![f] = x]
      BY <2>4, <3>3
    <3>6. \A g \in Families : Clear([kernel EXCEPT ![f] = x][g].rules)
      BY <3>3, <3>4, OutcomeClear
    <3> QED
      BY <2>2, <3>5, <3>6 DEF KernelsClear, Clear
  <2> QED
    BY <1>2, <2>3, <2>4 DEF Refuse, Crash
<1>3. CASE Reboot
  BY <1>3, NothingIsClear DEF Reboot, KernelsClear
<1>4. CASE UNCHANGED vars \/ Tidy
  BY <1>4 DEF vars, Tidy, work, KernelsClear
<1> QED
  BY <1>1, <1>2, <1>3, <1>4, StepClear DEF Next

\* If the firewall begins beside the redirects of others it never takes a packet of theirs:
\* not between two families, not after a failed rollback, a kill or a reconcile
\* (transaction.go:99-107, 154-222).
THEOREM OthersKeepTheirPackets ==
  Spec /\ Clear(KernelRules(kernel)) => []Clear(KernelRules(kernel))
<1>1. Init /\ Clear(KernelRules(kernel)) => KernelsClear
  BY NothingIsClear DEF Init, Clear, KernelRules, KernelsClear
<1>2. KernelsClear => Clear(KernelRules(kernel))
  BY DEF KernelsClear, Clear, KernelRules
<1>3. IInv /\ WantedIsClear /\ KernelsClear /\ [Next]_vars => KernelsClear'
  BY NextClear DEF IInv
<1> QED
  BY <1>1, <1>2, <1>3, WantedInvariant, PTL DEF Spec

--------------------------------------------------------------------------------
(* Backups *)

\* Nobody has removed a backup beside the lock, and the clock was not set back.
Tended == \A d \in {"back", "tidy"} : budget[d] = Budget[d]

\* What a command that commits replaces is in the backup directory once the command is
\* past its routine backup, and only a command that commits gets to saving.
BackedUp(p) ==
  /\ pc[p] \in {"applying"} \cup Midway /\ Commits(op[p]) => seen[p].set \in BackedUpSets
  /\ pc[p] = "save" => Commits(op[p])

BackupsKept ==
  /\ \A d \in Disturbances : budget[d] <= Budget[d]
  /\ Tended => \A p \in Procs : BackedUp(p)

\* What is spent is not there afterwards.
LEMMA SpendSpends ==
  ASSUME TypeOK, \/ UNCHANGED budget
                 \/ \E d \in Disturbances : Spend(d)
                 \/ \E D \in SUBSET Disturbances : SpendAll(D)
  PROVE  \A d \in Disturbances : budget'[d] <= budget[d]
  BY DEF TypeOK, SharedOK, Spend, SpendAll

\* Disturbances are only spent.
LEMMA BudgetShrinks ==
  ASSUME TypeOK, [Next]_vars
  PROVE  \A d \in Disturbances : budget'[d] <= budget[d]
<1>0. {"fail", "cancel", "crash", "reboot", "tidy"} \subseteq Disturbances BY DEF Disturbances
<1>1. ASSUME NEW p \in Procs, Start(p) \/ Refuse(p) \/ Cancel(p) \/ Crash(p)
      PROVE  UNCHANGED budget \/ \E d \in Disturbances : Spend(d)
  BY <1>0, <1>1 DEF Start, Refuse, Cancel, Crash
<1>2. ASSUME NEW p \in Procs, Backup(p)
      PROVE  \E D \in SUBSET Disturbances : SpendAll(D)
  <2>1. PICK place \in 1 .. Len(backups) + 1 :
          \/ SpendAll(Only(place # 1, "back"))
          \/ SpendAll(Only(place # 1, "back") \cup {"fail"})
    BY <1>2 DEF Backup
  <2> QED BY <2>1 DEF Only, Disturbances
<1>3. ASSUME NEW p \in Procs, Step(p), ~Backup(p)
      PROVE  UNCHANGED budget \/ \E d \in Disturbances : Spend(d)
  <2>1. CASE Acquire(p) \/ GiveUp(p) \/ Snapshot(p) \/ Check(p) \/ Recheck(p)
    BY <1>0, <2>1 DEF Acquire, GiveUp, Snapshot, Check, Recheck, CommandFails
  <2>2. CASE \/ Prepare(p) \/ Applying(p) \/ Applied(p) \/ Verifying(p) \/ Save(p)
             \/ Finish(p) \/ Rollback(p) \/ RolledBack(p) \/ RollbackFailed(p)
    BY <1>0, <2>2 DEF Prepare, Applying, Applied, Verifying, Save, Finish, Rollback,
       RolledBack, RollbackFailed, TryJournal, Journal, WriteFails
  <2>3. ASSUME NEW f \in Families, NEW step, NEW next,
               ApplyFamily(p, f, step, next) \/ RestoreFamily(p, f, step, next)
        PROVE  UNCHANGED budget \/ \E d \in Disturbances : Spend(d)
    BY <1>0, <2>3 DEF ApplyFamily, RestoreFamily, FamilyCall
  <2>4. ASSUME NEW step, NEW next, Verify(p, step, next)
        PROVE  UNCHANGED budget \/ \E d \in Disturbances : Spend(d)
    BY <1>0, <2>4 DEF Verify, CommandFails
  <2> QED BY <1>3, <2>1, <2>2, <2>3, <2>4 DEF Step, Families
<1>4. CASE Reboot \/ Tidy \/ UNCHANGED vars
  BY <1>0, <1>4, SpendSpends DEF Reboot, Tidy, vars
<1> QED BY <1>1, <1>2, <1>3, <1>4, SpendSpends DEF Next

\* The routine backup that goes on has its file, as newest of all it survives the pruning.
LEMMA BackupIsThere ==
  ASSUME TypeOK, NEW p \in Procs, Backup(p), Go(p, "applying"),
         budget'["back"] = budget["back"]
  PROVE  (seen[p].set \in BackedUpSets)'
<1>1. backups \in Seq(RuleSet) /\ MaxBackups \in Nat \ {0} /\ BackupOf(p) \in RuleSet
  BY MaxBackupsAssumption DEF TypeOK, SharedOK, WorkOK, Database, BackupOf
<1>2. ~End(p, "error")
  BY EndShape, GoShape
<1>3. PICK place \in 1 .. Len(backups) + 1 :
        /\ backups' = Kept(Written(p, place))
        /\ SpendAll(Only(place # 1, "back"))
  BY <1>2 DEF Backup
<1>4. place = 1
  BY <1>3 DEF SpendAll, Only, TypeOK, SharedOK, Disturbances
<1>5. /\ Written(p, 1) \in Seq(RuleSet) /\ Len(Written(p, 1)) >= 1
      /\ Written(p, 1)[1] = BackupOf(p)
  BY <1>1 DEF Written
<1>6. ASSUME NEW files \in Seq(RuleSet), Len(files) >= 1
      PROVE  1 \in DOMAIN Kept(files) /\ Kept(files)[1] = files[1]
  BY <1>1, <1>6 DEF Kept
<1>7. 1 \in DOMAIN backups' /\ backups'[1] = seen[p].set
  BY <1>3, <1>4, <1>5, <1>6 DEF BackupOf
<1> QED BY <1>7, GoShape DEF BackedUpSets

\* A command keeps what it has backed up while it goes on, unless it gets to saving.
LEMMA StaysBackedUp ==
  ASSUME TypeOK, NEW p \in Procs, BackedUp(p), pc[p] \in {"applying"} \cup Midway,
         NEW s, s # "save", Go(p, s), UNCHANGED backups
  PROVE  BackedUp(p)'
  BY GoShape DEF BackedUp, Commits, BackedUpSets

\* Its own steps keep it: the backup comes before the first change.
LEMMA OwnBackup ==
  ASSUME TypeOK, AutoBackup, NEW p \in Procs, BackedUp(p), Step(p),
         budget'["back"] = budget["back"]
  PROVE  BackedUp(p)'
<1> USE DEF At, Midway
<1>1. ASSUME pc'[p] \notin {"applying"} \cup Midway PROVE BackedUp(p)'
  BY <1>1 DEF BackedUp
<1>2. ASSUME NEW r, End(p, r) PROVE BackedUp(p)'
  BY <1>1, <1>2, EndShape
<1>3. ASSUME NEW s, s \notin {"applying"} \cup Midway, Move(p, s) PROVE BackedUp(p)'
  BY <1>1, <1>3, MoveShape
<1>4. CASE Acquire(p)
  BY <1>1, <1>4 DEF Acquire, TypeOK, ControlOK
<1>5. CASE GiveUp(p) \/ Snapshot(p) \/ Check(p)
  BY <1>2, <1>3, <1>5 DEF GiveUp, Snapshot, Check
<1>6. CASE Prepare(p)
  <2>1. CASE Commits(op[p])
    BY <1>2, <1>3, <1>6, <2>1 DEF Prepare, Journal, Go
  <2>2. CASE ~Commits(op[p]) /\ Go(p, "applying")
    BY <2>2, GoShape DEF BackedUp, Commits
  <2> QED BY <1>2, <1>6, <2>1, <2>2 DEF Prepare, Journal
<1>7. CASE Backup(p)
  <2>1. CASE Go(p, "applying")
    BY <1>7, <2>1, BackupIsThere, GoShape DEF BackedUp
  <2> QED BY <1>2, <1>7, <2>1, BackupShape
<1>8. CASE Applying(p) \/ Applied(p) \/ Verifying(p) \/ Save(p) \/ Finish(p) \/ Rollback(p)
  BY <1>2, <1>3, <1>8, StaysBackedUp
  DEF Applying, Applied, Verifying, Save, SaveError, Finish, Rollback, Journal, Go
<1>9. CASE \/ ApplyFamily(p, 4, "apply4", "apply6") \/ ApplyFamily(p, 6, "apply6", "confirm")
           \/ RestoreFamily(p, 4, "restore4", "restore6")
           \/ RestoreFamily(p, 6, "restore6", "recheck")
  BY <1>9, StaysBackedUp DEF ApplyFamily, RestoreFamily, FamilyCall
<1>10. CASE Verify(p, "confirm", "applied") \/ Recheck(p)
  BY <1>10, StaysBackedUp DEF Verify, Recheck
<1>11. CASE Verify(p, "verify", IF Commits(op[p]) THEN "save" ELSE "finish")
  <2>1. CASE Go(p, "rollback") BY <1>11, <2>1, StaysBackedUp DEF Verify
  <2>2. CASE Commits(op[p]) /\ Go(p, "save")
    BY <1>11, <2>2, GoShape DEF Verify, BackedUp, Commits, BackedUpSets
  <2>3. CASE Go(p, "finish") BY <1>3, <2>3 DEF Go
  <2> QED BY <1>11, <2>1, <2>2, <2>3 DEF Verify
<1>12. CASE RolledBack(p) \/ RollbackFailed(p)
  BY <1>2, <1>12 DEF RolledBack, RollbackFailed
<1> QED BY <1>4, <1>5, <1>6, <1>7, <1>8, <1>9, <1>10, <1>11, <1>12 DEF Step

\* Every step keeps what commands have backed up: a command that changes the directory
\* has the lock, so that nobody else is past his backup.
LEMMA BackupInductive ==
  ASSUME IInv, AutoBackup, BackupsKept, [Next]_vars
  PROVE  BackupsKept'
<1> USE DEF IInv
<1>1. \A d \in Disturbances : budget'[d] <= Budget[d]
  <2>1. budget \in [Disturbances -> Nat] /\ budget' \in [Disturbances -> Nat]
    BY NextInvariant DEF TypeOK, SharedOK
  <2> QED BY <2>1, BudgetShrinks, BudgetAssumption DEF BackupsKept
<1> SUFFICES ASSUME Tended' PROVE \A q \in Procs : BackedUp(q)'
  BY <1>1 DEF BackupsKept
<1>2. Tended /\ \A d \in {"back", "tidy"} : budget'[d] = budget[d]
  <2>1. budget \in [Disturbances -> Nat] /\ budget' \in [Disturbances -> Nat]
    BY NextInvariant DEF TypeOK, SharedOK
  <2> QED BY <2>1, BudgetShrinks, BudgetAssumption DEF BackupsKept, Tended, Disturbances
<1>3. \A q \in Procs : BackedUp(q) BY <1>2 DEF BackupsKept
<1>4. ASSUME NEW p \in Procs, OwnStep(p), BackedUp(p)', UNCHANGED backups
      PROVE  \A q \in Procs : BackedUp(q)'
  BY <1>3, <1>4 DEF OwnStep, BackedUp, Commits, BackedUpSets
<1>5. ASSUME NEW p \in Procs, Start(p) PROVE \A q \in Procs : BackedUp(q)'
  <2>1. OwnStep(p) BY <1>5, MoveShape DEF Start, OwnStep, TypeOK, WorkOK
  <2>2. pc'[p] = "waiting" BY <1>5, MoveShape DEF Start
  <2> QED BY <1>4, <1>5, <2>1, <2>2 DEF Start, BackedUp, Midway
<1>6. ASSUME NEW p \in Procs, Refuse(p) \/ Crash(p) PROVE \A q \in Procs : BackedUp(q)'
  BY <1>4, <1>6, EndShape DEF Refuse, Crash, BackedUp, Midway
<1>7. ASSUME NEW p \in Procs, Step(p) PROVE \A q \in Procs : BackedUp(q)'
  <2>1. OwnStep(p) /\ BackedUp(p)' BY <1>2, <1>3, <1>7, StepShape, OwnBackup
  <2>2. CASE Backup(p)
    <3>1. ASSUME NEW q \in Procs \ {p} PROVE pc'[q] \notin Critical
      BY <2>1, <2>2 DEF Backup, At, LockProtects, OwnStep, Critical, Steps
    <3> QED BY <2>1, <3>1 DEF BackedUp, Critical, Steps, Midway
  <2>3. CASE UNCHANGED backups BY <1>4, <2>1, <2>3
  <2>4. Backup(p) \/ UNCHANGED backups
    BY <1>7 DEF Step, Acquire, GiveUp, Snapshot, Check, Prepare, Applying,
       ApplyFamily, Verify, Applied, Verifying, Save, Finish, Rollback, RestoreFamily,
       Recheck, RolledBack, RollbackFailed
  <2> QED BY <2>2, <2>3, <2>4
<1>8. ASSUME NEW p \in Procs, Cancel(p) PROVE \A q \in Procs : BackedUp(q)'
  BY <1>3, <1>8 DEF Cancel, work, BackedUp, Commits, BackedUpSets
<1>9. CASE Reboot BY <1>9 DEF Reboot, Active, BackedUp, Midway
<1>10. ~Tidy BY <1>2 DEF Tidy, Spend, TypeOK, SharedOK, Disturbances
<1>11. CASE UNCHANGED vars BY <1>3, <1>11 DEF vars, BackedUp, Commits, BackedUpSets
<1> QED BY <1>5, <1>6, <1>7, <1>8, <1>9, <1>10, <1>11 DEF Next

\* Under auto_backup, whatever pruning the backup commands make and whatever fails,
\* is interrupted or killed: whenever the database is replaced, what it held is in the
\* backup directory, unless the clock was set back or somebody removed backups beside
\* the lock (transaction.go:127, storage.go:48-81).
THEOREM NothingIsLost ==
  ASSUME AutoBackup
  PROVE  Spec => OverwrittenIsBackedUp
<1>1. Init => BackupsKept
  BY BudgetAssumption DEF Init, BackupsKept, BackedUp, Midway
<1>2. IInv /\ BackupsKept /\ [Next]_vars => BackupsKept'
  BY BackupInductive
<1>3. IInv /\ BackupsKept /\ [Next]_vars
        => (db' # db /\ (\A d \in {"back", "tidy"} : budget[d] = Budget[d])
              => db.set \in BackedUpSets)
  <2> SUFFICES ASSUME IInv, BackupsKept, [Next]_vars, db' # db, Tended
               PROVE  db.set \in BackedUpSets
    BY DEF Tended
  <2>1. PICK p \in Procs : pc[p] = "save" BY OnlySaveCommits
  <2>2. seen[p] = db BY <2>1 DEF IInv, WorkIsCurrent, Current, Checked, Midway
  <2> QED BY <2>1, <2>2 DEF BackupsKept, BackedUp, Midway
<1> QED BY <1>1, <1>2, <1>3, Invariant, PTL DEF Spec, OverwrittenIsBackedUp

--------------------------------------------------------------------------------
(* Atomicity: ordinary commands, of which one command or file write may fail *)

\* Nobody reconciles, at most one thing fails, and that is the only disturbance.
OneFailureAtMost ==
  /\ \A o \in Ops : Commits(o)
  /\ Budget["fail"] <= 1
  /\ \A d \in Disturbances \ {"fail"} : Budget[d] = 0

\* That stays so.
Quiet ==
  /\ budget["fail"] <= 1
  /\ \A d \in Disturbances \ {"fail"} : budget[d] = 0
  /\ \A p \in Procs : ~cancelled[p]

RollingBack == {"rollback", "restore4", "restore6", "recheck", "rolledback"}

HasOld(p, f) == kernel[f] = before[p][f]
HasNew(p, f) == kernel[f] = ApplyTarget(p, f)
HasEither(p, f) == HasOld(p, f) \/ HasNew(p, f)

\* What the kernel holds while p is at work: every family is what p found or what p
\* wants, and which of the two follows from where p is.
KernelKnown(p) ==
  /\ pc[p] \in {"check", "prepare", "backup", "applying", "apply4"} =>
       HasOld(p, 4) /\ HasOld(p, 6)
  /\ pc[p] = "apply6" => HasNew(p, 4) /\ HasOld(p, 6)
  /\ pc[p] \in {"confirm", "applied", "verifying", "verify", "save"} =>
       HasNew(p, 4) /\ HasNew(p, 6)
  /\ pc[p] \in {"rollback", "restore4"} => HasEither(p, 4) /\ HasEither(p, 6)
  /\ pc[p] = "restore6" => HasOld(p, 4) /\ HasEither(p, 6)
  /\ pc[p] \in {"recheck", "rolledback"} => HasOld(p, 4) /\ HasOld(p, 6)

\* A rollback means that the one failure has happened, so it succeeds.
NoSecondFailure(p) ==
  /\ pc[p] \in RollingBack => budget["fail"] = 0
  /\ pc[p] # "failed"
  /\ pc[p] \in {"check"} \cup Checked => KernelReadable(before[p])
  /\ pc[p] \in Critical \cup {"waiting"} => Commits(op[p])

Reported(p) ==
  IF pc[p] = "done" THEN result[p] \in {"error", "COMMITTED", "UNLOGGED", "ROLLED_BACK"}
  ELSE result[p] = "none"

Orderly(p) == KernelKnown(p) /\ NoSecondFailure(p) /\ Reported(p)

\* Unless a command is midway, the firewall enforces the database.
AgreedBetween == (\A p \in Procs : pc[p] \notin Midway) => Synced

Atomicity == Quiet /\ AgreedBetween /\ \A p \in Procs : Orderly(p)

\* What a command installs in the two families is what it wants, family by family.
LEMMA TargetsAreDesired ==
  ASSUME TypeOK, NEW p \in Procs, HasNew(p, 4), HasNew(p, 6)
  PROVE  KernelReadable(kernel) /\ KernelRules(kernel) = desired[p].on
<1>1. \A r \in desired[p].on : r.key.ip \in Families
  BY DEF TypeOK, WorkOK, Normal, Validate
<1>2. kernel[4].rules \cup kernel[6].rules = desired[p].on
  BY <1>1 DEF HasNew, ApplyTarget, Managed, FamilyRules, Families
<1>3. KernelRules(kernel) = kernel[4].rules \cup kernel[6].rules
  BY DEF KernelRules, Families
<1>4. KernelReadable(kernel)
  BY DEF HasNew, ApplyTarget, Managed, KernelReadable, Readable, Families
<1> QED BY <1>2, <1>3, <1>4

\* A kernel that holds the snapshot has its rules.
LEMMA OldIsSnapshot ==
  ASSUME TypeOK, NEW p \in Procs, HasOld(p, 4), HasOld(p, 6)
  PROVE  /\ KernelRules(kernel) = KernelRules(before[p])
         /\ KernelReadable(kernel) <=> KernelReadable(before[p])
         /\ \A f \in Families : kernel[f].mode = before[p][f].mode
  BY DEF HasOld, KernelRules, KernelReadable, Families

\* While things are quiet, a failing command or write uses the one failure up.
LEMMA QuietSpend ==
  ASSUME TypeOK, Quiet, Spend("fail")
  PROVE  budget["fail"] = 1 /\ budget'["fail"] = 0
         /\ \A d \in Disturbances \ {"fail"} : budget'[d] = 0
  BY DEF TypeOK, SharedOK, Quiet, Spend, Disturbances

LEMMA QuietFailure ==
  ASSUME TypeOK, Quiet, NEW p \in Procs, CommandFails(p)
  PROVE  Spend("fail")
  BY DEF Quiet, CommandFails

\* A family call while things are quiet: the target is reached, or the one failure
\* happens and leaves the family as it was or, for an apply, as it was to be.
LEMMA QuietFamilyCall ==
  ASSUME TypeOK, Quiet, NEW p \in Procs, NEW f \in Families, NEW t, NEW next, NEW onError,
         Readable(kernel[f]), FamilyCall(p, f, t, next, onError)
  PROVE  /\ UNCHANGED cancelled
         /\ \A g \in Families \ {f} : kernel'[g] = kernel[g]
         /\ \/ Go(p, next) /\ kernel'[f] = t /\ UNCHANGED budget
            \/ /\ Go(p, onError) /\ Spend("fail")
               /\ t.mode = "managed" => kernel'[f] \in {kernel[f], t}
<1>1. kernel \in [Families -> FamilyState] BY DEF TypeOK, SharedOK, Kernel
<1>2. ~cancelled[p] /\ ~Spend("cancel") BY DEF Quiet, Spend, Disturbances
<1>3. t.mode = "managed" => AfterFailure(kernel[f], t) = {kernel[f], t}
  BY DEF AfterFailure
<1> QED BY <1>1, <1>2, <1>3 DEF FamilyCall

\* Whatever a started command does, things stay quiet.
LEMMA StepQuiet ==
  ASSUME TypeOK, Quiet, NEW p \in Procs, Step(p), \A q \in Procs : Orderly(q)
  PROVE  /\ UNCHANGED cancelled
         /\ UNCHANGED budget \/ Spend("fail")
<1>1. CASE Acquire(p) \/ GiveUp(p) \/ Check(p)
  BY <1>1 DEF Acquire, GiveUp, Check
<1>2. CASE Snapshot(p) \/ Recheck(p)
  BY <1>2, QuietFailure DEF Snapshot, Recheck
<1>3. ASSUME NEW step, NEW next, Verify(p, step, next)
      PROVE  UNCHANGED cancelled /\ (UNCHANGED budget \/ Spend("fail"))
  BY <1>3, QuietFailure DEF Verify
<1>4. CASE \/ Prepare(p) \/ Applying(p) \/ Applied(p) \/ Verifying(p) \/ Save(p)
           \/ Finish(p) \/ Rollback(p) \/ RolledBack(p) \/ RollbackFailed(p)
  BY <1>4 DEF Prepare, Applying, Applied, Verifying, Save, Finish, Rollback,
     RolledBack, RollbackFailed, TryJournal, Journal, WriteFails
<1>5. ASSUME NEW f \in Families, NEW step, NEW next,
             ApplyFamily(p, f, step, next) \/ RestoreFamily(p, f, step, next)
      PROVE  UNCHANGED cancelled /\ (UNCHANGED budget \/ Spend("fail"))
  BY <1>5 DEF ApplyFamily, RestoreFamily, FamilyCall, Quiet, Spend, Disturbances
<1>6. CASE Backup(p)
  <2>1. PICK place \in 1 .. Len(backups) + 1 :
          \/ SpendAll(Only(place # 1, "back"))
          \/ SpendAll(Only(place # 1, "back") \cup {"fail"})
    BY <1>6 DEF Backup
  <2>2. budget \in [Disturbances -> Nat] /\ budget["back"] = 0
    BY DEF TypeOK, SharedOK, Quiet, Disturbances
  <2>3. SpendAll({}) \/ SpendAll({"fail"})
    BY <2>1, <2>2 DEF SpendAll, Only
  <2>4. UNCHANGED budget \/ Spend("fail")
    BY <2>2, <2>3 DEF SpendAll, Spend
  <2> QED BY <1>6, <2>4, BackupShape
<1> QED BY <1>1, <1>2, <1>3, <1>4, <1>5, <1>6 DEF Step, Families

\* The command's own steps: it finds the kernel as it expects it, and only a failure
\* makes it roll back.
LEMMA OwnOrderly ==
  ASSUME IInv, Quiet, OneFailureAtMost, NEW p \in Procs, \A q \in Procs : Orderly(q), Step(p)
  PROVE  Orderly(p)'
<1> USE DEF IInv, At
<1>0. /\ pc[p] \in Steps /\ Orderly(p) /\ Current(p)
      /\ kernel \in [Families -> FamilyState]
  BY DEF TypeOK, ControlOK, SharedOK, Kernel, WorkIsCurrent
<1>1. ASSUME NEW r \in {"error", "COMMITTED", "UNLOGGED", "ROLLED_BACK"}, End(p, r)
      PROVE  Orderly(p)'
  BY <1>1, EndShape
  DEF Orderly, KernelKnown, NoSecondFailure, Reported, RollingBack, Checked, Midway, Critical, Steps
<1>2. CASE Acquire(p)
  BY <1>0, <1>2
  DEF Acquire, TypeOK, ControlOK, work, Orderly, KernelKnown, NoSecondFailure, Reported,
      RollingBack, Checked, Midway, Commits
<1>3. CASE GiveUp(p) BY <1>1, <1>3 DEF GiveUp
<1>4. CASE Snapshot(p)
  <2>1. CASE /\ KernelReadable(kernel) /\ before' = [before EXCEPT ![p] = kernel]
             /\ Move(p, "check") /\ UNCHANGED <<op, desired, seen, kernel>>
    <3>1. before'[p] = kernel BY <2>1 DEF TypeOK, WorkOK
    <3>2. pc'[p] = "check" /\ result' = result BY <2>1, MoveShape
    <3>3. KernelKnown(p)' BY <2>1, <3>1, <3>2 DEF KernelKnown, HasOld
    <3>4. NoSecondFailure(p)'
      BY <1>0, <1>4, <2>1, <3>1, <3>2
      DEF Snapshot, NoSecondFailure, RollingBack, Orderly, Checked, Midway, Critical, Steps,
          Commits, KernelReadable
    <3> QED BY <1>0, <1>4, <3>2, <3>3, <3>4 DEF Snapshot, Orderly, Reported
  <2> QED BY <1>1, <1>4, <2>1 DEF Snapshot
<1>5. ASSUME NEW s \in Steps, Go(p, s), s \notin RollingBack \cup {"failed", "done"},
             pc[p] \in {"check"} \cup Checked,
             KernelKnown(p)'
      PROVE  Orderly(p)'
  BY <1>0, <1>5, GoShape DEF Orderly, NoSecondFailure, Reported, Commits, Checked, Midway,
     Critical, KernelReadable
<1>6. ASSUME NEW s \in RollingBack, Go(p, s), pc[p] \in Checked, budget'["fail"] = 0,
             KernelKnown(p)'
      PROVE  Orderly(p)'
  BY <1>0, <1>6, GoShape DEF Orderly, NoSecondFailure, Reported, Commits, Checked, Midway,
     Critical, KernelReadable, RollingBack
<1>7. ASSUME Go(p, "rollback"), UNCHANGED kernel,
             pc[p] \in {"confirm", "applied", "verifying", "verify", "save"}
      PROVE  KernelKnown(p)'
  BY <1>0, <1>7, GoShape DEF Orderly, KernelKnown, HasEither, HasNew, HasOld, ApplyTarget
<1>8. CASE Check(p)
  <2>1. CASE Move(p, "prepare") /\ UNCHANGED <<op, desired, before, kernel, budget>>
    BY <1>0, <1>8, <2>1, MoveShape
    DEF Check, Orderly, KernelKnown, HasOld, NoSecondFailure, RollingBack, Reported, Checked,
        Critical, Commits, KernelReadable, Steps
  <2> QED BY <1>1, <1>8, <2>1 DEF Check
<1>9. CASE Prepare(p) \/ Backup(p) \/ Applying(p)
  <2>1. ASSUME NEW s \in {"backup", "applying", "apply4"}, Go(p, s), UNCHANGED kernel,
               pc[p] \in {"prepare", "backup", "applying"}
        PROVE  Orderly(p)'
    <3>1. KernelKnown(p)' BY <1>0, <2>1, GoShape DEF Orderly, KernelKnown, HasOld
    <3> QED BY <1>5, <2>1, <3>1 DEF RollingBack, Checked, Steps
  <2> QED BY <1>1, <1>9, <2>1 DEF Prepare, Backup, Applying, Journal
<1>10. CASE ApplyFamily(p, 4, "apply4", "apply6")
  <2>1. Readable(kernel[4]) /\ ApplyTarget(p, 4).mode = "managed"
    BY <1>0, <1>10 DEF ApplyFamily, Orderly, KernelKnown, HasOld, NoSecondFailure, Checked, Midway,
       KernelReadable, Families, ApplyTarget, Managed
  <2>2. HasOld(p, 4) /\ HasOld(p, 6) /\ pc[p] \in Checked
    BY <1>0, <1>10 DEF ApplyFamily, Orderly, KernelKnown, Checked, Midway
  <2>3. CASE Go(p, "apply6") /\ kernel'[4] = ApplyTarget(p, 4) /\ kernel'[6] = kernel[6]
    <3>1. KernelKnown(p)' BY <2>2, <2>3, GoShape DEF KernelKnown, HasOld, HasNew, ApplyTarget
    <3> QED BY <1>5, <2>2, <2>3, <3>1 DEF RollingBack, Steps
  <2>4. CASE /\ Go(p, "rollback") /\ Spend("fail") /\ kernel'[6] = kernel[6]
             /\ kernel'[4] \in {kernel[4], ApplyTarget(p, 4)}
    <3>1. KernelKnown(p)'
      BY <2>2, <2>4, GoShape DEF KernelKnown, HasEither, HasOld, HasNew, ApplyTarget
    <3> QED BY <1>6, <2>2, <2>4, <3>1, QuietSpend DEF RollingBack
  <2> QED
    BY <1>10, <2>1, <2>3, <2>4, QuietFamilyCall DEF ApplyFamily, Families
<1>11. CASE ApplyFamily(p, 6, "apply6", "confirm")
  <2>1. Readable(kernel[6]) /\ ApplyTarget(p, 6).mode = "managed"
    BY <1>0, <1>11 DEF ApplyFamily, Orderly, KernelKnown, HasOld, NoSecondFailure, Checked, Midway,
       KernelReadable, Families, ApplyTarget, Managed
  <2>2. HasNew(p, 4) /\ HasOld(p, 6) /\ pc[p] \in Checked
    BY <1>0, <1>11 DEF ApplyFamily, Orderly, KernelKnown, Checked, Midway
  <2>3. CASE Go(p, "confirm") /\ kernel'[6] = ApplyTarget(p, 6) /\ kernel'[4] = kernel[4]
    <3>1. KernelKnown(p)' BY <2>2, <2>3, GoShape DEF KernelKnown, HasOld, HasNew, ApplyTarget
    <3> QED BY <1>5, <2>2, <2>3, <3>1 DEF RollingBack, Steps
  <2>4. CASE /\ Go(p, "rollback") /\ Spend("fail") /\ kernel'[4] = kernel[4]
             /\ kernel'[6] \in {kernel[6], ApplyTarget(p, 6)}
    <3>1. KernelKnown(p)'
      BY <2>2, <2>4, GoShape DEF KernelKnown, HasEither, HasOld, HasNew, ApplyTarget
    <3> QED BY <1>6, <2>2, <2>4, <3>1, QuietSpend DEF RollingBack
  <2> QED
    BY <1>11, <2>1, <2>3, <2>4, QuietFamilyCall DEF ApplyFamily, Families
<1>12. ASSUME NEW step \in {"confirm", "verify"},
              NEW next \in {"applied", "save"}, Verify(p, step, next)
       PROVE  Orderly(p)'
  <2>1. HasNew(p, 4) /\ HasNew(p, 6) /\ pc[p] \in Checked
    BY <1>0, <1>12 DEF Verify, Orderly, KernelKnown, Checked, Midway
  <2>2. KernelReadable(kernel) /\ KernelRules(kernel) = desired[p].on
    BY <2>1, TargetsAreDesired
  <2>3. CASE Go(p, next) /\ UNCHANGED kernel
    <3>1. KernelKnown(p)' BY <2>1, <2>3, GoShape DEF KernelKnown, HasNew, ApplyTarget
    <3> QED BY <1>5, <2>1, <2>3, <3>1 DEF RollingBack, Steps
  <2>4. CASE CommandFails(p) /\ Go(p, "rollback") /\ UNCHANGED kernel
    <3>1. budget'["fail"] = 0 BY <2>4, QuietFailure, QuietSpend
    <3> QED BY <1>6, <1>7, <1>12, <2>1, <2>4, <3>1 DEF Verify, RollingBack
  <2> QED BY <1>12, <2>2, <2>3, <2>4 DEF Verify
<1>13. Commits(op[p]) \/ pc[p] # "verify"
  BY <1>0 DEF Orderly, NoSecondFailure, Critical, Steps
<1>14. CASE Verify(p, "verify", IF Commits(op[p]) THEN "save" ELSE "finish")
  BY <1>12, <1>13, <1>14 DEF Verify
<1>15. CASE Applied(p) \/ Verifying(p)
  <2>1. ASSUME NEW s \in {"verifying", "verify"}, Go(p, s), UNCHANGED kernel,
               pc[p] \in {"applied", "verifying"}
        PROVE  Orderly(p)'
    <3>1. KernelKnown(p)' BY <1>0, <2>1, GoShape DEF Orderly, KernelKnown, HasNew, ApplyTarget
    <3> QED BY <1>5, <2>1, <3>1 DEF RollingBack, Checked, Midway, Steps
  <2>2. ASSUME WriteFails, Go(p, "rollback"), UNCHANGED kernel,
               pc[p] \in {"applied", "verifying"}
        PROVE  Orderly(p)'
    BY <1>6, <1>7, <2>2, QuietSpend DEF WriteFails, Checked, Midway, RollingBack
  <2> QED BY <1>15, <2>1, <2>2 DEF Applied, Verifying, Journal
<1>16. CASE Save(p)
  <2>1. CASE Go(p, "finish")
    <3>1. KernelKnown(p)' BY <2>1, GoShape DEF KernelKnown
    <3> QED BY <1>5, <1>16, <2>1, <3>1 DEF Save, RollingBack, Checked, Midway, Steps
  <2>2. CASE WriteFails /\ Go(p, "rollback")
    BY <1>6, <1>7, <1>16, <2>2, QuietSpend DEF Save, WriteFails, Checked, Midway, RollingBack
  <2> QED BY <1>16, <2>1, <2>2 DEF Save, SaveError
<1>17. CASE Finish(p) BY <1>1, <1>17 DEF Finish, Journal
<1>18. pc[p] \in RollingBack => budget["fail"] = 0 /\ ~Spend("fail") /\ ~CommandFails(p)
  BY <1>0, QuietFailure DEF Orderly, NoSecondFailure, Spend
<1>19. CASE Rollback(p)
  <2>1. Go(p, "restore4") /\ UNCHANGED <<kernel, budget>>
    BY <1>18, <1>19 DEF Rollback, TryJournal, Journal, WriteFails, RollingBack
  <2>2. KernelKnown(p)'
    BY <1>0, <1>19, <2>1, GoShape
    DEF Rollback, Orderly, KernelKnown, HasEither, HasOld, HasNew, ApplyTarget
  <2> QED BY <1>6, <1>18, <1>19, <2>1, <2>2 DEF Rollback, RollingBack, Checked, Midway
<1>20. CASE RestoreFamily(p, 4, "restore4", "restore6")
  <2>1. pc[p] = "restore4" /\ HasEither(p, 4) /\ HasEither(p, 6) BY <1>0, <1>20
    DEF RestoreFamily, Orderly, KernelKnown
  <2>2. Readable(kernel[4])
    BY <1>0, <2>1 DEF Orderly, NoSecondFailure, Checked, Midway, HasEither, HasOld, HasNew,
       KernelReadable, Readable, ApplyTarget, Managed, Families
  <2>3. /\ Go(p, "restore6") /\ kernel'[4] = before[p][4] /\ UNCHANGED budget
        /\ kernel'[6] = kernel[6]
    BY <1>18, <1>20, <2>1, <2>2, QuietFamilyCall DEF RestoreFamily, RollingBack, Families
  <2>4. KernelKnown(p)'
    BY <2>1, <2>3, GoShape DEF KernelKnown, HasEither, HasOld, HasNew, ApplyTarget
  <2> QED BY <1>6, <1>18, <2>1, <2>3, <2>4 DEF RollingBack, Checked, Midway
<1>21. CASE RestoreFamily(p, 6, "restore6", "recheck")
  <2>1. pc[p] = "restore6" /\ HasOld(p, 4) /\ HasEither(p, 6) BY <1>0, <1>21
    DEF RestoreFamily, Orderly, KernelKnown
  <2>2. Readable(kernel[6])
    BY <1>0, <2>1 DEF Orderly, NoSecondFailure, Checked, Midway, HasEither, HasOld, HasNew,
       KernelReadable, Readable, ApplyTarget, Managed, Families
  <2>3. /\ Go(p, "recheck") /\ kernel'[6] = before[p][6] /\ UNCHANGED budget
        /\ kernel'[4] = kernel[4]
    BY <1>18, <1>21, <2>1, <2>2, QuietFamilyCall DEF RestoreFamily, RollingBack, Families
  <2>4. KernelKnown(p)' BY <2>1, <2>3, GoShape DEF KernelKnown, HasOld
  <2> QED BY <1>6, <1>18, <2>1, <2>3, <2>4 DEF RollingBack, Checked, Midway
<1>22. CASE Recheck(p)
  <2>1. pc[p] = "recheck" /\ HasOld(p, 4) /\ HasOld(p, 6) BY <1>0, <1>22
    DEF Recheck, Orderly, KernelKnown
  <2>2. /\ KernelReadable(kernel) /\ KernelRules(kernel) = KernelRules(before[p])
        /\ \A f \in Families : kernel[f].mode = before[p][f].mode
    BY <1>0, <2>1, OldIsSnapshot DEF Orderly, NoSecondFailure, Checked, Midway
  <2>3. Go(p, "rolledback") /\ UNCHANGED <<kernel, budget>>
    BY <1>18, <1>22, <2>1, <2>2 DEF Recheck, RollingBack
  <2>4. KernelKnown(p)' BY <2>1, <2>3, GoShape DEF KernelKnown, HasOld
  <2> QED BY <1>6, <1>18, <2>1, <2>3, <2>4 DEF RollingBack, Checked, Midway
<1>23. CASE RolledBack(p) BY <1>1, <1>23 DEF RolledBack
<1>24. ~RollbackFailed(p) BY <1>0 DEF RollbackFailed, Orderly, NoSecondFailure
<1> QED
  BY <1>2, <1>3, <1>4, <1>8, <1>9, <1>10, <1>11, <1>12, <1>14, <1>15, <1>16, <1>17,
     <1>19, <1>20, <1>21, <1>22, <1>23, <1>24
  DEF Step

\* A started command that moves keeps what is known of the others: they are not at work.
LEMMA OthersOrderly ==
  ASSUME IInv, NEW p \in Procs, NEW q \in Procs \ {p}, Orderly(q), OwnStep(p),
         \/ pc[p] \in Critical
         \/ UNCHANGED <<kernel, budget>>
  PROVE  Orderly(q)'
<1> USE DEF IInv
<1>1. CASE UNCHANGED <<kernel, budget>>
  BY <1>1 DEF OwnStep, Orderly, KernelKnown, NoSecondFailure, Reported, HasEither, HasOld,
     HasNew, ApplyTarget, KernelReadable, Commits
<1>2. CASE pc[p] \in Critical
  <2>1. pc[q] \notin Critical BY <1>2, ProcsAssumption DEF LockProtects
  <2>2. pc[q] \notin {"check"} \cup Checked \cup RollingBack \cup {"apply4", "failed"}
    BY <2>1 DEF Critical, Steps, Checked, Midway, RollingBack, TypeOK, ControlOK
  <2>3. KernelKnown(q)'
    BY <2>2 DEF OwnStep, KernelKnown, Checked, Midway, RollingBack
  <2> QED BY <2>2, <2>3 DEF OwnStep, Orderly, NoSecondFailure, Reported, Commits
<1> QED BY <1>1, <1>2

\* What changes the kernel or the database leaves the command midway, or leaves both
\* alike.
LEMMA AgreementKept ==
  ASSUME IInv, Quiet, OneFailureAtMost, AgreedBetween, NEW p \in Procs,
         \A q \in Procs : Orderly(q), Orderly(p)', Step(p)
  PROVE  AgreedBetween'
<1> USE DEF IInv, At
<1>0. OwnStep(p) /\ Orderly(p) /\ Current(p) /\ pc[p] \in Steps
  BY StepShape DEF WorkIsCurrent, TypeOK, ControlOK
<1>1. ASSUME pc'[p] \in Midway PROVE AgreedBetween'
  BY <1>1 DEF AgreedBetween
<1>2. ASSUME pc[p] \notin Midway, UNCHANGED <<db, kernel>> PROVE AgreedBetween'
  BY <1>0, <1>2 DEF AgreedBetween, OwnStep, Synced, KernelReadable, KernelRules, SameEnabledRules
<1>3. ASSUME NEW s \in Midway, Go(p, s) PROVE AgreedBetween'
  BY <1>1, <1>3, GoShape
<1>4. CASE Acquire(p) \/ GiveUp(p) \/ Snapshot(p) \/ Check(p) \/ Prepare(p) \/ Backup(p)
           \/ Applying(p) \/ Finish(p)
  BY <1>2, <1>4
  DEF Acquire, GiveUp, Snapshot, Check, Prepare, Backup, Applying, Finish, Midway
<1>5. CASE \/ ApplyFamily(p, 4, "apply4", "apply6") \/ ApplyFamily(p, 6, "apply6", "confirm")
           \/ RestoreFamily(p, 4, "restore4", "restore6")
           \/ RestoreFamily(p, 6, "restore6", "recheck")
  BY <1>3, <1>5 DEF ApplyFamily, RestoreFamily, FamilyCall, Midway
<1>6. CASE \/ Verify(p, "confirm", "applied") \/ Applied(p) \/ Verifying(p) \/ Rollback(p)
           \/ Recheck(p)
  BY <1>3, <1>6 DEF Verify, Applied, Verifying, Journal, Rollback, Recheck, Midway
<1>7. CASE Verify(p, "verify", IF Commits(op[p]) THEN "save" ELSE "finish")
  <2>1. Commits(op[p])
    BY <1>0, <1>7 DEF Verify, Orderly, NoSecondFailure, Critical, Steps
  <2> QED BY <1>3, <1>7, <2>1 DEF Verify, Midway
<1>8. CASE Save(p)
  <2>1. KernelReadable(kernel) /\ KernelRules(kernel) = desired[p].on
    BY <1>0, <1>8 DEF Save, Current
  <2>2. CASE db' = [set |-> desired[p], gen |-> NextGeneration(p)] /\ UNCHANGED kernel
    BY <2>1, <2>2 DEF AgreedBetween, Synced, KernelReadable, KernelRules, SameEnabledRules
  <2> QED BY <1>3, <1>8, <2>2 DEF Save, SaveError, Midway
<1>9. CASE RolledBack(p)
  <2>1. /\ KernelReadable(kernel) /\ KernelRules(kernel) = KernelRules(before[p])
        /\ SameEnabledRules(db.set, KernelRules(before[p]))
    BY <1>0, <1>9
    DEF RolledBack, Current, Checked, Midway, Orderly, NoSecondFailure, Critical, Steps
  <2> QED BY <1>9, <2>1
    DEF RolledBack, AgreedBetween, Synced, KernelReadable, KernelRules, SameEnabledRules
<1>10. ~RollbackFailed(p) BY <1>0 DEF RollbackFailed, Orderly, NoSecondFailure
<1> QED BY <1>4, <1>5, <1>6, <1>7, <1>8, <1>9, <1>10 DEF Step

\* Before the lock a command is orderly: it is open or has been refused.
LEMMA StartOrderly ==
  ASSUME IInv, OneFailureAtMost, NEW p \in Procs, Orderly(p), Start(p) \/ Refuse(p)
  PROVE  Orderly(p)' /\ OwnStep(p) /\ UNCHANGED <<kernel, db, budget, cancelled>>
<1> USE DEF IInv, At
<1>1. CASE Start(p)
  <2>1. PICK o \in Ops : op' = [op EXCEPT ![p] = o] BY <1>1 DEF Start
  <2>2. Commits(op'[p]) BY <2>1 DEF OneFailureAtMost, TypeOK, WorkOK, Commits
  <2>3. pc'[p] = "waiting" /\ result' = result /\ OwnStep(p)
    BY <1>1, MoveShape DEF Start, OwnStep, TypeOK, WorkOK
  <2> QED BY <1>1, <2>2, <2>3
    DEF Start, Orderly, KernelKnown, NoSecondFailure, Reported, RollingBack, Checked, Midway,
        Commits
<1>2. CASE Refuse(p)
  BY <1>2, EndShape
  DEF Refuse, Orderly, KernelKnown, NoSecondFailure, Reported, RollingBack, Checked, Midway,
      Critical, Steps
<1> QED BY <1>1, <1>2

\* Interrupts, crashes and reboots do not happen.
LEMMA NothingElseHappens ==
  ASSUME Quiet, [Next]_vars
  PROVE  (\E p \in Procs : Start(p) \/ Refuse(p) \/ Step(p)) \/ UNCHANGED vars
  BY DEF Quiet, Next, Cancel, Crash, Reboot, Tidy, Spend, Disturbances

\* Every step keeps Atomicity.
LEMMA AtomicityInductive ==
  ASSUME IInv, OneFailureAtMost, Atomicity, [Next]_vars
  PROVE  Atomicity'
<1> USE DEF Atomicity
<1>1. ASSUME NEW p \in Procs, Start(p) \/ Refuse(p) PROVE Atomicity'
  <2>1. Orderly(p)' /\ OwnStep(p) /\ UNCHANGED <<kernel, db, budget, cancelled>>
    BY <1>1, StartOrderly
  <2>2. \A q \in Procs : Orderly(q)' BY <2>1, OthersOrderly
  <2>3. Quiet' BY <2>1 DEF Quiet
  <2>4. pc[p] \notin Midway BY <1>1 DEF Start, Refuse, At, Midway
  <2>5. AgreedBetween'
    BY <2>1, <2>4 DEF AgreedBetween, OwnStep, Synced, KernelReadable, KernelRules,
       SameEnabledRules
  <2> QED BY <2>2, <2>3, <2>5
<1>2. ASSUME NEW p \in Procs, Step(p) PROVE Atomicity'
  <2>1. Orderly(p)' BY <1>2, OwnOrderly
  <2>2. OwnStep(p) /\ (pc[p] \in Critical \/ UNCHANGED <<kernel, budget>>)
    <3>1. pc[p] \in Critical \/ Acquire(p) \/ GiveUp(p)
      BY <1>2 DEF Step, Snapshot, Check, Prepare, Backup, Applying, ApplyFamily, Verify,
         Applied, Verifying, Save, Finish, Rollback, RestoreFamily, Recheck, RolledBack,
         RollbackFailed, At, Critical, Steps
    <3> QED BY <1>2, <3>1, StepShape DEF Acquire, GiveUp, IInv
  <2>3. \A q \in Procs : Orderly(q)' BY <2>1, <2>2, OthersOrderly
  <2>4. Quiet' BY <1>2, StepQuiet, QuietSpend DEF Quiet, IInv
  <2> QED BY <1>2, <2>1, <2>3, <2>4, AgreementKept
<1>3. ASSUME UNCHANGED vars PROVE Atomicity'
  BY <1>3 DEF vars, Quiet, AgreedBetween, Synced, KernelReadable, KernelRules,
     SameEnabledRules, Orderly, KernelKnown, NoSecondFailure, Reported, HasEither, HasOld,
     HasNew, ApplyTarget, Commits
<1> QED BY <1>1, <1>2, <1>3, NothingElseHappens

\* It holds to begin with: the machine starts with the firewall enforcing the database.
LEMMA InitAtomicity == Init /\ OneFailureAtMost => Atomicity
<1> SUFFICES ASSUME Init, OneFailureAtMost PROVE Atomicity OBVIOUS
<1>1. Quiet BY DEF Init, OneFailureAtMost, Quiet
<1>2. Synced
  <2>1. db.set \in RuleSet /\ Normal(db.set) BY InitialAssumption DEF Init
  <2>2. \A r \in db.set.on : r.key.ip \in Families BY <2>1 DEF Normal, Validate
  <2>3. KernelReadable(Installed(db.set)) /\ KernelRules(Installed(db.set)) = db.set.on
    BY <2>2 DEF Installed, Managed, FamilyRules, KernelReadable, Readable, KernelRules
  <2>4. KernelReadable(NoKernel) /\ KernelRules(NoKernel) = {}
    BY DEF NoKernel, Absent, KernelReadable, Readable, KernelRules
  <2>5. kernel = Installed(db.set) \/ (kernel = NoKernel /\ db.set.on = {})
    BY DEF Init, Only, EmptySet
  <2> QED BY <2>3, <2>4, <2>5 DEF Synced, SameEnabledRules
<1>3. \A p \in Procs : Orderly(p)
  BY DEF Init, Orderly, KernelKnown, NoSecondFailure, Reported, RollingBack, Checked, Midway,
     Critical, Steps
<1> QED BY <1>1, <1>2, <1>3 DEF Atomicity, AgreedBetween

LEMMA AtomicityInvariant ==
  ASSUME OneFailureAtMost
  PROVE  Spec => []Atomicity
<1>1. Init => Atomicity BY InitAtomicity
<1>2. IInv /\ Atomicity /\ [Next]_vars => Atomicity' BY AtomicityInductive
<1> QED BY <1>1, <1>2, Invariant, PTL DEF Spec

\* Unless an interrupt, a crash or a second failure comes in between: no command reports
\* a failed rollback, and whenever nobody is at work the firewall enforces the database.
THEOREM OneFailureDoesNoHarm ==
  ASSUME OneFailureAtMost
  PROVE  Spec => []OneFailureIsHarmless
<1>1. IInv /\ Atomicity => OneFailureIsHarmless
  <2> SUFFICES ASSUME IInv, Atomicity PROVE OneFailureIsHarmless OBVIOUS
  <2>1. \A p \in Procs : result[p] # "ROLLBACK_FAILED"
    BY DEF Atomicity, Orderly, Reported
  <2>2. lock = Free => Synced
    BY ProcsAssumption
    DEF Atomicity, AgreedBetween, IInv, LockProtects, Midway, Critical, Steps
  <2> QED BY <2>1, <2>2 DEF OneFailureIsHarmless
<1>2. Spec => []Atomicity BY AtomicityInvariant
<1> QED BY <1>1, <1>2, Invariant, PTL

--------------------------------------------------------------------------------
(* The refinement: Transaction implements AtomicStore *)

\* What the mapping calls enforced is what is committed: the snapshot while a command is
\* midway, the kernel otherwise.
LEMMA EnforcedIsCommitted == IInv /\ Atomicity => Enforced = db.set.on
<1> SUFFICES ASSUME IInv, Atomicity PROVE Enforced = db.set.on OBVIOUS
<1>1. CASE lock # Free /\ pc[lock] \in Midway
  <2>1. lock \in Procs BY <1>1 DEF IInv, TypeOK, ControlOK
  <2>2. SameEnabledRules(db.set, KernelRules(before[lock]))
    BY <1>1, <2>1 DEF IInv, WorkIsCurrent, Current, Checked, Midway, Atomicity, Orderly,
       NoSecondFailure, Critical, Steps
  <2> QED BY <1>1, <2>2 DEF Enforced, SameEnabledRules
<1>2. CASE ~(lock # Free /\ pc[lock] \in Midway)
  <2>1. \A p \in Procs : pc[p] \notin Midway
    BY <1>2, ProcsAssumption DEF IInv, LockProtects, Midway, Critical, Steps
  <2>2. Synced BY <2>1 DEF Atomicity, AgreedBetween
  <2> QED BY <1>2, <2>2 DEF Enforced, Synced, SameEnabledRules
<1> QED BY <1>1, <1>2

\* A command's verdict as long as things are quiet.
LEMMA VerdictOf ==
  ASSUME NEW p \in Procs, Orderly(p)
  PROVE  Verdict(p) = IF pc[p] = "finish" \/ result[p] \in {"COMMITTED", "UNLOGGED"}
                        THEN "committed"
                      ELSE IF pc[p] = "done" THEN "aborted" ELSE "open"
  BY DEF Orderly, Reported, Verdict

\* A step of a command leaves its verdict open or as it is, aborts without a trace, or
\* commits by saving.
LEMMA VerdictStep ==
  ASSUME IInv, Atomicity, NEW p \in Procs, Start(p) \/ Refuse(p) \/ Step(p), Orderly(p)'
  PROVE  \/ UNCHANGED db /\ Verdict(p)' = Verdict(p)
         \/ UNCHANGED db /\ Verdict(p) = "open" /\ Verdict(p)' = "aborted"
         \/ Verdict(p) = "open" /\ Verdict(p)' = "committed" /\ db'.set = desired[p]
<1> USE DEF At
<1>0. /\ Orderly(p) /\ TypeOK
      /\ pc[p] # "done" => result[p] = "none"
      /\ pc'[p] # "done" => result'[p] = "none"
  BY DEF Atomicity, IInv, Orderly, Reported
<1>1. ASSUME NEW s, s \notin {"finish", "done"}, Move(p, s), pc[p] \notin {"finish", "done"}
      PROVE  Verdict(p)' = Verdict(p)
  BY <1>0, <1>1, MoveShape DEF Verdict
<1>2. ASSUME NEW r \in {"error", "ROLLED_BACK"}, End(p, r), pc[p] \notin {"finish", "done"}
      PROVE  Verdict(p) = "open" /\ Verdict(p)' = "aborted"
  BY <1>0, <1>2, EndShape DEF Verdict
<1>3. CASE Start(p) \/ Refuse(p)
  BY <1>1, <1>2, <1>3 DEF Start, Refuse
<1>4. CASE Acquire(p)
  BY <1>0, <1>4 DEF Acquire, TypeOK, ControlOK, Verdict
<1>5. CASE GiveUp(p) \/ Snapshot(p) \/ Check(p) \/ Prepare(p) \/ Backup(p) \/ Applying(p)
  BY <1>1, <1>2, <1>5 DEF GiveUp, Snapshot, Check, Prepare, Backup, Applying, Journal, Go
<1>6. CASE \/ ApplyFamily(p, 4, "apply4", "apply6") \/ ApplyFamily(p, 6, "apply6", "confirm")
           \/ RestoreFamily(p, 4, "restore4", "restore6")
           \/ RestoreFamily(p, 6, "restore6", "recheck")
  BY <1>1, <1>6 DEF ApplyFamily, RestoreFamily, FamilyCall, Go
<1>7. CASE \/ Verify(p, "confirm", "applied") \/ Applied(p) \/ Verifying(p) \/ Rollback(p)
           \/ Recheck(p)
  BY <1>1, <1>7 DEF Verify, Applied, Verifying, Journal, Rollback, Recheck, Go
<1>8. CASE Verify(p, "verify", IF Commits(op[p]) THEN "save" ELSE "finish")
  <2>1. Commits(op[p])
    BY <1>0, <1>8 DEF Verify, Orderly, NoSecondFailure, Critical, Steps
  <2> QED BY <1>1, <1>8, <2>1 DEF Verify, Go
<1>9. CASE Save(p)
  <2>1. CASE Go(p, "rollback") /\ UNCHANGED db BY <1>1, <1>9, <2>1 DEF Save, Go
  <2>2. CASE db' = [set |-> desired[p], gen |-> NextGeneration(p)] /\ Go(p, "finish")
    BY <1>0, <1>9, <2>2, GoShape DEF Save, Verdict
  <2> QED BY <1>9, <2>1, <2>2 DEF Save, SaveError
<1>10. CASE Finish(p)
  <2>1. \E r \in {"COMMITTED", "UNLOGGED"} : End(p, r)
    BY <1>10 DEF Finish, Journal
  <2>2. result'[p] \in {"COMMITTED", "UNLOGGED"} BY <1>0, <2>1, EndShape
  <2>3. pc[p] = "finish" /\ UNCHANGED db BY <1>10 DEF Finish
  <2>4. Verdict(p) = "committed" BY <1>0, <2>3, VerdictOf
  <2>5. Verdict(p)' = "committed" BY <2>2 DEF Verdict
  <2> QED BY <2>3, <2>4, <2>5
<1>11. CASE RolledBack(p) BY <1>2, <1>11 DEF RolledBack
<1>12. ~RollbackFailed(p) BY <1>0 DEF RollbackFailed, Orderly, NoSecondFailure
<1> QED BY <1>3, <1>4, <1>5, <1>6, <1>7, <1>8, <1>9, <1>10, <1>11, <1>12 DEF Step

\* Before the lock a command touches only its own control and locals.
LEMMA StartShape ==
  ASSUME TypeOK, NEW p \in Procs, Start(p) \/ Refuse(p)
  PROVE  OwnStep(p)
  BY MoveShape, EndShape DEF Start, Refuse, OwnStep, TypeOK, WorkOK

\* The abstract store and the transactions mean the same by Normal.
LEMMA SameNormal == \A s : Normal(s) => Store!Normal(s)
  BY DEF Normal, Validate, UniqueIds, UniqueKeys, NoOverlap, Overlaps, SameTraffic, Families,
     Store!Normal, Store!Validate, Store!UniqueIds, Store!UniqueKeys, Store!NoOverlap,
     Store!Overlaps, Store!SameTraffic, Store!Families

\* Every step of quiet transactions is a step of the atomic store or none.
LEMMA StepsRefine ==
  ASSUME IInv, Atomicity, IInv', Atomicity', [Next]_vars
  PROVE  [Store!Next]_Store!storeVars
<1>1. Enforced = db.set.on /\ Enforced' = db'.set.on
  <2>1. Enforced = db.set.on BY EnforcedIsCommitted
  <2>2. (IInv /\ Atomicity => Enforced = db.set.on)' BY EnforcedIsCommitted, PTL
  <2> QED BY <2>1, <2>2
<1>2. ASSUME NEW p \in Procs, Start(p) \/ Refuse(p) \/ Step(p)
      PROVE  [Store!Next]_Store!storeVars
  <2>1. Orderly(p)' BY DEF Atomicity
  <2>2. OwnStep(p)
    BY <1>2, StepShape, StartShape DEF IInv
  <2>3. \A q \in Procs \ {p} : Verdict(q)' = Verdict(q)
    BY <2>2 DEF OwnStep, Verdict
  <2>4. CASE UNCHANGED db /\ Verdict(p)' = Verdict(p)
    <3>1. [q \in Procs |-> Verdict(q)]' = [q \in Procs |-> Verdict(q)]
      BY <2>3, <2>4
    <3> QED BY <1>1, <2>4, <3>1 DEF Store!storeVars
  <2>5. ASSUME NEW v, Verdict(p)' = v
        PROVE  [q \in Procs |-> Verdict(q)]' = [[q \in Procs |-> Verdict(q)] EXCEPT ![p] = v]
    BY <2>3, <2>5
  <2>6. CASE UNCHANGED db /\ Verdict(p) = "open" /\ Verdict(p)' = "aborted"
    <3>1. Store!Decide(p, "aborted") BY <2>5, <2>6 DEF Store!Decide
    <3>2. Store!Abort(p) BY <1>1, <2>6, <3>1 DEF Store!Abort
    <3> QED BY <3>2 DEF Store!Next
  <2>7. CASE Verdict(p) = "open" /\ Verdict(p)' = "committed"
    <3>1. Store!Decide(p, "committed") BY <2>5, <2>7 DEF Store!Decide
    <3>2. Store!Normal(db'.set) BY SameNormal DEF IInv, TypeOK, SharedOK
    <3>3. Store!Commit(p) BY <1>1, <3>1, <3>2 DEF Store!Commit
    <3> QED BY <3>3 DEF Store!Next
  <2> QED BY <1>2, <2>1, <2>4, <2>6, <2>7, VerdictStep
<1>3. CASE UNCHANGED vars
  BY <1>3 DEF vars, Store!storeVars, Enforced, Verdict, KernelRules, Midway
<1>4. Quiet BY DEF Atomicity
<1> QED BY <1>2, <1>3, <1>4, NothingElseHappens

\* And the initial states are its initial states.
LEMMA InitRefines == Init /\ Atomicity /\ IInv => Store!Init
<1> SUFFICES ASSUME Init, Atomicity, IInv PROVE Store!Init OBVIOUS
<1>1. Enforced = db.set.on BY EnforcedIsCommitted
<1>2. Store!Normal(db.set) BY SameNormal DEF IInv, TypeOK, SharedOK
<1>3. [p \in Procs |-> Verdict(p)] = [p \in Procs |-> "open"]
  BY DEF Init, Verdict
<1> QED BY <1>1, <1>2, <1>3 DEF Store!Init

\* Commands that commit, of which one command or file write may fail, replace database
\* and firewall together or not at all, however they interleave: the manager implements
\* the atomic store.
THEOREM TransactionsAreAtomic ==
  ASSUME OneFailureAtMost
  PROVE  Spec => Atomic
<1>1. Spec => []Atomicity BY AtomicityInvariant
<1>2. Init /\ Atomicity /\ IInv => Store!Init BY InitRefines
<1>3. IInv /\ Atomicity /\ IInv' /\ Atomicity' /\ [Next]_vars => [Store!Next]_Store!storeVars
  BY StepsRefine
<1> QED BY <1>1, <1>2, <1>3, Invariant, PTL DEF Spec, Atomic, Store!Spec

--------------------------------------------------------------------------------
(* The rule editor of RuleEdits: the edits of internal/app and the rules of      *)
(* Normalize fit together, for any keys, any identifiers crypto/rand may return  *)
(* and any import files.                                                         *)

\* The editor starts with a normal rule set.
LEMMA EditorStarts == EditorInit => EditorTypeOK
  BY EmptySetIsNormal DEF EditorInit, EditorTypeOK

\* Every edit that Normalize accepts makes another.
LEMMA EditorStays == EditorTypeOK /\ [EditorNext]_set => EditorTypeOK'
<1> SUFFICES ASSUME EditorTypeOK, EditorNext PROVE EditorTypeOK'
  BY DEF EditorTypeOK
<1> USE DEF EditorTypeOK, Commit
<1>1. CASE AddRule
  <2>1. PICK k \in Keys : \E s \in Add(k, set) : Normal(s) /\ set' = s
    BY <1>1 DEF AddRule
  <2> QED
    BY <2>1 DEF Add, FreeIds, RuleSet, Rule, Ids, IdsOf, KeysOf
<1>2. CASE DeleteRule
  BY <1>2 DEF DeleteRule, Delete, Carrier, RuleSet
<1>3. CASE ToggleRule
  BY <1>3 DEF ToggleRule, Toggle, Carrier, RuleSet
<1>4. CASE EditRule
  BY <1>4 DEF EditRule, Edit, Carrier, RuleSet, Rule
<1>5. CASE ClearRules
  BY <1>5, EmptySetIsNormal DEF ClearRules
<1>6. CASE ImportRules
  <2>1. PICK K \in SUBSET Keys :
          \E s \in ImportReplace(K, set) \cup ImportMerge(K, set) : Normal(s) /\ set' = s
    BY <1>6, KeySetsAssumption DEF ImportRules
  <2>2. CASE \E s \in ImportReplace(K, set) : Normal(s) /\ set' = s
    BY <2>2 DEF ImportReplace, Parsed, RuleSet, Rule, Ids
  <2>3. CASE \E s \in ImportMerge(K, set) : Normal(s) /\ set' = s
    BY <2>3 DEF ImportMerge, NewKeys, RuleSet, Rule, Ids
  <2> QED
    BY <2>1, <2>2, <2>3
<1> QED
  BY <1>1, <1>2, <1>3, <1>4, <1>5, <1>6 DEF EditorNext

\* After any edits the committed rule set is one that Decode would load again
\* (model.go:85-144).
THEOREM EditsKeepNormal == EditorSpec => []EditorTypeOK
BY EditorStarts, EditorStays, PTL DEF EditorSpec

LEMMA OverlapIsSymmetric ==
  ASSUME NEW j \in KeyType, NEW k \in KeyType, Overlaps(j, k)
  PROVE  Overlaps(k, j)
  BY DEF KeyType, SameTraffic, Overlaps

\* The rules of a rule set have keys of the type the comparisons are about.
LEMMA RuleKeys ==
  ASSUME NEW s \in RuleSet, NEW r \in s.all \cup s.on
  PROVE  r \in Rule /\ r.key \in Keys /\ r.key \in KeyType
  BY KeysAssumption DEF RuleSet, Rule

\* No packet has two enabled rules of a normal set: comparing range ends pairwise is enough
\* (model.go:129-141).
LEMMA NormalIsDisjoint ==
  ASSUME NEW s \in RuleSet, Normal(s)
  PROVE  OneOwner(s.on)
<1> SUFFICES ASSUME NEW r \in s.on, NEW q \in s.on,
                    SameTraffic(r.key, q.key), (Ports(r.key) \cap Ports(q.key)) # {}
             PROVE  r = q
  BY DEF OneOwner
<1>1. r.key \in KeyType /\ q.key \in KeyType
  BY RuleKeys
<1>2. Overlaps(r.key, q.key)
  BY <1>1, OverlapFindsSharedPorts
<1> QED
  BY <1>2 DEF Normal, NoOverlap

\* A free identifier and a free key whose ports nobody has make a normal rule set.
LEMMA NewRuleIsNormal ==
  ASSUME NEW s \in RuleSet, Normal(s), NEW i \in Ids, i \notin IdsOf(s), NEW k \in Keys,
         Validate(k), k \notin KeysOf(s), \A r \in s.on : ~Overlaps(r.key, k)
  PROVE  LET r == [id |-> i, key |-> k]
         IN Normal([all |-> s.all \cup {r}, on |-> s.on \cup {r}])
<1> DEFINE r == [id |-> i, key |-> k]
           t == [all |-> s.all \cup {r}, on |-> s.on \cup {r}]
<1>1. r.id = i /\ r.key = k /\ t.all = s.all \cup {r} /\ t.on = s.on \cup {r}
  OBVIOUS
<1> HIDE DEF r, t
<1>2. k \in KeyType
  BY KeysAssumption
<1>3. t.on \subseteq t.all /\ \A q \in t.all : Validate(q.key)
  BY <1>1 DEF Normal
<1>4. UniqueIds(t.all) /\ UniqueKeys(t.all)
  BY <1>1 DEF Normal, UniqueIds, UniqueKeys, IdsOf, KeysOf
<1>5. NoOverlap(t.on)
  <2>1. \A q \in s.on : ~Overlaps(k, q.key)
    BY <1>2, RuleKeys, OverlapIsSymmetric
  <2> QED
    BY <1>1, <1>2, <2>1 DEF Normal, NoOverlap
<1>6. Normal(t)
  BY <1>3, <1>4, <1>5 DEF Normal
<1> QED
  BY <1>6 DEF r, t

\* A valid new key that overlaps no enabled rule can be added to it, as long as random
\* identifiers are left (app.go:147-170): even when its own identifier is taken.
LEMMA NormalHasRoom ==
  ASSUME NEW s \in RuleSet, Normal(s)
  PROVE  HasRoom(s)
<1> SUFFICES ASSUME NEW k \in Keys, Validate(k), k \notin KeysOf(s),
                    \A r \in s.on : ~Overlaps(r.key, k),
                    ~(RandomIds \subseteq IdsOf(s))
             PROVE  \E t \in Add(k, s) : Normal(t)
  BY DEF HasRoom
<1>1. PICK i \in FreeIds(k, IdsOf(s)) : i \in Ids /\ i \notin IdsOf(s)
  BY DEF FreeIds, Ids
<1> DEFINE r == [id |-> i, key |-> k]
           t == [all |-> s.all \cup {r}, on |-> s.on \cup {r}]
<1>2. Normal(t)
  BY <1>1, NewRuleIsNormal
<1>3. t \in Add(k, s)
  BY <1>1 DEF Add
<1> QED
  BY <1>2, <1>3

\* What an export holds: the keys of the enabled rules, which are valid and disjoint.
LEMMA ExportIsClean ==
  ASSUME NEW s \in RuleSet, Normal(s)
  PROVE  /\ \A k \in Export(s) : Validate(k)
         /\ \A j, k \in Export(s) : j # k => ~Overlaps(j, k)
         /\ Export(s) \subseteq KeysOf(s)
  BY DEF Normal, NoOverlap, Export, KeysOf

\* An export imports as exactly its enabled keys, and merging it changes nothing
\* (model.go:214-230, app.go:116-145).
LEMMA NormalSurvivesExport ==
  ASSUME NEW s \in RuleSet, Normal(s)
  PROVE  SurvivesExport(s)
<1> DEFINE K == Export(s)
           t == [all |-> Parsed(K), on |-> Parsed(K)]
<1>1. ImportReplace(K, s) = {t}
  BY ExportIsClean DEF ImportReplace
<1>2. Normal(t)
  <2>1. \A r \in Parsed(K) : r.key \in K /\ r.id = r.key /\ r = [id |-> r.key, key |-> r.key]
    BY DEF Parsed
  <2>2. UniqueIds(Parsed(K)) /\ UniqueKeys(Parsed(K))
    BY <2>1 DEF UniqueIds, UniqueKeys
  <2>3. NoOverlap(Parsed(K))
    BY <2>1, ExportIsClean DEF NoOverlap
  <2>4. \A r \in Parsed(K) : Validate(r.key)
    BY <2>1, ExportIsClean
  <2> QED
    BY <2>2, <2>3, <2>4 DEF Normal
<1>3. Export(t) = K
  <2>1. {r.key : r \in Parsed(K)} = K
    <3>1. \A k \in K : [id |-> k, key |-> k] \in Parsed(K) /\ [id |-> k, key |-> k].key = k
      BY DEF Parsed
    <3>2. \A r \in Parsed(K) : r.key \in K
      BY DEF Parsed
    <3> HIDE DEF K
    <3> QED
      BY <3>1, <3>2
  <2>2. t.on = Parsed(K)
    OBVIOUS
  <2> QED
    BY <2>1, <2>2 DEF Export
<1>4. ImportMerge(K, s) = {s}
  <2>1. NewKeys(K, s) = {}
    BY ExportIsClean DEF NewKeys
  <2>2. [k \in {} |-> k] \in [{} -> Ids]
    OBVIOUS
  <2>3. [all |-> s.all \cup {}, on |-> s.on \cup {}] = s
    BY DEF RuleSet
  <2> QED
    BY <2>1, <2>2, <2>3, ExportIsClean DEF ImportMerge
<1> QED
  BY <1>1, <1>2, <1>3, <1>4 DEF SurvivesExport

\* Whatever was edited before, no packet ever has two enabled rules (model.go:129-141).
THEOREM OneRulePerPort == EditorSpec => []OnePortOneRule
<1>1. EditorTypeOK => OnePortOneRule
  BY NormalIsDisjoint DEF EditorTypeOK, OnePortOneRule
<1> QED
  BY <1>1, EditorStarts, EditorStays, PTL DEF EditorSpec

\* Whatever was edited before, a valid new key on free ports can be added, as long as random
\* identifiers are left (app.go:147-170).
THEOREM FreePortsAreFree == EditorSpec => []FreePortsCanBeAdded
<1>1. EditorTypeOK => FreePortsCanBeAdded
  BY NormalHasRoom DEF EditorTypeOK, FreePortsCanBeAdded
<1> QED
  BY <1>1, EditorStarts, EditorStays, PTL DEF EditorSpec

\* Whatever was edited before, importing an export of the rules keeps exactly the enabled
\* keys, and merging it changes nothing (model.go:214-230, app.go:116-145).
THEOREM ExportsImport == EditorSpec => []ExportImports
<1>1. EditorTypeOK => ExportImports
  BY NormalSurvivesExport DEF EditorTypeOK, ExportImports
<1> QED
  BY <1>1, EditorStarts, EditorStays, PTL DEF EditorSpec

\* The same of the rule database, whatever commands race for it, fail, are interrupted or
\* killed: at all times no packet has two enabled rules, a valid key whose ports nobody has
\* can be added, and an export of the database can be imported again.
THEOREM EditorsShareOneDatabase ==
  Spec => [](OneOwner(db.set.on) /\ HasRoom(db.set) /\ SurvivesExport(db.set))
<1>1. IInv => OneOwner(db.set.on) /\ HasRoom(db.set) /\ SurvivesExport(db.set)
  <2> SUFFICES ASSUME IInv
               PROVE  OneOwner(db.set.on) /\ HasRoom(db.set) /\ SurvivesExport(db.set)
    OBVIOUS
  <2>1. SharedOK
    BY DEF IInv, TypeOK
  <2>2. db.set \in RuleSet /\ Normal(db.set)
    BY <2>1 DEF SharedOK, Database
  <2> QED
    BY <2>2, NormalIsDisjoint, NormalHasRoom, NormalSurvivesExport
<1> QED
  BY <1>1, Invariant, PTL

--------------------------------------------------------------------------------
(* Doctor: the walk over a listing finds the lines a packet can get to, and  *)
(* only those.                                                               *)

Nodes == Families \X (CustomChains \cup {Hook})
NodeOf(l) == <<l.ip, l.chain>>
TargetOf(l) == <<l.ip, l.target>>

DoctorTypeOK ==
  /\ rules \subseteq Keys /\ \A k \in rules : Validate(k)
  /\ foreign \subseteq Lines
  /\ sockets \subseteq Sockets
  /\ bindv6only \in BOOLEAN
  /\ at \in {"idle", "inspecting"}
  /\ listed \subseteq Lines \cup OwnLines(rules)
  /\ unlisted \subseteq Families
  /\ queue \subseteq Nodes /\ visited \subseteq Nodes
  /\ found \subseteq listed

\* Sets of nodes a walk over the listing does not leave.
Closed(S) ==
  /\ \A ip \in Families \ unlisted : <<ip, Hook>> \in S
  /\ \A l \in listed : Followed(l) /\ NodeOf(l) \in S => TargetOf(l) \in S

Reachable == {n \in Nodes : \A S \in SUBSET Nodes : Closed(S) => n \in S}

\* The loop invariant of reachableRules: all that is reachable lies behind the queue,
\* nothing else was visited, and what was found are the lines of the visited chains.
WalkOK ==
  /\ at = "idle" => listed = {} /\ unlisted = {} /\ queue = {} /\ visited = {} /\ found = {}
  /\ \A n \in queue \cup visited : n[1] \notin unlisted
  /\ at = "inspecting" => \A ip \in Families \ unlisted : <<ip, Hook>> \in queue \cup visited
  /\ \A l \in listed : Followed(l) /\ NodeOf(l) \in visited => TargetOf(l) \in queue \cup visited
  /\ at = "inspecting" => \A S \in SUBSET Nodes : Closed(S) => queue \cup visited \subseteq S
  /\ found = {l \in listed : NodeOf(l) \in visited}

DoctorInv == DoctorTypeOK /\ WalkOK

LEMMA DoctorStarts == DoctorInit => DoctorInv
  BY DEF DoctorInit, DoctorInv, DoctorTypeOK, WalkOK, NodeOf, TargetOf

LEMMA LinesOfNode ==
  ASSUME NEW table, NEW n \in Nodes
  PROVE  LinesOf(table, n) = {l \in table : NodeOf(l) = n}
  BY DEF LinesOf, Nodes, NodeOf

LEMMA TargetsOfNode ==
  ASSUME NEW table, NEW n \in Nodes
  PROVE  Targets(table, n) = {TargetOf(l) : l \in {m \in table : Followed(m) /\ NodeOf(m) = n}}
<1>1. \A l : l.ip = n[1] /\ l.chain = n[2] <=> NodeOf(l) = n
  BY DEF Nodes, NodeOf
<1> QED
  BY <1>1 DEF Targets, LinesOf, TargetOf, NodeOf

\* What is followed leads to a node again.
LEMMA FollowedIsNode ==
  ASSUME NEW l, NodeOf(l) \in Nodes, Followed(l)
  PROVE  TargetOf(l) \in Nodes
  BY DEF Nodes, NodeOf, TargetOf, Followed, Declared

LEMMA BeginOK == ASSUME DoctorInv, Begin PROVE DoctorInv'
<1> USE DEF Begin, world, DoctorInv
<1>1. DoctorTypeOK'
  BY DEF DoctorTypeOK
<1>2. WalkOK'
  BY DEF WalkOK, NodeOf, TargetOf, Closed
<1> QED
  BY <1>1, <1>2

LEMMA EndOfInspectionOK ==
  ASSUME DoctorInv, EndInspection, foreign' = foreign, sockets' = sockets, bindv6only' = bindv6only,
         rules' \subseteq Keys, \A k \in rules' : Validate(k)
  PROVE  DoctorInv'
<1> USE DEF EndInspection, DoctorInv
<1>1. DoctorTypeOK'
  BY DEF DoctorTypeOK
<1>2. WalkOK'
  BY DEF WalkOK
<1> QED
  BY <1>1, <1>2

LEMMA ListOK == ASSUME DoctorInv, NEW ip \in Families, List(ip) PROVE DoctorInv'
<1> USE DEF List, world, DoctorInv
<1>1. DoctorTypeOK'
  <2>1. listed' \subseteq (Lines \cup OwnLines(rules))'
    BY DEF DoctorTypeOK, NatTable, OwnLines
  <2>2. queue' \subseteq Nodes
    BY DEF Nodes
  <2> QED
    BY <2>1, <2>2 DEF DoctorTypeOK
<1>2. \A l \in listed' : l.ip # ip => l \in listed
  OBVIOUS
<1>3. \A n \in visited : n \in Nodes /\ n[1] # ip
  BY DEF WalkOK, DoctorTypeOK
<1>4. \A l \in listed' : NodeOf(l) \in visited => l \in listed
  BY <1>2, <1>3 DEF NodeOf
<1>5. WalkOK'
  <2>1. (\A n \in queue \cup visited : n[1] \notin unlisted)'
    BY DEF WalkOK
  <2>2. (\A other \in Families \ unlisted : <<other, Hook>> \in queue \cup visited)'
    BY DEF WalkOK
  <2>3. (\A l \in listed : Followed(l) /\ NodeOf(l) \in visited => TargetOf(l) \in queue \cup visited)'
    BY <1>4 DEF WalkOK, NodeOf, TargetOf, Followed, Declared
  <2>4. (\A S \in SUBSET Nodes : Closed(S) => queue \cup visited \subseteq S)'
    <3> SUFFICES ASSUME NEW S \in SUBSET Nodes, Closed(S)'
                 PROVE  queue' \cup visited' \subseteq S
      BY DEF Nodes
    <3>1. Closed(S)
      BY DEF Closed, DoctorTypeOK, NodeOf, TargetOf, Followed, Declared
    <3>2. <<ip, Hook>> \in S
      BY DEF Closed
    <3> QED
      BY <3>1, <3>2 DEF WalkOK
  <2>5. (found = {l \in listed : NodeOf(l) \in visited})'
    BY <1>4 DEF WalkOK, NodeOf
  <2> QED
    BY <2>1, <2>2, <2>3, <2>4, <2>5 DEF WalkOK
<1> QED
  BY <1>1, <1>5

LEMMA SkipOK == ASSUME DoctorInv, NEW node \in queue, Skip(node) PROVE DoctorInv'
<1> USE DEF Skip, world, DoctorInv
<1>1. queue' \cup visited' = queue \cup visited
  OBVIOUS
<1>2. DoctorTypeOK'
  BY DEF DoctorTypeOK, OwnLines, Nodes
<1>3. WalkOK'
  <2>1. at # "idle"
    BY DEF WalkOK
  <2> QED
    BY <1>1, <2>1 DEF WalkOK, Closed, NodeOf, TargetOf, Followed, Declared, Nodes
<1> QED
  BY <1>2, <1>3

LEMMA VisitOK == ASSUME DoctorInv, NEW node \in queue, Visit(node) PROVE DoctorInv'
<1> USE DEF Visit, world, DoctorInv
<1>1. node \in Nodes /\ node[1] \notin unlisted /\ at # "idle"
  BY DEF WalkOK, DoctorTypeOK
<1>2. /\ Targets(listed, node) \subseteq Nodes
      /\ \A n \in Targets(listed, node) : n[1] = node[1]
  <2>1. \A n \in Targets(listed, node) : \E l \in listed : Followed(l) /\ NodeOf(l) = node /\ n = TargetOf(l)
    BY <1>1, TargetsOfNode
  <2>2. \A l \in listed : Followed(l) /\ NodeOf(l) = node => TargetOf(l) \in Nodes /\ TargetOf(l)[1] = node[1]
    BY <1>1, FollowedIsNode DEF NodeOf, TargetOf
  <2> QED
    BY <2>1, <2>2
<1>3. LinesOf(listed, node) = {l \in listed : NodeOf(l) = node}
  BY <1>1, LinesOfNode
<1>4. DoctorTypeOK'
  BY <1>1, <1>2, <1>3 DEF DoctorTypeOK, OwnLines, Nodes
<1>5. queue' \cup visited' = queue \cup visited \cup Targets(listed, node)
  OBVIOUS
<1>6. WalkOK'
  <2>1. (\A n \in queue \cup visited : n[1] \notin unlisted)'
    BY <1>1, <1>2, <1>5 DEF WalkOK
  <2>2. (\A ip \in Families \ unlisted : <<ip, Hook>> \in queue \cup visited)'
    BY <1>1, <1>5 DEF WalkOK, DoctorTypeOK
  <2>3. (\A l \in listed : Followed(l) /\ NodeOf(l) \in visited => TargetOf(l) \in queue \cup visited)'
    <3> SUFFICES ASSUME NEW l \in listed, Followed(l), NodeOf(l) \in visited \/ NodeOf(l) = node
                 PROVE  TargetOf(l) \in queue' \cup visited'
      BY DEF Followed, Declared, NodeOf, TargetOf
    <3>1. NodeOf(l) = node => TargetOf(l) \in Targets(listed, node)
      BY <1>1, TargetsOfNode
    <3> QED
      BY <3>1, <1>5 DEF WalkOK
  <2>4. (\A S \in SUBSET Nodes : Closed(S) => queue \cup visited \subseteq S)'
    <3> SUFFICES ASSUME NEW S \in SUBSET Nodes, Closed(S)'
                 PROVE  queue' \cup visited' \subseteq S
      BY DEF Nodes
    <3>1. Closed(S)
      BY DEF Closed, NodeOf, TargetOf, Followed, Declared
    <3>2. node \in S /\ queue \cup visited \subseteq S
      BY <1>1, <3>1 DEF WalkOK, DoctorTypeOK
    <3>3. Targets(listed, node) \subseteq S
      BY <1>1, <3>1, <3>2, TargetsOfNode DEF Closed
    <3> QED
      BY <1>5, <3>2, <3>3
  <2>5. (found = {l \in listed : NodeOf(l) \in visited})'
    BY <1>3 DEF WalkOK, NodeOf
  <2> QED
    BY <1>1, <2>1, <2>2, <2>3, <2>4, <2>5 DEF WalkOK
<1> QED
  BY <1>4, <1>6

\* What the rest of the host does leaves an inspection alone.
LEMMA OutsideOK ==
  ASSUME DoctorInv, UNCHANGED <<rules, inspection>>,
         foreign' \subseteq Lines, sockets' \subseteq Sockets, bindv6only' \in BOOLEAN
  PROVE  DoctorInv'
<1> USE DEF inspection, DoctorInv
<1>1. DoctorTypeOK'
  BY DEF DoctorTypeOK, OwnLines, Nodes
<1>2. WalkOK'
  BY DEF WalkOK, Closed, NodeOf, TargetOf, Followed, Declared, Nodes
<1> QED
  BY <1>1, <1>2

LEMMA DoctorStays == DoctorInv /\ [DoctorNext]_doctorVars => DoctorInv'
<1> SUFFICES ASSUME DoctorInv, [DoctorNext]_doctorVars PROVE DoctorInv'
  OBVIOUS
<1>0. /\ rules \subseteq Keys /\ \A k \in rules : Validate(k)
      /\ foreign \subseteq Lines /\ sockets \subseteq Sockets /\ bindv6only \in BOOLEAN
  BY DEF DoctorInv, DoctorTypeOK
<1>1. CASE Begin
  BY <1>1, BeginOK
<1>2. CASE Leave
  BY <1>0, <1>2, EndOfInspectionOK DEF Leave, world
<1>3. ASSUME NEW ip \in Families, List(ip) PROVE DoctorInv'
  BY <1>3, ListOK
<1>4. ASSUME NEW node \in queue, Skip(node) \/ Visit(node) PROVE DoctorInv'
  BY <1>4, SkipOK, VisitOK
<1>5. ASSUME NEW K \in SUBSET Keys, Apply(K) PROVE DoctorInv'
  BY <1>0, <1>5, EndOfInspectionOK DEF Apply
<1>6. CASE OtherPrograms
  BY <1>0, <1>6, OutsideOK DEF OtherPrograms, AddLine, DropLine
<1>7. CASE Services
  BY <1>0, <1>7, OutsideOK DEF Services, Open, Close
<1>8. CASE Sysctl
  BY <1>0, <1>8, OutsideOK DEF Sysctl
<1>9. CASE UNCHANGED doctorVars
  BY <1>0, <1>9, OutsideOK DEF doctorVars, inspection
<1> QED
  BY <1>1, <1>2, <1>3, <1>4, <1>5, <1>6, <1>7, <1>8, <1>9 DEF DoctorNext

LEMMA DoctorInvariant == DoctorSpec => []DoctorInv
  BY DoctorStarts, DoctorStays, PTL DEF DoctorSpec

\* Types of everything doctor and the edits look at, and the loop invariant of the walk
\* (iptables.go:276-302).
THEOREM DoctorTypeCorrect == DoctorSpec => []DoctorTypeOK
  BY DoctorInvariant, PTL DEF DoctorInv

\* With both queues empty, what was visited is closed under jumps, and the least such set.
LEMMA VisitedIsReachable == ASSUME DoctorInv, Inspected PROVE visited = Reachable
<1>1. Closed(visited)
  BY DEF DoctorInv, WalkOK, Inspected, Closed
<1>2. visited \in SUBSET Nodes /\ \A S \in SUBSET Nodes : Closed(S) => visited \subseteq S
  BY DEF DoctorInv, DoctorTypeOK, WalkOK, Inspected
<1> QED
  BY <1>1, <1>2 DEF Reachable

\* When both walks are over they have collected the lines of the chains that jumps lead to
\* from PREROUTING, and no others (iptables.go:276-302).
THEOREM WalksAreExact ==
  DoctorSpec => [](Inspected => found = {l \in listed : NodeOf(l) \in Reachable})
<1>1. DoctorInv => (Inspected => found = {l \in listed : NodeOf(l) \in Reachable})
  BY VisitedIsReachable DEF DoctorInv, WalkOK
<1> QED
  BY <1>1, DoctorInvariant, PTL

\* The step uses up a family to list, or, with families as they were, a chain not visited
\* yet (there are finitely many), or, with these as they were too, a node of the queue.
Advances ==
  \/ unlisted' \subseteq unlisted /\ unlisted' # unlisted
  \/ UNCHANGED unlisted /\ visited \subseteq visited' /\ visited' # visited /\ visited' \subseteq Nodes
  \/ UNCHANGED <<unlisted, visited>> /\ queue' \subseteq queue /\ queue' # queue

\* A walk over any graph, cycles included, ends: there is a measure every step of an
\* inspection brings down (iptables.go:281-301).
THEOREM WalksEnd ==
  DoctorSpec => [][at = "inspecting" /\ at' = "inspecting" => Advances]_inspection
<1>1. DoctorInv /\ [DoctorNext]_doctorVars =>
        [at = "inspecting" /\ at' = "inspecting" => Advances]_inspection
  <2> SUFFICES ASSUME DoctorInv, [DoctorNext]_doctorVars, inspection' # inspection,
                      at = "inspecting", at' = "inspecting"
               PROVE  Advances
    BY DEF inspection
  <2>1. visited' \subseteq Nodes
    BY DoctorStays DEF DoctorInv, DoctorTypeOK
  <2>2. ASSUME NEW ip \in Families, List(ip) PROVE Advances
    BY <2>2 DEF List, Advances
  <2>3. ASSUME NEW node \in queue, Skip(node) PROVE Advances
    BY <2>3 DEF Skip, Advances
  <2>4. ASSUME NEW node \in queue, Visit(node) PROVE Advances
    BY <2>1, <2>4 DEF Visit, Advances
  <2>5. ~Begin /\ ~Leave /\ \A K \in SUBSET Keys : ~Apply(K)
    BY DEF Begin, Leave, Apply, EndInspection
  <2>6. ~OtherPrograms /\ ~Services /\ ~Sysctl /\ ~UNCHANGED doctorVars
    BY DEF OtherPrograms, Services, Sysctl, doctorVars, inspection
  <2> QED
    BY <2>2, <2>3, <2>4, <2>5, <2>6 DEF DoctorNext
<1> QED
  BY <1>1, DoctorInvariant, PTL DEF DoctorSpec

\* In a table without gotos a packet does not get further than the walk.
LEMMA PacketsStayBehindWalk ==
  ASSUME DoctorInv, Inspected, Plain, NEW ip \in Families, NEW proto, NEW port,
         NEW c \in ChainsMet(listed, ip, proto, port)
  PROVE  <<ip, c>> \in visited
<1> DEFINE Chains == CustomChains \cup {Hook}
           S == {d \in Chains : <<ip, d>> \in visited}
<1>1. S \in SUBSET Chains /\ Hook \in S
  BY DEF DoctorInv, WalkOK, Inspected
<1>2. ASSUME NEW l \in listed, l.chain \in S, l.target \in CustomChains, Matches(l, ip, proto, port)
      PROVE  l.target \in S
  <2>1. Followed(l) /\ l.ip = ip
    BY <1>2, ChainsAssumption DEF Followed, Declared, Plain, Matches
  <2>2. NodeOf(l) \in visited /\ TargetOf(l) = <<ip, l.target>>
    BY <1>2, <2>1 DEF NodeOf, TargetOf
  <2> QED
    BY <1>2, <2>1, <2>2 DEF DoctorInv, WalkOK, Inspected
<1>3. c \in S
  BY <1>1, <1>2 DEF ChainsMet
<1> QED
  BY <1>3

LEMMA KeyEnds ==
  ASSUME NEW k \in Keys
  PROVE  k.lo \in Nat /\ k.hi \in Nat /\ k.lo <= MaxPort
<1> DEFINE Max == MaxPort
<1>1. Max \in Nat
  BY DEF MaxPort
<1>2. k.lo \in 0..Max /\ k.hi \in 0..Max
  BY KeysAssumption DEF KeyType
<1> HIDE DEF Max
<1>3. k.lo \in Nat /\ k.hi \in Nat /\ k.lo <= Max
  BY <1>1, <1>2
<1> QED
  BY <1>3 DEF Max

\* A line that takes packets of a key, found, fails the inspection or stands for a range
\* that meets the key.
LEMMA TakersCount ==
  ASSUME NEW l, l.ports \in {"all", "range", "list", "not"}, l.lo \in Nat, l.hi \in Nat,
         l.via = "-j", l.target = Rewrite, l.proto \notin {"any"} \cup Negations,
         NEW k \in Keys, Validate(k), NEW port \in Ports(k), Matches(l, k.ip, k.proto, port)
  PROVE  /\ ~IsAnchor(l)
         /\ Unreadable(l) \/ (Counts(l) /\ Overlaps(k, RangeOf(l)))
<1>0. /\ k.lo \in Nat /\ k.hi \in Nat /\ k.lo <= MaxPort /\ 1 <= k.hi
      /\ port \in Nat /\ k.lo <= port /\ port <= k.hi
  <2>1. k.lo \in Nat /\ k.hi \in Nat /\ k.lo <= MaxPort
    BY KeyEnds
  <2>2. port \in k.lo .. k.hi /\ k.hi # 0
    BY DEF Ports, Validate
  <2> QED
    BY <2>1, <2>2
<1>1. l.ip = k.ip /\ Named(l) = k.proto /\ Named(l) \in Protocols
  BY DEF Matches, Named, Negations, Validate, Protocols
<1>2. ~IsAnchor(l) /\ l.target \notin Declared
  BY ChainsAssumption DEF IsAnchor, Declared, Rewrite
<1>3. CASE l.ports \in {"list", "not"}
  BY <1>2, <1>3 DEF Unreadable
<1>4. CASE l.ports = "range"
  <2>1. port \in l.lo .. l.hi
    BY <1>4 DEF Matches
  <2>2. Overlaps(k, RangeOf(l))
    BY <1>0, <1>1, <1>4, <2>1 DEF RangeOf, Overlaps, SameTraffic
  <2> QED
    BY <1>2, <1>4, <2>2 DEF Counts
<1>5. CASE l.ports = "all"
  <2>1. Overlaps(k, RangeOf(l))
    BY <1>0, <1>1, <1>5 DEF RangeOf, Overlaps, SameTraffic
  <2> QED
    BY <1>1, <1>2, <1>5, <2>1 DEF Counts
<1> QED
  BY <1>3, <1>4, <1>5

\* What is in a listing is a line of others or of PMM.
LEMMA ListedIsSound ==
  ASSUME DoctorInv, NEW l \in listed
  PROVE  l.ports \in {"all", "range", "list", "not"} /\ l.lo \in Nat /\ l.hi \in Nat
<1>1. CASE l \in Lines
  BY <1>1, LinesAssumption
<1>2. CASE l \in OwnLines(rules)
  <2>1. \A k \in rules : k.lo \in Nat /\ k.hi \in Nat
    BY KeyEnds DEF DoctorInv, DoctorTypeOK
  <2> QED
    BY <1>2, <2>1 DEF OwnLines, AnchorLine, Line, MaxPort
<1> QED
  BY <1>1, <1>2 DEF DoctorInv, DoctorTypeOK

\* If another program may take a packet of a key, the inspection fails or objects to it.
LEMMA TakersAreSeen ==
  ASSUME DoctorInv, Inspected, Plain, NEW k \in Keys, Validate(k), NEW port \in Ports(k),
         Taken(listed, k.ip, k.proto, port)
  PROVE  \/ Inspection(found).failed
         \/ \E range \in Inspection(found).ranges : Overlaps(k, range)
<1>1. PICK l \in listed : /\ l.target = Rewrite
                          /\ l.chain \in ChainsMet(listed, k.ip, k.proto, port)
                          /\ Matches(l, k.ip, k.proto, port)
  BY DEF Taken
<1>2. k.ip \in Families /\ l.ip = k.ip
  BY <1>1 DEF Validate, Matches
<1>3. NodeOf(l) \in visited
  BY <1>1, <1>2, PacketsStayBehindWalk DEF NodeOf
<1>4. l \in found
  BY <1>3 DEF DoctorInv, WalkOK
<1>5. /\ ~IsAnchor(l)
      /\ Unreadable(l) \/ (Counts(l) /\ Overlaps(k, RangeOf(l)))
  BY <1>1, ListedIsSound, TakersCount DEF Plain
<1> QED
  BY <1>4, <1>5 DEF Inspection

\* A rule is announced for every one of its ports that another program may take
\* (iptables.go:226-268, diagnostics.go:70-83).
THEOREM EveryPortIsCovered ==
  DoctorSpec => [](Inspected /\ Plain =>
                     \A k \in rules : \A port \in Ports(k) :
                       Taken(listed, k.ip, k.proto, port) => Announced(k))
<1>1. DoctorInv => (Inspected /\ Plain =>
                     \A k \in rules : \A port \in Ports(k) :
                       Taken(listed, k.ip, k.proto, port) => Announced(k))
  BY TakersAreSeen DEF DoctorInv, DoctorTypeOK, Announced, Unchecked, Conflicts, Conflicting
<1> QED
  BY <1>1, DoctorInvariant, PTL

\* Every rule whose packets another program may take is reported, or the inspection fails
\* (iptables.go:226-268, diagnostics.go:70-83).
THEOREM ConflictsAreFound == DoctorSpec => []ConflictsAreReported
<1>1. DoctorInv => ConflictsAreReported
  BY TakersAreSeen DEF DoctorInv, DoctorTypeOK, ConflictsAreReported, Contested, Edges,
     Announced, Unchecked, Conflicts, Conflicting
<1> QED
  BY <1>1, DoctorInvariant, PTL

\* A transaction that changes the rules leaves none beside a redirect it was shown that
\* takes some of its packets (transaction.go:99-107, 228-244).
THEOREM CommitsAreClear == DoctorSpec => CommitsAvoidOthers
<1>1. ASSUME DoctorInv, NEW K \in SUBSET Keys, Apply(K), Plain
      PROVE  \A k \in K : ~Contested(k)
  <2>1. \A k \in K : Validate(k) /\ k \in Keys
    BY <1>1 DEF Apply
  <2>2. /\ ~Inspection(found).failed
        /\ \A k \in K : \A range \in Inspection(found).ranges : ~Overlaps(k, range)
    BY <1>1 DEF Apply, Allowed, NoConflict, Conflicting
  <2>3. Inspected
    BY <1>1 DEF Apply
  <2> QED
    BY <1>1, <2>1, <2>2, <2>3, TakersAreSeen DEF Contested, Edges
<1>2. DoctorInv /\ [DoctorNext]_doctorVars =>
        [rules' # rules /\ Plain => \A k \in rules' : ~Contested(k)]_doctorVars
  <2> SUFFICES ASSUME DoctorInv, DoctorNext, rules' # rules, Plain
               PROVE  \A k \in rules' : ~Contested(k)
    BY DEF doctorVars
  <2>1. PICK K \in SUBSET Keys : Apply(K)
    BY DEF DoctorNext, Begin, Leave, List, Skip, Visit, OtherPrograms, Services, Sysctl, world
  <2> QED
    BY <1>1, <2>1 DEF Apply
<1> QED
  BY <1>2, DoctorInvariant, PTL DEF DoctorSpec, CommitsAvoidOthers

\* What ties Foreign, the constant of Transaction, to the inspection: where the ranges an
\* inspection came to are those of Foreign, checkExternalConflicts objects to a rule set
\* exactly when Snapshot does (transaction.go:103-107, 228-244).
LEMMA ForeignIsInspected ==
  ASSUME NEW s, ~Inspection(found).failed,
         \A k : (\E range \in Inspection(found).ranges : Overlaps(k, range))
                <=> \E other \in Foreign : Overlaps(k, other)
  PROVE  NoConflict({r.key : r \in s.on}, Inspection(found)) <=> ~ConflictsWithForeign(s)
  BY DEF NoConflict, Conflicting, ConflictsWithForeign

\* PMM's own anchor and chains raise no conflict: they are all that was listed, and none of
\* them counts.
LEMMA OwnLinesDoNotCount ==
  ASSUME DoctorInv, listed \subseteq OwnLines(rules)
  PROVE  \A l \in found : IsAnchor(l)
<1> SUFFICES ASSUME NEW l \in found PROVE IsAnchor(l)
  OBVIOUS
<1>1. l \in OwnLines(rules) /\ NodeOf(l) \in Nodes
  BY DEF DoctorInv, DoctorTypeOK, WalkOK
<1>2. l.chain # Entry
  BY <1>1, ChainsAssumption DEF NodeOf, Nodes, Hook
<1> QED
  BY <1>1, <1>2 DEF OwnLines, AnchorLine, Line, IsAnchor

\* PMM's own chains are never taken for somebody else's: with nobody else in the listing
\* nothing is reported and the rules in force are allowed (iptables.go:290, 549-555).
THEOREM OwnChainsAreKnown == DoctorSpec => []NoSelfConflict
<1>1. ASSUME DoctorInv, Inspected, listed \subseteq OwnLines(rules)
      PROVE  ~Inspection(found).failed /\ Inspection(found).ranges = {}
  BY <1>1, OwnLinesDoNotCount DEF Inspection
<1>2. DoctorInv => NoSelfConflict
  BY <1>1 DEF NoSelfConflict, Unchecked, Conflicts, Allowed, NoConflict, Conflicting
<1> QED
  BY <1>2, DoctorInvariant, PTL

\* A target reported unheard is served by nobody, as long as IPv6 sockets keep to the
\* system's IPV6_V6ONLY (listener.go:55-95): whatever answers stands in the table the
\* inspection reads, or in the other one as a wildcard.
THEOREM UnheardIsUnserved == DoctorSpec => []WarningsAreTrue
<1>1. ASSUME NEW k \in rules, NEW s \in sockets, KeepsDefault(s, bindv6only),
             Serves(s, k.ip, k.proto, k.to)
      PROVE  Up(k, sockets, bindv6only)
  <2>1. ContainsPort({s}, k.proto, k.to, FALSE)
    BY <1>1 DEF Serves, ContainsPort
  <2>2. CASE s.ip = k.ip
    BY <1>1, <2>1, <2>2 DEF Up, SocketTable, ContainsPort, Serves
  <2>3. CASE s.ip # k.ip
    <3>1. k.ip = 4 /\ s.ip = 6 /\ s.addr = "any" /\ s.dual
      BY <1>1, <2>3 DEF Serves, TakesFamily
    <3>2. ~bindv6only
      BY <1>1, <3>1 DEF KeepsDefault
    <3> QED
      BY <1>1, <2>1, <3>1, <3>2
      DEF Up, IPv6WildcardAcceptsIPv4, SocketTable, ContainsPort, Serves
  <2> QED
    BY <2>2, <2>3
<1>2. WarningsAreTrue
  BY <1>1 DEF WarningsAreTrue, Unheard, Served
<1> QED
  BY <1>2, PTL
================================================================================
