------------------------------ MODULE Transaction ------------------------------
(***************************************************************************)
(* Commands of the pmm binary racing on one machine: internal/transaction  *)
(* with the callers in internal/app and cmd/pmm that load a rule set and   *)
(* hand it to the manager, the advisory lock, the rule database and the    *)
(* firewall, the latter seen as whole calls per IP family.                 *)
(*                                                                         *)
(* Each element of Procs is one command line invocation.  It reads what it *)
(* needs without the lock, computes the rule set it wants, and then runs   *)
(* transaction.Manager.apply.  pc[p] names the step it takes next:         *)
(*                                                                         *)
(*   start -> waiting -> snapshot -> check -> prepare -> (backup) ->       *)
(*   applying -> apply4 -> apply6 -> confirm -> applied -> verifying ->    *)
(*   verify -> (save) -> finish -> done                                    *)
(*   and, after a failure past "applying",                                 *)
(*   rollback -> restore4 -> restore6 -> recheck -> rolledback/failed.     *)
(***************************************************************************)
EXTENDS FamilyOutcomes, Sequences

CONSTANTS
  Procs,        \* command invocations
  Ops,          \* what an invocation may be asked to do
  Foreign,      \* canonical keys of redirects other software owns in PREROUTING
  InitialSets,  \* the committed rule sets the machine may start with
  AutoBackup,   \* the configuration's auto_backup
  MaxBackups,   \* its max_backups: how many backup files a prune keeps
  Budget        \* how many disturbances of each kind are explored

Free == "free"

\* "fail", a command or a file operation fails; "cancel", an interrupt arrives; "crash",
\* a process is killed; "reboot", the machine restarts; "back", a backup gets a name older
\* than one that is there, as the clock was set back; "tidy", a backup is removed by
\* somebody who does not hold the lock.
Disturbances == {"fail", "cancel", "crash", "reboot", "back", "tidy"}

\* The requests of the command line that change rules.
Requests ==
  [kind : {"add"}, key : Keys] \cup
  [kind : {"delete"}, id : Ids] \cup
  [kind : {"toggle"}, id : Ids, enabled : BOOLEAN] \cup
  [kind : {"edit"}, id : Ids, key : Keys] \cup
  [kind : {"replace", "merge"}, keys : SUBSET Keys] \cup
  [kind : {"clear", "restore", "reconcile"}]

ASSUME ProcsAssumption == Free \notin Procs
ASSUME OpsAssumption == Ops \subseteq Requests
ASSUME InitialAssumption == \A s \in InitialSets : s \in RuleSet /\ Normal(s)
ASSUME ForeignAssumption == Foreign \subseteq KeyType
ASSUME SwitchAssumption == AutoBackup \in BOOLEAN
ASSUME MaxBackupsAssumption == MaxBackups \in Nat \ {0}
ASSUME BudgetAssumption == Budget \in [Disturbances -> Nat]

VARIABLES
  pc,         \* the next step of every invocation
  op,         \* what it was asked to do
  desired,    \* the rule set it wants to establish
  before,     \* the firewall snapshot it took under the lock
  seen,       \* the database it read under the lock
  cancelled,  \* its context is done (an interrupt arrived)
  journal,    \* the phase last written to its journal file
  result,     \* what it reported when it ended
  lock,       \* the owner of the advisory file lock
  db,         \* rules.json: rule set and generation
  kernel,     \* what snapshotFamily finds in each family's NAT table
  backups,    \* the rule sets of the backup directory, the newest file name first
  budget      \* disturbances that may still happen

work == <<op, desired, before, seen>>
vars == <<pc, op, desired, before, seen, cancelled, journal, result,
          lock, db, kernel, backups, budget>>

NoOp == [kind |-> "none"]
NoKernel == [f \in Families |-> Absent]
NoDatabase == [set |-> EmptySet, gen |-> 0]

KernelRules(k) == UNION {k[f].rules : f \in Families}
KernelReadable(k) == \A f \in Families : Readable(k[f])
FamilyRules(R, f) == {r \in R : r.key.ip = f}

\* transaction.Apply commits the database and makes the routine backup;
\* transaction.Reconcile does neither.
Commits(o) == o.kind # "reconcile"

Installed(s) == [f \in Families |-> Managed(FamilyRules(s.on, f))]

Init ==
  /\ db \in [set : InitialSets, gen : {1}]
  /\ kernel \in {Installed(db.set)} \cup Only(db.set = EmptySet, NoKernel)
  /\ pc = [p \in Procs |-> "start"]
  /\ op = [p \in Procs |-> NoOp]
  /\ desired = [p \in Procs |-> EmptySet]
  /\ before = [p \in Procs |-> NoKernel]
  /\ seen = [p \in Procs |-> NoDatabase]
  /\ cancelled = [p \in Procs |-> FALSE]
  /\ journal = [p \in Procs |-> "none"]
  /\ result = [p \in Procs |-> "none"]
  /\ lock = Free
  /\ backups = <<>>
  /\ budget = Budget

--------------------------------------------------------------------------------
(* Pieces of steps *)

Spend(d) == budget[d] > 0 /\ budget' = [budget EXCEPT ![d] = @ - 1]

SpendAll(D) ==
  /\ \A d \in D : budget[d] > 0
  /\ budget' = [d \in Disturbances |-> IF d \in D THEN budget[d] - 1 ELSE budget[d]]

Active(p) == pc[p] \notin {"start", "done"}

At(p, step) == pc[p] = step

Move(p, step) == pc' = [pc EXCEPT ![p] = step] /\ UNCHANGED <<result, lock>>

Go(p, step) == Move(p, step) /\ UNCHANGED work

\* Mutants: whoever ends unlocks the file; nobody does.
LockUnlinked(p) == Free
LockLeaked(p) == lock

LockAfter(p) == IF lock = p THEN Free ELSE lock

\* The command ends: the deferred Release gives the lock back, locals are gone.
End(p, res) ==
  /\ pc' = [pc EXCEPT ![p] = "done"]
  /\ result' = [result EXCEPT ![p] = res]
  /\ lock' = LockAfter(p)
  /\ op' = [op EXCEPT ![p] = NoOp]
  /\ desired' = [desired EXCEPT ![p] = EmptySet]
  /\ before' = [before EXCEPT ![p] = NoKernel]
  /\ seen' = [seen EXCEPT ![p] = NoDatabase]

\* A file write fails (disk full, permission): nothing is renamed into place.
WriteFails == Spend("fail")

\* A firewall command reports failure: it failed, or the context is done and the
\* runner does not start it.
CommandFails(p) == IF cancelled[p] THEN UNCHANGED budget ELSE Spend("fail")

\* writeJournal, then ok; or its error and then err.
Journal(p, phase, ok, err) ==
  \/ /\ journal' = [journal EXCEPT ![p] = phase]
     /\ UNCHANGED budget
     /\ ok
  \/ WriteFails /\ UNCHANGED journal /\ err

\* writeJournal with its error ignored.
TryJournal(p, phase) == Journal(p, phase, TRUE, TRUE)

BackedUpSets == {backups[i] : i \in DOMAIN backups}

\* restoreCommittedState and App.Restore: the database, or a backup file.
ReconcileWants == {db.set}
RestoreWants == BackedUpSets

\* The rule set an invocation asks for, from what it reads without the lock.
Wanted(o) ==
  CASE o.kind = "reconcile" -> ReconcileWants
    [] o.kind = "restore"   -> RestoreWants
    [] OTHER                -> Edits(o, db.set)

--------------------------------------------------------------------------------
(* Before the lock *)

\* Mutant: no normalization of the desired rule set.
AcceptsAnything(s) == TRUE

\* desired.Normalize returns no error.
Accepts(s) == Normal(s)

\* App.Add, Delete, Clear, Toggle, Edit, Import and Restore, restoreCommittedState:
\* Load (or decode the backup), compute, and enter apply, which normalizes first.
Start(p) ==
  /\ At(p, "start")
  /\ \E o \in Ops : \E s \in Wanted(o) :
       /\ Accepts(s)
       /\ op' = [op EXCEPT ![p] = o]
       /\ desired' = [desired EXCEPT ![p] = s]
  /\ Move(p, "waiting")
  /\ UNCHANGED <<before, seen, cancelled, journal, db, kernel, backups, budget>>

\* The request is refused: unknown rule, duplicate, or a set Normalize rejects.
Refuse(p) ==
  /\ At(p, "start")
  /\ \E o \in Ops : \/ Wanted(o) = {}
                   \/ \E s \in Wanted(o) : ~Accepts(s)
  /\ End(p, "error")
  /\ UNCHANGED <<cancelled, journal, db, kernel, backups, budget>>

\* Mutant: the lock is taken without waiting for its owner.
AcquireShared(p) ==
  /\ At(p, "waiting")
  /\ pc' = [pc EXCEPT ![p] = "snapshot"]
  /\ lock' = p
  /\ UNCHANGED <<work, cancelled, journal, result, db, kernel, backups, budget>>

\* lock.Acquire: tryAcquire, then the deadline, then the context.
Acquire(p) ==
  /\ At(p, "waiting") /\ lock = Free
  /\ pc' = [pc EXCEPT ![p] = "snapshot"]
  /\ lock' = p
  /\ UNCHANGED <<work, cancelled, journal, result, db, kernel, backups, budget>>

\* The lock is busy and the timeout has passed or the context is done.
GiveUp(p) ==
  /\ At(p, "waiting") /\ lock # Free
  /\ End(p, "error")
  /\ UNCHANGED <<cancelled, journal, db, kernel, backups, budget>>

--------------------------------------------------------------------------------
(* Under the lock, before the first change *)

ConflictsWithForeign(s) == \E r \in s.on, k \in Foreign : Overlaps(r.key, k)

\* Backend.Snapshot and checkExternalConflicts.
Snapshot(p) ==
  /\ At(p, "snapshot")
  /\ \/ /\ ~cancelled[p] /\ KernelReadable(kernel) /\ ~ConflictsWithForeign(desired[p])
        /\ before' = [before EXCEPT ![p] = kernel]
        /\ Move(p, "check")
        /\ UNCHANGED <<op, desired, seen, budget>>
     \/ /\ ~cancelled[p] /\ (~KernelReadable(kernel) \/ ConflictsWithForeign(desired[p]))
        /\ End(p, "error")
        /\ UNCHANGED budget
     \/ CommandFails(p) /\ End(p, "error")
  /\ UNCHANGED <<cancelled, journal, db, kernel, backups>>

\* Mutants: no drift check; a drift check for reconcile as well.
NeverDrifted(p) == FALSE
DriftedForAll(p) == ~SameEnabledRules(db.set, KernelRules(before[p]))

\* Ordinary commands fail closed when database and firewall disagree.
Drifted(p) == Commits(op[p]) /\ ~SameEnabledRules(db.set, KernelRules(before[p]))

\* Store.Load, which may fail, and the drift check; desired.Generation =
\* current.Generation.
Check(p) ==
  /\ At(p, "check")
  /\ \/ Drifted(p) /\ End(p, "error") /\ UNCHANGED budget
     \/ /\ ~Drifted(p)
        /\ Move(p, "prepare")
        /\ seen' = [seen EXCEPT ![p] = db]
        /\ UNCHANGED <<op, desired, before, budget>>
     \/ Spend("fail") /\ End(p, "error")
  /\ UNCHANGED <<cancelled, journal, db, kernel, backups>>

Prepare(p) ==
  /\ At(p, "prepare")
  /\ Journal(p, "PREPARED",
       Go(p, IF AutoBackup /\ Commits(op[p]) THEN "backup" ELSE "applying"),
       End(p, "error"))
  /\ UNCHANGED <<cancelled, db, kernel, backups>>

\* Mutant: the new rule set is backed up instead of the one it replaces.
BackupOfDesired(p) == desired[p]

\* The model that is backed up, disabled rules included.
BackupOf(p) == seen[p].set

\* The backup directory once the file is written; its name sorts before every other's
\* unless the clock was set back.
Written(p, place) ==
  SubSeq(backups, 1, place - 1) \o <<BackupOf(p)>> \o SubSeq(backups, place, Len(backups))

\* Mutant: the names are sorted oldest first.
KeptOldest(files) ==
  IF Len(files) <= MaxBackups THEN files
  ELSE SubSeq(files, Len(files) - MaxBackups + 1, Len(files))

\* PruneBackups removes what exceeds the limit, the newest of it first; a failure leaves
\* the rest of it.
Kept(files) ==
  IF Len(files) <= MaxBackups THEN files ELSE SubSeq(files, 1, MaxBackups)
HalfPruned(files) ==
  {files} \cup {SubSeq(files, 1, MaxBackups) \o SubSeq(files, i, Len(files)) :
                  i \in MaxBackups + 1 .. Len(files)}

\* Store.Backup of the database that was read, and its pruning.  The failure of either
\* ends the command.
Backup(p) ==
  /\ At(p, "backup")
  /\ \E place \in 1 .. Len(backups) + 1 :
       LET files == Written(p, place)
           clock == Only(place # 1, "back")
       IN \/ /\ backups' = Kept(files)
             /\ SpendAll(clock)
             /\ Go(p, "applying")
          \/ /\ backups' \in {backups} \cup HalfPruned(files)
             /\ SpendAll(clock \cup {"fail"})
             /\ End(p, "error")
  /\ UNCHANGED <<cancelled, journal, db, kernel>>

Applying(p) ==
  /\ At(p, "applying")
  /\ Journal(p, "APPLYING", Go(p, "apply4"), End(p, "error"))
  /\ UNCHANGED <<cancelled, db, kernel, backups>>

--------------------------------------------------------------------------------
(* Changing the firewall, one family at a time *)

\* One applyFamily or deleteFamily call bringing family f to target.
FamilyCall(p, f, target, next, onError) ==
  LET k == kernel[f]
      Leave(ks) == \E x \in ks : kernel' = [kernel EXCEPT ![f] = x]
  IN \/ /\ ~cancelled[p] /\ Readable(k)
        /\ Leave({target})
        /\ Go(p, next)
        /\ UNCHANGED <<cancelled, budget>>
     \/ /\ cancelled[p] \/ ~Readable(k)
        /\ Go(p, onError)
        /\ UNCHANGED <<cancelled, kernel, budget>>
     \/ /\ ~cancelled[p] /\ Readable(k)
        /\ Spend("fail")
        /\ Leave(AfterFailure(k, target))
        /\ Go(p, onError)
        /\ UNCHANGED cancelled
     \/ /\ ~cancelled[p] /\ Readable(k)
        /\ Spend("cancel")
        /\ cancelled' = [cancelled EXCEPT ![p] = TRUE]
        /\ Leave(AfterKill(k, target))
        /\ Go(p, onError)

ApplyTarget(p, f) == Managed(FamilyRules(desired[p].on, f))

ApplyFamily(p, f, step, next) ==
  /\ At(p, step)
  /\ FamilyCall(p, f, ApplyTarget(p, f), next, "rollback")
  /\ UNCHANGED <<journal, db, backups>>

\* Backend.Verify: both families are readable and hold exactly the desired rules.
Verify(p, step, next) ==
  LET matches == KernelReadable(kernel) /\ KernelRules(kernel) = desired[p].on
  IN /\ At(p, step)
     /\ \/ ~cancelled[p] /\ matches /\ Go(p, next) /\ UNCHANGED budget
        \/ ~cancelled[p] /\ ~matches /\ Go(p, "rollback") /\ UNCHANGED budget
        \/ CommandFails(p) /\ Go(p, "rollback")
     /\ UNCHANGED <<cancelled, journal, db, kernel, backups>>

Applied(p) ==
  /\ At(p, "applied")
  /\ Journal(p, "APPLIED", Go(p, "verifying"), Go(p, "rollback"))
  /\ UNCHANGED <<cancelled, db, kernel, backups>>

Verifying(p) ==
  /\ At(p, "verifying")
  /\ Journal(p, "VERIFYING", Go(p, "verify"), Go(p, "rollback"))
  /\ UNCHANGED <<cancelled, db, kernel, backups>>

\* Mutants: the generation of the current database is not carried over; a failed
\* save is taken for a success.
GenerationRestarted(p) == 1
SaveErrorDropped(p) == Go(p, "finish")

NextGeneration(p) == seen[p].gen + 1
SaveError(p) == Go(p, "rollback")

\* Store.Save: the rename is the commit point.
Save(p) ==
  /\ At(p, "save")
  /\ \/ /\ db' = [set |-> desired[p], gen |-> NextGeneration(p)]
        /\ Go(p, "finish")
        /\ UNCHANGED budget
     \/ WriteFails /\ SaveError(p) /\ UNCHANGED db
  /\ UNCHANGED <<cancelled, journal, kernel, backups>>

\* The last journal write; when it fails the change stays and an error says so.
Finish(p) ==
  /\ At(p, "finish")
  /\ Journal(p, "COMMITTED", End(p, "COMMITTED"), End(p, "UNLOGGED"))
  /\ UNCHANGED <<cancelled, db, kernel, backups>>

--------------------------------------------------------------------------------
(* Rollback *)

\* Mutant: the IPv4 snapshot is not restored.
RollbackSkipsIPv4(p) ==
  /\ At(p, "rollback")
  /\ TryJournal(p, "ROLLING_BACK")
  /\ Go(p, "restore6")
  /\ UNCHANGED <<cancelled, db, kernel, backups>>

Rollback(p) ==
  /\ At(p, "rollback")
  /\ TryJournal(p, "ROLLING_BACK")
  /\ Go(p, "restore4")
  /\ UNCHANGED <<cancelled, db, kernel, backups>>

\* Backend.Restore: applyFamily to the rules of a managed snapshot, else deleteFamily.
RestoreFamily(p, f, step, next) ==
  /\ At(p, step)
  /\ FamilyCall(p, f, before[p][f], next, "failed")
  /\ UNCHANGED <<journal, db, backups>>

\* verifySnapshot
Recheck(p) ==
  LET matches == /\ KernelReadable(kernel)
                 /\ \A f \in Families : kernel[f].mode = before[p][f].mode
                 /\ KernelRules(kernel) = KernelRules(before[p])
  IN /\ At(p, "recheck")
     /\ \/ ~cancelled[p] /\ matches /\ Go(p, "rolledback") /\ UNCHANGED budget
        \/ ~cancelled[p] /\ ~matches /\ Go(p, "failed") /\ UNCHANGED budget
        \/ CommandFails(p) /\ Go(p, "failed")
     /\ UNCHANGED <<cancelled, journal, db, kernel, backups>>

RolledBack(p) ==
  /\ At(p, "rolledback")
  /\ TryJournal(p, "ROLLED_BACK")
  /\ End(p, "ROLLED_BACK")
  /\ UNCHANGED <<cancelled, db, kernel, backups>>

RollbackFailed(p) ==
  /\ At(p, "failed")
  /\ TryJournal(p, "ROLLBACK_FAILED")
  /\ End(p, "ROLLBACK_FAILED")
  /\ UNCHANGED <<cancelled, db, kernel, backups>>

--------------------------------------------------------------------------------
(* What happens to a command from outside *)

\* An interrupt cancels the context between two commands.
Cancel(p) ==
  /\ Active(p) /\ ~cancelled[p]
  /\ Spend("cancel")
  /\ cancelled' = [cancelled EXCEPT ![p] = TRUE]
  /\ UNCHANGED <<pc, work, journal, result, lock, db, kernel, backups>>

\* The family call in progress and its target, if p is inside one.
Calls(p) ==
  CASE pc[p] = "apply4"   -> {<<4, ApplyTarget(p, 4)>>}
    [] pc[p] = "apply6"   -> {<<6, ApplyTarget(p, 6)>>}
    [] pc[p] = "restore4" -> {<<4, before[p][4]>>}
    [] pc[p] = "restore6" -> {<<6, before[p][6]>>}
    [] OTHER              -> {}

\* The process is killed; flock disappears with its file descriptor.
Crash(p) ==
  /\ Active(p)
  /\ Spend("crash")
  /\ End(p, "killed")
  /\ \/ UNCHANGED kernel
     \/ \E c \in Calls(p) :
          /\ Readable(kernel[c[1]])
          /\ \E x \in AfterCrash(kernel[c[1]], c[2]) : kernel' = [kernel EXCEPT ![c[1]] = x]
  /\ UNCHANGED <<cancelled, journal, db, backups>>

\* The machine restarts: NAT tables are empty, files are what they were.
Reboot ==
  /\ Spend("reboot")
  /\ kernel' = NoKernel
  /\ lock' = Free
  /\ pc' = [p \in Procs |-> IF Active(p) THEN "done" ELSE pc[p]]
  /\ result' = [p \in Procs |-> IF Active(p) THEN "killed" ELSE result[p]]
  /\ op' = [p \in Procs |-> NoOp]
  /\ desired' = [p \in Procs |-> EmptySet]
  /\ before' = [p \in Procs |-> NoKernel]
  /\ seen' = [p \in Procs |-> NoDatabase]
  /\ UNCHANGED <<cancelled, journal, db, backups>>

\* `pmm backup delete` and `backup purge`, and the pruning of `backup create`, which do not
\* take the lock: a backup goes.
Tidy ==
  /\ Spend("tidy")
  /\ \E i \in DOMAIN backups :
       backups' = SubSeq(backups, 1, i - 1) \o SubSeq(backups, i + 1, Len(backups))
  /\ UNCHANGED <<pc, work, cancelled, journal, result, lock, db, kernel>>

--------------------------------------------------------------------------------

\* Everything an invocation does of its own accord once it has started.
Step(p) ==
  \/ Acquire(p) \/ GiveUp(p)
  \/ Snapshot(p) \/ Check(p) \/ Prepare(p) \/ Backup(p) \/ Applying(p)
  \/ ApplyFamily(p, 4, "apply4", "apply6")
  \/ ApplyFamily(p, 6, "apply6", "confirm")
  \/ Verify(p, "confirm", "applied")
  \/ Applied(p) \/ Verifying(p)
  \/ Verify(p, "verify", IF Commits(op[p]) THEN "save" ELSE "finish")
  \/ Save(p) \/ Finish(p)
  \/ Rollback(p)
  \/ RestoreFamily(p, 4, "restore4", "restore6")
  \/ RestoreFamily(p, 6, "restore6", "recheck")
  \/ Recheck(p) \/ RolledBack(p) \/ RollbackFailed(p)

Next ==
  \/ \E p \in Procs : Start(p) \/ Refuse(p) \/ Step(p) \/ Cancel(p) \/ Crash(p)
  \/ Reboot \/ Tidy

Spec == Init /\ [][Next]_vars

\* The scheduler runs every started process, each command returns (iptables -w has a
\* bound) and a wait for the lock has a deadline.
FairSpec == Spec /\ \A p \in Procs : WF_vars(Step(p))

--------------------------------------------------------------------------------
(* Type invariant *)

Steps == {"start", "waiting", "snapshot", "check", "prepare", "backup", "applying",
          "apply4", "apply6", "confirm", "applied", "verifying", "verify", "save",
          "finish", "rollback", "restore4", "restore6", "recheck", "rolledback",
          "failed", "done"}
Phases == {"none", "PREPARED", "APPLYING", "APPLIED", "VERIFYING", "COMMITTED",
           "ROLLING_BACK", "ROLLED_BACK", "ROLLBACK_FAILED"}
Results == {"none", "error", "killed", "COMMITTED", "UNLOGGED", "ROLLED_BACK",
            "ROLLBACK_FAILED"}

Kernel == [Families -> FamilyState]
Database == [set : RuleSet, gen : Nat]

ControlOK ==
  /\ pc \in [Procs -> Steps]
  /\ result \in [Procs -> Results]
  /\ lock \in Procs \cup {Free}

WorkOK ==
  /\ op \in [Procs -> Ops \cup {NoOp}]
  /\ desired \in [Procs -> RuleSet] /\ \A p \in Procs : Normal(desired[p])
  /\ before \in [Procs -> Kernel]
  /\ seen \in [Procs -> Database]
  /\ cancelled \in [Procs -> BOOLEAN]

SharedOK ==
  /\ journal \in [Procs -> Phases]
  /\ db \in Database /\ Normal(db.set)
  /\ kernel \in Kernel
  /\ backups \in Seq(RuleSet)
  /\ budget \in [Disturbances -> Nat]

\* Every variable keeps its type; the database and every rule set a command asks for
\* satisfy the model (Normalize), whatever was edited, imported or restored.
TypeOK == ControlOK /\ WorkOK /\ SharedOK

--------------------------------------------------------------------------------
(* Safety *)

\* Past the lock and not yet returned.
Critical == Steps \ {"start", "waiting", "done"}

\* The firewall enforces exactly the enabled rules of the database.
Synced == KernelReadable(kernel) /\ SameEnabledRules(db.set, KernelRules(kernel))

\* A command past lock.Acquire owns the lock and nobody else does, whatever died in
\* the meantime (transaction.go:91-97): one command is between snapshot and return.
LockProtects == \A p \in Procs : pc[p] \in Critical <=> lock = p

\* The kernel may differ from what the command found, the database does not yet.
Midway == {"apply4", "apply6", "confirm", "applied", "verifying", "verify", "save",
           "rollback", "restore4", "restore6", "recheck", "rolledback", "failed"}
Checked == {"prepare", "backup", "applying"} \cup Midway

\* What p read under the lock is still true: before it saves, the database is the one
\* it loaded and, for an ordinary command, agreed with its snapshot; when it is about
\* to save, the kernel holds what Verify saw; when it is about to report a rollback,
\* the kernel holds the rules of the snapshot.
Current(p) ==
  /\ pc[p] \in Checked => seen[p] = db
  /\ pc[p] \in Checked /\ Commits(op[p]) =>
       SameEnabledRules(db.set, KernelRules(before[p]))
  /\ pc[p] = "save" => KernelReadable(kernel) /\ KernelRules(kernel) = desired[p].on
  /\ pc[p] = "rolledback" =>
       KernelReadable(kernel) /\ KernelRules(kernel) = KernelRules(before[p])

\* Nothing a command read under the lock (Store.Load, Snapshot, Verify, verifySnapshot)
\* goes stale before the command acts on it.
WorkIsCurrent == \A p \in Procs : Current(p)

\* The database changes only to a rule set the firewall enforces at that moment:
\* Verify comes before Save and nobody touches the kernel in between.
CommitsWhatIsEnforced == [][db' # db => Synced']_vars

\* Every commit counts one generation from the very database it replaces: none is
\* overwritten by a command that read an older one under the lock.
GenerationCounts == [][db' # db => db'.gen = db.gen + 1]_vars

\* An ordinary command that reports ROLLED_BACK leaves database and firewall in
\* agreement, however many failures, interrupts and crashes came before it.
RolledBackIsSynced ==
  [][\A p \in Procs :
       result'[p] = "ROLLED_BACK" /\ result[p] # "ROLLED_BACK" /\ Commits(op[p])
         => Synced']_vars

\* A single failing command or file write leaves no damage: without interrupts,
\* crashes and restarts, whenever no command is at work the firewall enforces the
\* database, and no command has reported a failed rollback.
OneFailureIsHarmless ==
  /\ \A p \in Procs : result[p] # "ROLLBACK_FAILED"
  /\ lock = Free => Synced

\* Under auto_backup, whenever a command replaces the database, the rule set it
\* replaces is in the backup directory (README.md:12), the pruning of its own backup and
\* of the commands before it notwithstanding, as long as the clock was not set back and
\* nobody removed backups beside the lock.
OverwrittenIsBackedUp ==
  [][db' # db /\ (\A d \in {"back", "tidy"} : budget[d] = Budget[d])
       => db.set \in BackedUpSets]_vars

\* The same whatever the clock does and whoever removes backups.
AlwaysBackedUp == [][db' # db => db.set \in BackedUpSets]_vars

\* No redirect has two owners, in the database or in the kernel, not even while one
\* family is new and the other old.
PortsHaveOneOwner == OneOwner(db.set.on) /\ OneOwner(KernelRules(kernel))

\* A committed edit changes the database the way it would have on the database it
\* replaces: other commands' committed changes survive it.
NoLostUpdate ==
  [][\A p \in Procs :
       pc[p] = "save" /\ db' # db /\ op[p].kind # "restore"
         => db'.set \in Edits(op[p], db.set)]_vars

\* A reconcile that reports success has applied the committed database.
ReconcileAppliesCommitted ==
  [][\A p \in Procs :
       result'[p] = "COMMITTED" /\ result[p] # "COMMITTED" /\ ~Commits(op[p])
         => Synced']_vars

\* Whenever no command is at work, no part of an uncommitted change is in the kernel.
NothingPartial ==
  lock = Free => KernelReadable(kernel) /\ KernelRules(kernel) \subseteq db.set.on

--------------------------------------------------------------------------------
(* Transactions implement the atomic store: what the kernel holds while a command *)
(* is midway is not a result, the rename of rules.json is the commit.             *)

Enforced ==
  IF lock # Free /\ pc[lock] \in Midway THEN KernelRules(before[lock])
  ELSE KernelRules(kernel)

Verdict(p) ==
  CASE pc[p] = "finish" \/ result[p] \in {"COMMITTED", "UNLOGGED"} -> "committed"
    [] result[p] \in {"error", "ROLLED_BACK"} -> "aborted"
    [] result[p] \in {"ROLLBACK_FAILED", "killed"} -> "damaged"
    [] OTHER -> "open"

Store == INSTANCE AtomicStore WITH
  Clients <- Procs, rules <- db.set, enforced <- Enforced,
  verdict <- [p \in Procs |-> Verdict(p)]

\* Commands that commit, disturbed by at most one failure, are atomic: database and
\* firewall change together or not at all.
Atomic == Store!Spec

--------------------------------------------------------------------------------
(* Liveness *)

\* Whoever gets the lock gives it back.
LockComesBack == \A p \in Procs : lock = p ~> lock # p

\* A reconcile makes no backup: the other disturbances do not concern it.
Exhausted == \A d \in {"fail", "cancel", "crash", "reboot"} : budget[d] = 0

\* Once disturbances are over, a reconcile that gets the lock with the database it loaded
\* still the committed one, and finds both families readable, succeeds, and the firewall
\* enforces the database when it does, whatever earlier commands, crashes or restarts
\* left behind (main.go:757-764, transaction.go:67-69).
RepairWorks ==
  \A p \in Procs :
    /\ pc[p] = "snapshot" /\ ~Commits(op[p]) /\ ~cancelled[p] /\ Exhausted
    /\ desired[p] = db.set
    /\ KernelReadable(kernel) /\ ~ConflictsWithForeign(desired[p])
    ~> result[p] = "COMMITTED" /\ Synced

================================================================================
