-------------------------------- MODULE Retention --------------------------------
(***************************************************************************)
(* A directory of time-stamped files with a bounded number of them: the    *)
(* backups of internal/storage and the reports of internal/diagnostics.    *)
(* Every save writes one file and then prunes the directory; backups can   *)
(* also be deleted one by one and purged.  None of this is under a lock    *)
(* (only the transaction manager's own backup is), so that the readings    *)
(* and removals of several processes mix.                                  *)
(*                                                                         *)
(*   save:    start -> list -> inspect -> prune -> done                    *)
(*   purge:   start -> list -> inspect -> lstat -> unlink -> ... -> done   *)
(*   delete:  start -> lstat -> unlink -> done                             *)
(***************************************************************************)
EXTENDS Naturals, FiniteSets

CONSTANTS
  Procs,     \* process identifiers of the commands
  Kinds,     \* which directories are explored: "backups", "reports"
  Limit,     \* max_backups or report_retention
  Initial,   \* files that are there to begin with
  MaxTime,   \* the highest clock reading explored
  Budget     \* how many disturbances of each kind are explored

Disturbances == {"fail", "crash", "back"}

\* A file's name is its time stamp and the process identifier of its writer.
File == [at : 0..MaxTime, by : Nat]

ASSUME ProcsAssumption == Procs \subseteq Nat
ASSUME KindsAssumption == Kinds \subseteq {"backups", "reports"}
ASSUME LimitAssumption == Limit \in Nat \ {0}
ASSUME InitialAssumption ==
  /\ Initial \subseteq File /\ IsFiniteSet(Initial) /\ Cardinality(Initial) <= Limit
  /\ \A f \in Initial : f.by \notin Procs
ASSUME BudgetAssumption == Budget \in [Disturbances -> Nat]

VARIABLES
  kind,    \* what the directory holds
  dir,     \* the files of the directory
  clock,   \* the wall clock
  pc,      \* the next step of every command
  job,     \* what it was asked to do
  own,     \* the files it has written
  unseen,  \* entries of its ReadDir it has not called Info on
  listed,  \* the entries it has
  todo,    \* files it still wants to remove
  result,  \* what it reported
  budget   \* disturbances that may still happen

locals == <<job, own, unseen, listed, todo>>
vars == <<kind, dir, clock, pc, locals, result, budget>>

Init ==
  /\ kind \in Kinds
  /\ dir = Initial
  /\ clock \in 0..MaxTime /\ \A f \in Initial : f.at <= clock
  /\ pc = [p \in Procs |-> "start"]
  /\ job = [p \in Procs |-> "none"]
  /\ own = [p \in Procs |-> {}]
  /\ unseen = [p \in Procs |-> {}]
  /\ listed = [p \in Procs |-> {}]
  /\ todo = [p \in Procs |-> {}]
  /\ result = [p \in Procs |-> "none"]
  /\ budget = Budget

--------------------------------------------------------------------------------
(* Pieces of steps *)

Spend(d) == budget[d] > 0 /\ budget' = [budget EXCEPT ![d] = @ - 1]
Put(f, p, x) == [f EXCEPT ![p] = x]

At(p, step) == pc[p] = step
Go(p, step) == pc' = Put(pc, p, step) /\ UNCHANGED result
End(p, res) == pc' = Put(pc, p, "done") /\ result' = Put(result, p, res)

Fails(p) == Spend("fail") /\ End(p, "error") /\ UNCHANGED <<dir, locals>>

\* sort.StringSlice: by time stamp, then by process identifier.
Newer(f, g) == f.at > g.at \/ (f.at = g.at /\ f.by > g.by)
Oldest(F) == {f \in F : \A g \in F : g = f \/ Newer(g, f)}
Newest(F) == {f \in F : \A g \in F : g = f \/ Newer(f, g)}

\* Mutants: one file too many is kept; the order is not reversed.
ExpiredAfterOneMore(F) == {f \in F : Cardinality({g \in F : Newer(g, f)}) > Limit}
ExpiredAscending(F) == {f \in F : Cardinality({g \in F : Newer(f, g)}) >= Limit}

\* backups[minimum(limit, len(backups)):] of the list in reverse order.
Expired(F) == {f \in F : Cardinality({g \in F : Newer(g, f)}) >= Limit}

\* Mutant: a name without the process identifier.
FileNameOfTime(now, p) == [at |-> now, by |-> 0]

\* rules-<time>-<pid>.json, diagnostic-<time>-<pid>.json
FileName(now, p) == [at |-> now, by |-> p]

--------------------------------------------------------------------------------

\* Store.Backup and Service.Save up to the rename of the new file.  The clock has moved
\* on, or has been set back.
Save(p) ==
  /\ At(p, "start")
  /\ \E now \in 0..MaxTime :
       LET file == FileName(now, p) IN
       /\ \/ now >= clock /\ UNCHANGED budget
          \/ now < clock /\ Spend("back")
       /\ clock' = now
       /\ dir' = dir \cup {file}
       /\ own' = Put(own, p, {file})
  /\ job' = Put(job, p, "save")
  /\ Go(p, "list")
  /\ UNCHANGED <<unseen, listed, todo>>

\* The write fails and leaves nothing.
SaveFails(p) ==
  /\ At(p, "start")
  /\ Fails(p)
  /\ UNCHANGED clock

\* backup purge
Purge(p) ==
  /\ At(p, "start") /\ kind = "backups"
  /\ job' = Put(job, p, "purge")
  /\ Go(p, "list")
  /\ UNCHANGED <<dir, clock, own, unseen, listed, todo, budget>>

\* backup delete of one file
Delete(p) ==
  /\ At(p, "start") /\ kind = "backups"
  /\ \E f \in dir : todo' = Put(todo, p, {f})
  /\ job' = Put(job, p, "delete")
  /\ Go(p, "lstat")
  /\ UNCHANGED <<dir, clock, own, unseen, listed, budget>>

\* ListBackups: ReadDir.
List(p) ==
  /\ At(p, "list")
  /\ \/ /\ unseen' = Put(unseen, p, dir)
        /\ Go(p, "inspect")
        /\ UNCHANGED <<dir, job, own, listed, todo, budget>>
     \/ Fails(p)
  /\ UNCHANGED clock

\* ListBackups: Info of the next entry; an entry that is gone is an error.
Inspect(p) ==
  /\ At(p, "inspect") /\ unseen[p] # {}
  /\ \E f \in Oldest(unseen[p]) :
     \/ /\ f \in dir
        /\ unseen' = Put(unseen, p, unseen[p] \ {f})
        /\ listed' = Put(listed, p, listed[p] \cup {f})
        /\ UNCHANGED <<dir, pc, result, job, own, todo, budget>>
     \/ f \notin dir /\ End(p, "error") /\ UNCHANGED <<dir, locals, budget>>
     \/ Fails(p)
  /\ UNCHANGED clock

\* The list is complete: a save removes what has expired, a purge everything.
Choose(p) ==
  /\ At(p, "inspect") /\ unseen[p] = {}
  /\ IF job[p] = "save"
       THEN todo' = Put(todo, p, Expired(listed[p])) /\ Go(p, "prune")
       ELSE todo' = Put(todo, p, listed[p]) /\ Go(p, "lstat")
  /\ UNCHANGED <<dir, clock, job, own, unseen, listed, budget>>

\* PruneBackups ignores that a file is already gone, Service.cleanup does not.
Tolerant == kind = "backups"

\* The loop of PruneBackups and of Service.cleanup.
Prune(p) ==
  /\ At(p, "prune") /\ todo[p] # {}
  /\ \E f \in Newest(todo[p]) :
     \/ /\ f \in dir \/ Tolerant
        /\ dir' = dir \ {f}
        /\ todo' = Put(todo, p, todo[p] \ {f})
        /\ UNCHANGED <<pc, result, job, own, unseen, listed, budget>>
     \/ f \notin dir /\ ~Tolerant /\ End(p, "error") /\ UNCHANGED <<dir, locals, budget>>
     \/ Fails(p)
  /\ UNCHANGED clock

\* DeleteBackup: Lstat; a file that is gone counts as deleted.
Lstat(p) ==
  /\ At(p, "lstat") /\ todo[p] # {}
  /\ \E f \in Newest(todo[p]) :
     \/ f \in dir /\ Go(p, "unlink") /\ UNCHANGED <<dir, locals, budget>>
     \/ /\ f \notin dir
        /\ todo' = Put(todo, p, todo[p] \ {f})
        /\ UNCHANGED <<dir, pc, result, job, own, unseen, listed, budget>>
     \/ Fails(p)
  /\ UNCHANGED clock

\* DeleteBackup: os.Remove; now a file that is gone is an error.
Unlink(p) ==
  /\ At(p, "unlink")
  /\ \E f \in Newest(todo[p]) :
     \/ /\ f \in dir
        /\ dir' = dir \ {f}
        /\ todo' = Put(todo, p, todo[p] \ {f})
        /\ Go(p, "lstat")
        /\ UNCHANGED <<job, own, unseen, listed, budget>>
     \/ f \notin dir /\ End(p, "error") /\ UNCHANGED <<dir, locals, budget>>
     \/ Fails(p)
  /\ UNCHANGED clock

Return(p) ==
  /\ pc[p] \in {"prune", "lstat"} /\ todo[p] = {}
  /\ End(p, "ok")
  /\ UNCHANGED <<dir, clock, locals, budget>>

Crash(p) ==
  /\ pc[p] \notin {"start", "done"}
  /\ Spend("crash")
  /\ End(p, "killed")
  /\ UNCHANGED <<dir, clock, locals>>

Next ==
  /\ UNCHANGED kind
  /\ \E p \in Procs :
       \/ Save(p) \/ SaveFails(p) \/ Purge(p) \/ Delete(p) \/ List(p) \/ Inspect(p)
       \/ Choose(p) \/ Prune(p) \/ Lstat(p) \/ Unlink(p) \/ Return(p) \/ Crash(p)

Spec == Init /\ [][Next]_vars

--------------------------------------------------------------------------------
(* Properties *)

Steps == {"start", "list", "inspect", "prune", "lstat", "unlink", "done"}

\* Types; every file is an initial one or was written by the save it is named after.
TypeOK ==
  /\ kind \in Kinds
  /\ dir \subseteq Initial \cup UNION {own[p] : p \in Procs}
  /\ clock \in 0..MaxTime
  /\ pc \in [Procs -> Steps]
  /\ job \in [Procs -> {"save", "purge", "delete", "none"}]
  /\ own \in [Procs -> SUBSET File] /\ unseen \in [Procs -> SUBSET File]
  /\ \A p \in Procs : \A f \in own[p] : f.by = p
  /\ listed \in [Procs -> SUBSET File] /\ todo \in [Procs -> SUBSET File]
  /\ result \in [Procs -> {"none", "ok", "error", "killed"}]
  /\ budget \in [Disturbances -> Nat]

Wrote(p) == own[p] # {}
Quiet == \A p \in Procs : Wrote(p) => pc[p] = "done"
Failed == {p \in Procs : Wrote(p) /\ result[p] # "ok"}

\* The directory is bounded: when no save is under way, only saves that reported an
\* error or were killed can have left one file each over the limit, however the
\* listings and removals of all commands were mixed.
Bounded == Quiet => Cardinality(dir) <= Limit + Cardinality(Failed)

OnlySaves == \A p \in Procs : job[p] \in {"none", "save"}

\* Retention never removes a file unless Limit newer ones are there at that moment,
\* even when several saves prune from different listings: as long as nothing is deleted
\* or purged by hand.
NewestAreKept ==
  [][OnlySaves =>
       \A f \in dir \ dir' : Cardinality({g \in dir' : Newer(g, f)}) >= Limit]_vars

\* A save that reports success has left its file behind, as long as at most Limit saves
\* are about, what they write is newer than what was there before (the clock was not set
\* back behind it) and nothing is removed by hand: a transaction that goes on after its
\* backup has one.
OwnFileSurvives ==
  /\ OnlySaves /\ Cardinality({p \in Procs : Wrote(p)}) <= Limit
  /\ \A p \in Procs : \A g \in own[p], f \in Initial : Newer(g, f)
  => \A p \in Procs : Wrote(p) /\ result[p] = "ok" => own[p] \subseteq dir

\* What README.md:12 promises, a backup before each change, whatever the clock does.
BackupIsThere ==
  Cardinality({p \in Procs : job[p] # "none"}) <= 1 =>
    \A p \in Procs : Wrote(p) /\ result[p] = "ok" => own[p] \subseteq dir
================================================================================
