------------------------------- MODULE Migration -------------------------------
(***************************************************************************)
(* internal/migration: taking over the rules of PMM 5.  Every element of   *)
(* Procs is one "pmm migrate --execute": it plans without the lock, then   *)
(* holds the lock while it disables the v5 service, installs the v6 rules  *)
(* (transaction.ReconcileMigrationLocked), deletes the v5 rules one by one *)
(* and commits the database.                                               *)
(*                                                                         *)
(*   start -> (ask enabled -> ask active ->) waiting -> journal -> drop -> *)
(*   remove -> forget -> prepare -> delete -> commit -> log -> done        *)
(* and, after an error,                                                    *)
(*   (managed -> discover -> clear -> append ->) unit -> reload -> enable  *)
(*   -> activate -> done                                                   *)
(*                                                                         *)
(* Rules are keys: a v5 rule and the v6 rule made of it are the same key.  *)
(* The managed chains of both families are one set, since Transaction      *)
(* shows what a transaction makes of the two.  Other programs' rules, with *)
(* which Plan refuses a conflict, and interrupts are left out.             *)
(***************************************************************************)
EXTENDS SystemdUnit, Naturals, FiniteSets, SequencesExt

CONSTANTS
  Procs,       \* migrations
  RuleLists,   \* what the v5 database and the v5 kernel rules may be
  Managed,     \* the rule sets PMM 6 may already have committed and applied
  Budget       \* how many disturbances of each kind are explored

Free == "free"
Disturbances == {"fail", "crash"}

ASSUME ProcsAssumption == Free \notin Procs
ASSUME ListsAssumption == \A l \in RuleLists : l \in Seq(ToSet(l))
ASSUME BudgetAssumption == Budget \in [Disturbances -> Nat]

VARIABLES
  legacyDb,  \* the keys of v5's rules.db
  legacy,    \* v5's rules in PREROUTING, in their order
  managed,   \* the rules of the managed chains
  db,        \* rules.json: rules and generation
  unit,      \* pmm-rules.service
  lock,      \* the owner of PMM's lock
  pc,        \* the next step of every migration
  plan,      \* what it planned
  todo,      \* v5 rules still to delete or to append
  result,    \* what it reported
  budget,    \* disturbances that may still happen
  start      \* the machine when a migration got the lock, and the failures that could
             \* still happen (read by no step)

machine == <<legacy, managed, db, unit>>
vars == <<legacyDb, machine, lock, pc, plan, todo, result, budget, start>>

NoPlan == [rules |-> {}, kernel |-> <<>>, owned |-> FALSE, enabled |-> FALSE, active |-> FALSE]

Now == [legacy |-> legacy, managed |-> managed, db |-> db, unit |-> unit,
        failures |-> budget["fail"]]

\* A machine that ran PMM 5, with or without committed rules of PMM 6.
Init ==
  /\ legacyDb \in {ToSet(l) : l \in RuleLists}
  /\ legacy \in RuleLists
  /\ managed \in Managed /\ managed \cap ToSet(legacy) = {}
  /\ db = [rules |-> managed, gen |-> IF managed = {} THEN 0 ELSE 2]
  /\ unit \in {u \in Unit : Sound(u)}
  /\ lock = Free
  /\ pc = [p \in Procs |-> "start"]
  /\ plan = [p \in Procs |-> NoPlan]
  /\ todo = [p \in Procs |-> <<>>]
  /\ result = [p \in Procs |-> "none"]
  /\ budget = Budget
  /\ start = Now

--------------------------------------------------------------------------------
(* Pieces of steps *)

Spend(d) == budget[d] > 0 /\ budget' = [budget EXCEPT ![d] = @ - 1]
Put(f, p, x) == [f EXCEPT ![p] = x]

At(p, step) == pc[p] = step
Move(p, step) == pc' = Put(pc, p, step) /\ UNCHANGED <<lock, plan, result, start, legacyDb>>
Go(p, step) == Move(p, step) /\ UNCHANGED todo

\* The command returns and gives the lock back.
End(p, res) ==
  /\ pc' = Put(pc, p, "done")
  /\ result' = Put(result, p, res)
  /\ lock' = IF lock = p THEN Free ELSE lock
  /\ plan' = Put(plan, p, NoPlan)
  /\ todo' = Put(todo, p, <<>>)
  /\ UNCHANGED <<start, legacyDb>>

\* A command works and has its effect, then ok; or fails without effect, then err.
Attempt(effect, ok, err) ==
  \/ effect /\ ok /\ UNCHANGED budget
  \/ Spend("fail") /\ err /\ UNCHANGED machine

UnitBecomes(u) == unit' = u /\ UNCHANGED <<legacy, managed, db>>

--------------------------------------------------------------------------------
(* Manager.Plan, without the lock *)

\* A rule stands twice among v5's rules in the kernel.
Repeats == Cardinality(ToSet(legacy)) < Len(legacy)

\* --source auto finds rules in both places, and not the same.
Ambiguous == legacyDb # {} /\ legacy # <<>> /\ (Repeats \/ legacyDb # ToSet(legacy))

\* The rules --source kernel, database and auto select, where Normalize accepts them.
Selections == {rules \in {ToSet(legacy)} : ~Repeats} \cup {legacyDb}

V5Unit == unit.file = "v5"

\* Something to migrate, and no same-named unit of somebody else.
Plan(p) ==
  /\ At(p, "start")
  /\ unit.file \in {"none", "v5"}
  /\ \E rules \in Selections :
       /\ rules # {} \/ legacy # <<>>
       /\ plan' = Put(plan, p, [NoPlan EXCEPT !.rules = rules, !.kernel = legacy,
                                             !.owned = V5Unit])
  /\ pc' = Put(pc, p, IF V5Unit THEN "ask enabled" ELSE "waiting")
  /\ UNCHANGED <<legacyDb, machine, lock, todo, result, budget, start>>

\* inspectLegacyService asks systemctl; a query that fails leaves a "no" in the plan.
Ask(p, step, told) ==
  /\ \/ plan' = Put(plan, p, told) /\ UNCHANGED budget
     \/ Spend("fail") /\ UNCHANGED plan
  /\ pc' = Put(pc, p, step)
  /\ UNCHANGED <<legacyDb, machine, lock, todo, result, start>>

AskEnabled(p) ==
  At(p, "ask enabled") /\ Ask(p, "ask active", [plan[p] EXCEPT !.enabled = unit.enabled])

AskActive(p) ==
  At(p, "ask active") /\ Ask(p, "waiting", [plan[p] EXCEPT !.active = unit.active])

\* What Plan refuses, or cannot read.
PlanError(p) ==
  /\ At(p, "start")
  /\ \/ /\ \/ unit.file \notin {"none", "v5"}
           \/ Ambiguous \/ Repeats
           \/ {} \in Selections /\ legacy = <<>>
        /\ UNCHANGED budget
     \/ Spend("fail")
  /\ End(p, "error")
  /\ UNCHANGED machine

--------------------------------------------------------------------------------
(* Manager.Execute *)

\* Mutant: a migration does not wait for another one.
AcquireHeld(p) ==
  /\ At(p, "waiting")
  /\ lock' = p
  /\ start' = Now
  /\ pc' = Put(pc, p, "journal")
  /\ UNCHANGED <<legacyDb, machine, plan, todo, result, budget>>

Acquire(p) ==
  /\ At(p, "waiting") /\ lock = Free
  /\ lock' = p
  /\ start' = Now
  /\ pc' = Put(pc, p, "journal")
  /\ UNCHANGED <<legacyDb, machine, plan, todo, result, budget>>

\* The bundle directory and the first version of the journal.
Journal(p) ==
  /\ At(p, "journal")
  /\ Attempt(UNCHANGED machine,
       Go(p, CASE ~plan[p].owned -> "prepare"
               [] plan[p].owned /\ (plan[p].enabled \/ plan[p].active) -> "drop"
               [] OTHER -> "remove"),
       End(p, "error"))

\* The restoration of the v5 service, when there was one.
Unwind(p) == IF plan[p].owned THEN Go(p, "unit") ELSE End(p, "error")

\* disableLegacyService
DropService(p) ==
  /\ At(p, "drop")
  /\ Attempt(UnitBecomes(DisabledNow(unit)), Go(p, "remove"), Unwind(p))

RemoveUnit(p) ==
  /\ At(p, "remove")
  /\ Attempt(UnitBecomes(WithFile(unit, "none")), Go(p, "forget"), Unwind(p))

Forget(p) ==
  /\ At(p, "forget")
  /\ Attempt(UNCHANGED machine, Go(p, "prepare"), Unwind(p))

ChainsBecome(rules) == managed' = rules /\ UNCHANGED <<legacy, db, unit>>
DoList(p, step, list) == Move(p, step) /\ todo' = Put(todo, p, list)

\* Mutant: the transaction is journaled and not applied.
PrepareUnapplied(p) ==
  /\ At(p, "prepare")
  /\ Attempt(UNCHANGED machine, DoList(p, "delete", Reverse(plan[p].kernel)), Unwind(p))

\* ReconcileMigrationLocked, whole.  It works; or it fails and has rolled back, unless
\* what failed is the last write of its journal, after which nothing is rolled back; or
\* its rollback failed too.
Prepare(p) ==
  /\ At(p, "prepare")
  /\ \/ /\ ChainsBecome(plan[p].rules)
        /\ DoList(p, "delete", Reverse(plan[p].kernel))
        /\ UNCHANGED budget
     \/ /\ Spend("fail")
        /\ ChainsBecome(managed) \/ ChainsBecome(plan[p].rules)
        /\ Unwind(p)
     \/ /\ budget["fail"] >= 2
        /\ budget' = [budget EXCEPT !["fail"] = @ - 2]
        /\ \E left \in SUBSET (managed \cup plan[p].rules) : ChainsBecome(left)
        /\ Unwind(p)

\* iptables -D takes the first rule that matches, and fails when there is none.
Matches(rule) == {i \in DOMAIN legacy : legacy[i] = rule /\ \A j \in 1..i-1 : legacy[j] # rule}

DeleteOne(rule, ok, err) ==
  IF Matches(rule) # {}
    THEN Attempt((\E i \in Matches(rule) : legacy' = RemoveAt(legacy, i))
                   /\ UNCHANGED <<managed, db, unit>>, ok, err)
    ELSE err /\ UNCHANGED <<machine, budget>>

\* DeleteLegacy, from the last planned rule to the first.
DeleteLegacy(p) ==
  /\ At(p, "delete") /\ todo[p] # <<>>
  /\ DeleteOne(Head(todo[p]), DoList(p, "delete", Tail(todo[p])), Go(p, "managed"))

\* Mutant: the rules of the kernel are saved, whatever was selected.
SavedKernel(p) == ToSet(plan[p].kernel)

Saved(p) == plan[p].rules

\* Store.Save of a rule set whose generation is zero.
Commit(p) ==
  /\ At(p, "delete") /\ todo[p] = <<>>
  /\ Attempt(db' = [rules |-> Saved(p), gen |-> 1] /\ UNCHANGED <<legacy, managed, unit>>,
       Go(p, "log"), Go(p, "managed"))

\* The last version of the journal; the migration stays even if it cannot be written.
Log(p) ==
  /\ At(p, "log")
  /\ Attempt(UNCHANGED machine, End(p, "COMMITTED"), End(p, "UNLOGGED"))

--------------------------------------------------------------------------------
(* restoreLegacyAfterFailure *)

\* DeleteManaged; when it fails it may have removed a part.
DeleteManaged(p) ==
  /\ At(p, "managed")
  /\ Go(p, "discover")
  /\ \/ ChainsBecome({}) /\ UNCHANGED budget
     \/ Spend("fail") /\ \E left \in SUBSET managed : ChainsBecome(left)

\* Mutant: the v5 rules that are still there are not deleted first.
DiscoverNothing(p) ==
  /\ At(p, "discover")
  /\ DoList(p, "append", plan[p].kernel)
  /\ UNCHANGED <<machine, budget>>

\* RestoreLegacy: delete the v5 rules that are there, unless they cannot be read; then
\* append the planned ones in order.
Discover(p) ==
  /\ At(p, "discover")
  /\ Attempt(UNCHANGED machine,
       IF legacy = <<>> THEN DoList(p, "append", plan[p].kernel)
                        ELSE DoList(p, "clear", Reverse(legacy)),
       DoList(p, "append", plan[p].kernel))

Clear(p) ==
  /\ At(p, "clear")
  /\ DeleteOne(Head(todo[p]),
       IF Len(todo[p]) > 1 THEN DoList(p, "clear", Tail(todo[p]))
                           ELSE DoList(p, "append", plan[p].kernel),
       Unwind(p))

AppendRule(p) ==
  /\ At(p, "append") /\ todo[p] # <<>>
  /\ Attempt(legacy' = Append(legacy, Head(todo[p])) /\ UNCHANGED <<managed, db, unit>>,
       DoList(p, "append", Tail(todo[p])), Unwind(p))

Restored(p) ==
  /\ At(p, "append") /\ todo[p] = <<>>
  /\ Unwind(p)
  /\ UNCHANGED <<machine, budget>>

\* restoreLegacyService: only the file is a condition for the rest.
WriteUnit(p) ==
  /\ At(p, "unit")
  /\ Attempt(UnitBecomes(WithFile(unit, "v5")), Go(p, "reload"), End(p, "error"))

Reload(p) ==
  /\ At(p, "reload")
  /\ Attempt(UNCHANGED machine, Go(p, "enable"), Go(p, "enable"))

Enable(p) ==
  /\ At(p, "enable")
  /\ IF plan[p].enabled
       THEN Attempt(UnitBecomes(Enabled(unit)), Go(p, "activate"), Go(p, "activate"))
       ELSE Go(p, "activate") /\ UNCHANGED <<machine, budget>>

Activate(p) ==
  /\ At(p, "activate")
  /\ End(p, "error")
  /\ IF plan[p].active
       THEN Attempt(UnitBecomes(Started(unit)), TRUE, TRUE)
       ELSE UNCHANGED <<machine, budget>>

\* The process dies; its lock goes with it.
Crash(p) ==
  /\ lock = p
  /\ Spend("crash")
  /\ End(p, "died")
  /\ UNCHANGED machine

Next ==
  \E p \in Procs :
    \/ Plan(p) \/ AskEnabled(p) \/ AskActive(p) \/ PlanError(p) \/ Acquire(p) \/ Journal(p)
    \/ DropService(p) \/ RemoveUnit(p) \/ Forget(p)
    \/ Prepare(p) \/ DeleteLegacy(p) \/ Commit(p) \/ Log(p)
    \/ DeleteManaged(p) \/ Discover(p) \/ Clear(p) \/ AppendRule(p) \/ Restored(p)
    \/ WriteUnit(p) \/ Reload(p) \/ Enable(p) \/ Activate(p)
    \/ Crash(p)

Spec == Init /\ [][Next]_vars

--------------------------------------------------------------------------------

Resting == {"start", "ask enabled", "ask active", "waiting", "done"}
Before == {"journal", "drop", "remove", "forget", "prepare"}
Forward == Before \cup {"delete", "log"}
Backward == {"managed", "discover", "clear", "append", "unit", "reload", "enable", "activate"}
AllRules == (UNION {ToSet(l) : l \in RuleLists}) \cup (UNION Managed)

\* Types; a migration at work has the lock, and nobody else does.
TypeOK ==
  /\ legacy \in Seq(AllRules) /\ managed \subseteq AllRules
  /\ db \in [rules : SUBSET AllRules, gen : 0..2]
  /\ unit \in Unit
  /\ \A p \in Procs :
       /\ pc[p] \in Resting \cup Forward \cup Backward
       /\ plan[p].rules \subseteq AllRules /\ todo[p] \in Seq(AllRules)
       /\ (lock = p) = (pc[p] \in Forward \cup Backward)
       /\ result[p] \in {"none", "error", "COMMITTED", "UNLOGGED", "died"}
  /\ budget \in [Disturbances -> Nat]

\* Until something fails, a redirect that is to survive the migration is never out of
\* force: as long as a v6 chain does not carry it, its v5 rule is in PREROUTING.
RulesStayInForce ==
  \A p \in Procs : pc[p] \in Forward =>
    (ToSet(start.legacy) \cup start.managed) \cap plan[p].rules \subseteq ToSet(legacy) \cup managed

\* A migration that reports success, or that only its journal's last version is missing,
\* leaves the chains as the database has them and, unless another migration changed v5's
\* rules between its plan and its lock, none of those.
SuccessIsComplete ==
  [][\A p \in Procs : pc[p] = "log" /\ result'[p] \in {"COMMITTED", "UNLOGGED"} =>
       managed' = db'.rules /\ (plan[p].kernel = start.legacy => legacy' = <<>>)]_vars

\* What p planned with was still so when it got the lock.
Timely(p) ==
  /\ plan[p].kernel = start.legacy
  /\ plan[p].owned = (start.unit.file = "v5")
  /\ plan[p].owned => plan[p].enabled = start.unit.enabled /\ plan[p].active = start.unit.active

\* A migration that one failure stops leaves the v5 rules in their order, the v5 service
\* and the database as it found them, unless another migration came between its plan and
\* its lock.
FailureKeepsVersion5 ==
  [][\A p \in Procs :
       /\ lock = p /\ result'[p] = "error"
       /\ Timely(p) /\ budget'["fail"] >= start.failures - 1
       => legacy' = start.legacy /\ unit' = start.unit /\ db' = start.db]_vars

\* What README.md:12 says of every write, that a failure is rolled back: no failed
\* migration leaves rules in force that were not.
FailureAddsNoRules ==
  [][\A p \in Procs : lock = p /\ result'[p] = "error" => managed' \subseteq start.managed]_vars

\* The same of the v6 rules that were in force before: a migration with rules to install
\* that fails does not leave the machine with none.
FailureKeepsVersion6 ==
  [][\A p \in Procs : lock = p /\ result'[p] = "error" /\ plan[p].rules # {} =>
       (managed' = {} => start.managed = {})]_vars

\* What README.md:12 says of the process lock: migrations that nothing disturbs leave the
\* chains as the database has them, whatever their order.
ChainsMatchDatabase == lock = Free => managed = db.rules
================================================================================
