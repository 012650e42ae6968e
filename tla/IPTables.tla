-------------------------------- MODULE IPTables --------------------------------
(***************************************************************************)
(* The iptables backend of internal/firewall, command by command, on the   *)
(* NAT table of one IP family: snapshotFamily, applyFamily with its        *)
(* deferred cleanup, and deleteFamily, called one after the other by       *)
(* processes that hold PMM's lock.                                         *)
(*                                                                         *)
(* The table holds the anchor in PREROUTING that jumps to the entry chain, *)
(* the entry chain, whose one rule jumps to the active generation, and the *)
(* generation chains, which hold the redirect rules.                       *)
(***************************************************************************)
EXTENDS FamilyOutcomes, Sequences

CONSTANTS
  Chains,   \* names of generation chains
  Targets,  \* the family states a call may be asked for
  Budget    \* how many disturbances of each kind are explored

Disturbances == {"fail", "cancel", "crash"}

ASSUME TargetsAssumption ==
  \A t \in Targets : t \in FamilyState /\ (t = Absent \/ t.mode = "managed")
ASSUME FiniteAssumption == \A t \in Targets : IsFiniteSet(t.rules)
ASSUME BudgetAssumption == Budget \in [Disturbances -> Nat]

VARIABLES
  nat,        \* the table: anchor rules in PREROUTING, entry chain, generations
  pc,         \* the next command of the call in progress
  target,     \* what the call is to establish
  managed,    \* the snapshot it took found the family managed
  chain,      \* the generation chain it builds, later the one it removes
  todo,       \* rules still to append
  obsolete,   \* generation chains still to remove
  created,    \* what the deferred cleanup would undo
  undo,       \* the deferred cleanup's remaining commands
  trouble,    \* the disturbances that hit the call
  budget,     \* disturbances that may still happen
  start,      \* what the table held when the call began (read by no step)
  last        \* target and trouble of the last call (read by no step)

locals == <<target, managed, chain, todo, obsolete, created>>
vars == <<nat, pc, locals, undo, trouble, budget, start, last>>

NoChain == "no chain"
NoTrouble == [fails |-> 0, killed |-> FALSE, crashed |-> FALSE]
EmptyTable == [anchors |-> 0, entry |-> FALSE, jumps |-> <<>>, gens |-> [c \in {} |-> {}]]

Generations == DOMAIN nat.gens
Jumped == {nat.jumps[i] : i \in DOMAIN nat.jumps}

\* snapshotFamily, when the read succeeds.
Parse ==
  IF nat.anchors = 0 /\ ~nat.entry THEN Absent
  ELSE IF nat.anchors = 1 /\ nat.entry /\ Len(nat.jumps) = 1 /\ Jumped \subseteq Generations
    THEN Managed(nat.gens[nat.jumps[1]])
  ELSE Drift

\* The redirect rules packets meet.
Redirects ==
  IF nat.anchors > 0 /\ nat.jumps # <<>> THEN nat.gens[nat.jumps[1]] ELSE {}

Init ==
  /\ nat = EmptyTable
  /\ pc = "idle"
  /\ target = Absent /\ managed = FALSE /\ chain = NoChain
  /\ todo = {} /\ obsolete = {} /\ created = {} /\ undo = <<>>
  /\ trouble = NoTrouble
  /\ budget = Budget
  /\ start = Absent
  /\ last = [target |-> Absent, trouble |-> NoTrouble]

--------------------------------------------------------------------------------
(* Commands of the iptables binary: whether the kernel accepts them, and the *)
(* table they make.                                                           *)

NewGeneration(c) ==
  [ok  |-> c \notin Generations,
   nat |-> [nat EXCEPT !.gens = [d \in Generations \cup {c} |-> IF d = c THEN {} ELSE @[d]]]]

AppendRule(c, r) ==
  [ok |-> c \in Generations, nat |-> [nat EXCEPT !.gens[c] = @ \cup {r}]]

FlushGeneration(c) ==
  [ok |-> c \in Generations, nat |-> [nat EXCEPT !.gens[c] = {}]]

DeleteGeneration(c) ==
  [ok  |-> c \in Generations /\ nat.gens[c] = {} /\ c \notin Jumped,
   nat |-> [nat EXCEPT !.gens = [d \in Generations \ {c} |-> @[d]]]]

NewEntry == [ok |-> ~nat.entry, nat |-> [nat EXCEPT !.entry = TRUE]]
AddAnchor == [ok |-> nat.entry, nat |-> [nat EXCEPT !.anchors = @ + 1]]
DeleteAnchor == [ok |-> nat.anchors > 0, nat |-> [nat EXCEPT !.anchors = @ - 1]]
AddJump(c) ==
  [ok |-> nat.entry /\ c \in Generations, nat |-> [nat EXCEPT !.jumps = Append(@, c)]]
\* Mutant: the new jump is appended behind the old one.
ReplaceJumpByAppending(c) ==
  [ok |-> nat.jumps # <<>> /\ c \in Generations, nat |-> [nat EXCEPT !.jumps = Append(@, c)]]

ReplaceJump(c) ==
  [ok  |-> nat.jumps # <<>> /\ c \in Generations,
   nat |-> [nat EXCEPT !.jumps = <<c>> \o SubSeq(@, 2, Len(@))]]
FlushEntry == [ok |-> nat.entry, nat |-> [nat EXCEPT !.jumps = <<>>]]
DeleteEntry ==
  [ok  |-> nat.entry /\ nat.jumps = <<>> /\ nat.anchors = 0,
   nat |-> [nat EXCEPT !.entry = FALSE]]

--------------------------------------------------------------------------------
(* Running a command *)

Spend(d) == budget[d] > 0 /\ budget' = [budget EXCEPT ![d] = @ - 1]
Undisturbed == UNCHANGED <<trouble, budget>>

FailOnce == Spend("fail") /\ trouble' = [trouble EXCEPT !.fails = @ + 1]
KillOnce == ~trouble.killed /\ Spend("cancel") /\ trouble' = [trouble EXCEPT !.killed = TRUE]

\* One command with the call's context: it works, it is refused or not started, it
\* fails, or it is killed with or without its effect.
Run(command, onOk, onError) ==
  \/ /\ ~trouble.killed /\ command.ok
     /\ nat' = command.nat
     /\ Undisturbed /\ onOk
  \/ /\ trouble.killed \/ ~command.ok
     /\ UNCHANGED nat /\ Undisturbed /\ onError
  \/ /\ ~trouble.killed /\ FailOnce
     /\ UNCHANGED nat /\ onError
  \/ /\ KillOnce
     /\ nat' \in {nat} \cup Only(command.ok, command.nat)
     /\ onError

At(step) == pc = step
Go(step) == pc' = step /\ UNCHANGED <<target, managed, undo, start, last>>

\* Mutant: the deferred function forgets the anchor.
UndoWithoutAnchor ==
  (IF "chain" \in created THEN <<"flush chain", "delete chain">> ELSE <<>>) \o
  (IF "entry" \in created THEN <<"flush entry", "delete entry">> ELSE <<>>)

\* The deferred function of applyFamily: what it runs, in its order.
UndoSteps ==
  (IF "chain" \in created THEN <<"flush chain", "delete chain">> ELSE <<>>) \o
  (IF "anchor" \in created THEN <<"delete anchor">> ELSE <<>>) \o
  (IF "entry" \in created THEN <<"flush entry", "delete entry">> ELSE <<>>)

\* An error return: applyFamily's deferred cleanup comes first.
Abandon == pc' = "undo" /\ undo' = UndoSteps /\ UNCHANGED <<locals, start, last>>

\* The call is over, with the given trouble.
Leave(t) ==
  /\ pc' = "idle"
  /\ last' = [target |-> target, trouble |-> t]
  /\ target' = Absent /\ managed' = FALSE /\ chain' = NoChain
  /\ todo' = {} /\ obsolete' = {} /\ created' = {} /\ undo' = <<>>
  /\ trouble' = NoTrouble
  /\ start' = Absent

--------------------------------------------------------------------------------
(* applyFamily and deleteFamily *)

Begin(t) ==
  /\ At("idle")
  /\ pc' = "snapshot"
  /\ target' = t
  /\ start' = Parse
  /\ UNCHANGED <<nat, managed, chain, todo, obsolete, created, undo, trouble, budget, last>>

\* Mutant: orphans of earlier calls are left alone.
ObsoleteActiveOnly == Jumped

\* The generations a call removes: the active one and orphans of earlier calls.
Obsolete == Generations

\* snapshotFamily; what it finds decides the path.
Snapshot ==
  /\ At("snapshot")
  /\ Run([ok |-> Readable(Parse), nat |-> nat],
         /\ managed' = (Parse.mode = "managed")
         /\ obsolete' = Obsolete
         /\ pc' = CASE target # Absent -> "new chain"
                    [] target = Absent /\ managed' -> "delete anchor"
                    [] target = Absent /\ ~managed' /\ Obsolete # {} -> "flush"
                    [] OTHER -> "return"
         /\ UNCHANGED <<target, chain, todo, created, undo, start, last>>,
         Abandon)

Filled(rest) ==
  CASE rest # {}                -> "append"
    [] rest = {} /\ managed     -> "switch"
    [] rest = {} /\ ~managed    -> "new entry"

NewChain ==
  /\ At("new chain")
  /\ \E c \in Chains \ Generations :
       Run(NewGeneration(c),
           /\ chain' = c
           /\ todo' = target.rules
           /\ created' = {"chain"}
           /\ Go(Filled(target.rules))
           /\ UNCHANGED obsolete,
           Abandon)

AppendOne ==
  /\ At("append")
  /\ \E r \in todo :
       Run(AppendRule(chain, r),
           /\ todo' = todo \ {r}
           /\ Go(Filled(todo \ {r}))
           /\ UNCHANGED <<chain, obsolete, created>>,
           Abandon)

Create(step, command, what, next) ==
  /\ At(step)
  /\ Run(command,
         /\ created' = created \cup {what}
         /\ Go(next)
         /\ UNCHANGED <<chain, todo, obsolete>>,
         Abandon)

Cleaned(rest) ==
  CASE rest # {}                                  -> "flush"
    [] rest = {} /\ target = Absent /\ managed    -> "delete entry"
    [] rest = {} /\ ~(target = Absent /\ managed) -> "return"

\* Mutant: the deferred cleanup stays armed after the switch.
StillCreated == created

\* What the deferred cleanup undoes once the candidate is in force: nothing.
CreatedAfterSwitch == {}

\* The command that puts the candidate in force; from here on nothing is undone.
Enforce(step, command) ==
  /\ At(step)
  /\ Run(command,
         /\ created' = CreatedAfterSwitch
         /\ Go(Cleaned(obsolete))
         /\ UNCHANGED <<chain, todo, obsolete>>,
         Abandon)

FlushObsolete ==
  /\ At("flush")
  /\ \E c \in obsolete :
       Run(FlushGeneration(c),
           chain' = c /\ Go("remove") /\ UNCHANGED <<todo, obsolete, created>>,
           Abandon)

RemoveObsolete ==
  /\ At("remove")
  /\ Run(DeleteGeneration(chain),
         /\ obsolete' = obsolete \ {chain}
         /\ Go(Cleaned(obsolete \ {chain}))
         /\ UNCHANGED <<chain, todo, created>>,
         Abandon)

\* A step of deleteFamily outside the loop over generation chains.
Dismantle(step, command, next) ==
  /\ At(step)
  /\ Run(command, Go(next) /\ UNCHANGED <<chain, todo, obsolete, created>>, Abandon)

\* Mutant: a deferred command is repeated until it succeeds.
UndoRestRetrying(command) == IF command.ok THEN Tail(undo) ELSE undo

UndoRest(command) == Tail(undo)

\* The deferred commands run with a context of their own; errors are ignored.
Undo ==
  LET command == CASE Head(undo) = "flush chain"   -> FlushGeneration(chain)
                   [] Head(undo) = "delete chain"  -> DeleteGeneration(chain)
                   [] Head(undo) = "delete anchor" -> DeleteAnchor
                   [] Head(undo) = "flush entry"   -> FlushEntry
                   [] Head(undo) = "delete entry"  -> DeleteEntry
  IN /\ At("undo") /\ undo # <<>>
     /\ undo' = UndoRest(command)
     /\ \/ /\ nat' = IF command.ok THEN command.nat ELSE nat
           /\ Undisturbed
        \/ FailOnce /\ UNCHANGED nat
     /\ UNCHANGED <<pc, locals, start, last>>

Return ==
  /\ At("return") \/ (At("undo") /\ undo = <<>>)
  /\ Leave(trouble)
  /\ UNCHANGED <<nat, budget>>

\* The process dies between two commands; nothing deferred runs.
Crash ==
  /\ ~At("idle")
  /\ Spend("crash")
  /\ Leave([trouble EXCEPT !.crashed = TRUE])
  /\ UNCHANGED nat

Step ==
  \/ Snapshot
  \/ NewChain \/ AppendOne
  \/ Create("new entry", NewEntry, "entry", "add anchor")
  \/ Create("add anchor", AddAnchor, "anchor", "activate")
  \/ Enforce("activate", AddJump(chain))
  \/ Enforce("switch", ReplaceJump(chain))
  \/ FlushObsolete \/ RemoveObsolete
  \/ Dismantle("delete anchor", DeleteAnchor, "flush entry")
  \/ Dismantle("flush entry", FlushEntry, Cleaned(obsolete))
  \/ Dismantle("delete entry", DeleteEntry, "return")
  \/ Undo \/ Return

Next == (\E t \in Targets : Begin(t)) \/ Step \/ Crash

Spec == Init /\ [][Next]_vars

\* Commands return: iptables waits for its own lock for a bounded time.
FairSpec == Spec /\ WF_vars(Step)

--------------------------------------------------------------------------------
(* Type invariant *)

\* The table has at most one anchor and one jump, whatever was interrupted; a jump
\* never dangles; locals keep their types.
TypeOK ==
  /\ nat.anchors \in 0..1 /\ nat.entry \in BOOLEAN
  /\ Len(nat.jumps) <= 1 /\ Jumped \subseteq Generations
  /\ Generations \subseteq Chains
  /\ \A c \in Generations : nat.gens[c] \subseteq Rule
  /\ nat.jumps # <<>> \/ nat.anchors > 0 => nat.entry
  /\ target \in Targets \cup {Absent}
  /\ managed \in BOOLEAN
  /\ chain \in Chains \cup {NoChain}
  /\ todo \subseteq Rule
  /\ obsolete \subseteq Chains
  /\ created \subseteq {"chain", "anchor", "entry"}
  /\ budget \in [Disturbances -> Nat]

--------------------------------------------------------------------------------
(* Safety *)

\* Packets meet the rules the call found or the rules it was asked for, never a
\* mixture or neither: until a first interrupt, what is in force changes in one command,
\* whatever fails or dies.
AtomicUntilInterrupt ==
  [][Redirects' # Redirects /\ budget'["cancel"] = Budget["cancel"] =>
       Redirects' \in {start.rules, target.rules}]_vars

\* What README.md:31 says of it: the switch is atomic.
AtomicSwitch == [][Redirects' # Redirects => Redirects' \in {start.rules, target.rules}]_vars

\* A call that met no trouble leaves no chain behind but the active generation and
\* what jumps to it: orphans of earlier calls are gone.
NoLitter ==
  [][pc = "return" /\ pc' = "idle" =>
       /\ nat'.entry <=> target # Absent
       /\ DOMAIN nat'.gens = {nat'.jumps[i] : i \in DOMAIN nat'.jumps}]_vars

\* Whole calls do what FamilyOutcomes says, the contract the transaction manager is
\* modelled against.
Calls == INSTANCE FamilyCalls WITH
  family <- IF pc = "idle" THEN Parse ELSE start, last <- last
KeepsContract == Calls!Spec

\* A call that meets no trouble of its own succeeds, whatever happened to the calls
\* before it: repair works after a crash.
UndisturbedCallSucceeds == [][pc' = "undo" /\ pc # "undo" => trouble' # NoTrouble]_vars

(* Termination *)

\* How far a call is from its return: the stage it is in, and what the stage still has
\* to do.
Stage ==
  CASE pc = "snapshot" -> 9  [] pc = "new chain" -> 8  [] pc = "append" -> 7
    [] pc = "new entry" -> 6 [] pc = "add anchor" -> 5 [] pc \in {"activate", "switch"} -> 4
    [] pc = "delete anchor" -> 3 [] pc = "flush entry" -> 2
    [] pc \in {"flush", "remove"} -> 1
    [] OTHER -> 0
Left ==
  CASE pc = "append" -> Cardinality(todo)
    [] pc = "flush" -> 2 * Cardinality(obsolete) + 1
    [] pc = "remove" -> 2 * Cardinality(obsolete)
    [] pc = "delete entry" -> 6
    [] pc = "undo" -> Len(undo)
    [] OTHER -> 0

\* Every command of a call brings it closer to its return, whatever fails, is refused or
\* is killed: no loop over chains or over deferred commands goes round without removing
\* one, and no error path leads back.  With a step always possible (no deadlock), every
\* call returns.
CallsAdvance ==
  [][pc # "idle" => pc' = "idle" \/ Stage' < Stage \/ (Stage' = Stage /\ Left' < Left)]_vars

\* Every call returns.
CallsReturn == pc # "idle" ~> pc = "idle"
================================================================================
