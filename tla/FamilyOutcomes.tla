---------------------------- MODULE FamilyOutcomes ----------------------------
(***************************************************************************)
(* What one call of the firewall backend may leave behind in the NAT table *)
(* of one IP family: the contract between the command-level model of       *)
(* internal/firewall (IPTables) and the transaction manager, which only    *)
(* sees whole calls.                                                       *)
(*                                                                         *)
(* snapshotFamily sees a family in one of three modes: PMM's chains are    *)
(* absent, they are managed and hold some rules, or they are in a state it *)
(* refuses to interpret ("drift": ErrStateDrift or ErrOwnershipConflict).  *)
(* Generation chains nothing refers to are left out here.                  *)
(***************************************************************************)
EXTENDS RuleModel

Managed(R) == [mode |-> "managed", rules |-> R]
Absent == [mode |-> "absent", rules |-> {}]
Drift == [mode |-> "drift", rules |-> {}]

FamilyState ==
  {k \in [mode : {"absent", "drift", "managed"}, rules : SUBSET Rule] :
     k.mode # "managed" => k.rules = {}}

Readable(k) == k.mode # "drift"

(* A call brings family state k to a target: applyFamily when the target is *)
(* managed, deleteFamily when it is Absent.  It needs k to be readable.     *)

Only(condition, k) == IF condition THEN {k} ELSE {}

\* One command failed without effect.  applyFamily fails before or after the one
\* command that switches the entry chain; deleteFamily may leave a half of it.
AfterFailure(k, target) ==
  IF target.mode = "managed" THEN {k, target} ELSE {k} \cup Only(k.mode = "managed", Drift)

\* The process died inside the call.  Nothing undoes a half-made entry chain.
AfterCrash(k, target) == {k, target} \cup Only(k.mode # target.mode, Drift)

\* The context was cancelled: the running command was killed, with or without its
\* effect, and every later command of the call fails except applyFamily's deferred
\* cleanup, which flushes a candidate chain the killed command had just activated.
AfterKill(k, target) ==
  AfterCrash(k, target)
    \cup Only(k.mode = "managed" /\ target.mode = "managed", Managed({}))

\* Killed, and then the cleanup failed or the process died.
AfterKillAndMore(k, target) ==
  AfterKill(k, target) \cup Only(target.mode = "managed", Managed({}))
================================================================================
