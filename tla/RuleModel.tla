------------------------------- MODULE RuleModel -------------------------------
(***************************************************************************)
(* The rule model (internal/model) and the edits the application layer     *)
(* (internal/app) makes to a rule set.  Everything here is a constant      *)
(* operator: no variables, no state.                                       *)
(*                                                                         *)
(* A rule has an identifier and a canonical key, the record of the five    *)
(* parameters a firewall rule is made of.  The identifier EnsureID derives *)
(* from a key by hashing is the key itself (hash collisions are left out); *)
(* the identifiers ensureUniqueID draws at random are RandomIds.  Labels   *)
(* and time stamps are left out: nothing below depends on them.            *)
(***************************************************************************)
EXTENDS Naturals, FiniteSets

CONSTANTS
  Keys,        \* the canonical keys a caller can ask for, valid or not
  RandomIds    \* the identifiers crypto/rand can return

MaxPort == 65535
Families == {4, 6}

KeyType == [ip : Nat, proto : STRING, lo : 0..MaxPort, hi : 0..MaxPort, to : 0..MaxPort]

ASSUME KeysAssumption == Keys \subseteq KeyType
ASSUME IdsAssumption == Keys \cap RandomIds = {}

Ids == Keys \cup RandomIds
Rule == [id : Ids, key : Keys]

\* A rule set: all its rules, and which of them are enabled.
RuleSet == [all : SUBSET Rule, on : SUBSET Rule]
EmptySet == [all |-> {}, on |-> {}]

IdsOf(s) == {r.id : r \in s.all}
KeysOf(s) == {r.key : r \in s.all}

--------------------------------------------------------------------------------
(* Rule.Validate and RuleSet.Normalize *)

Validate(k) ==
  /\ k.ip \in Families
  /\ k.proto \in {"tcp", "udp"}
  /\ k.lo # 0 /\ k.hi # 0 /\ k.to # 0
  /\ k.lo <= k.hi
  /\ ~(k.lo <= k.to /\ k.to <= k.hi)

SameTraffic(j, k) == j.ip = k.ip /\ j.proto = k.proto

\* Mutant: ranges that share one port pass as disjoint.
OverlapsStrictly(j, k) == SameTraffic(j, k) /\ j.lo < k.hi /\ j.hi > k.lo

Overlaps(j, k) == SameTraffic(j, k) /\ j.lo <= k.hi /\ j.hi >= k.lo

UniqueIds(R) == \A r, q \in R : r.id = q.id => r = q
UniqueKeys(R) == \A r, q \in R : r.key = q.key => r = q
NoOverlap(R) == \A r, q \in R : r # q => ~Overlaps(r.key, q.key)

\* Normalize returns no error.  Identifiers and keys must be unique among all
\* rules, port ranges disjoint among the enabled ones only.
Normal(s) ==
  /\ s.on \subseteq s.all
  /\ \A r \in s.all : Validate(r.key)
  /\ UniqueIds(s.all)
  /\ UniqueKeys(s.all)
  /\ NoOverlap(s.on)

--------------------------------------------------------------------------------
(* The edits of internal/app.  Each returns the set of rule sets it may     *)
(* hand to the transaction manager, empty when it refuses.                  *)

\* Mutant: no random identifier when the derived one is taken.
DerivedIdOnly(k, used) == {k} \ used

\* ensureUniqueID: the derived identifier unless it is taken, else a random one.
FreeIds(k, used) == IF k \notin used THEN {k} ELSE RandomIds \ used

Add(k, s) ==
  IF ~Validate(k) \/ k \in KeysOf(s) THEN {}
  ELSE {[all |-> s.all \cup {r}, on |-> s.on \cup {r}] :
          r \in {[id |-> i, key |-> k] : i \in FreeIds(k, IdsOf(s))}}

\* mutate: the rule with identifier i, if there is one.
Carrier(i, s) == {r \in s.all : r.id = i}

Delete(i, s) ==
  {[all |-> s.all \ {r}, on |-> s.on \ {r}] : r \in Carrier(i, s)}

Toggle(i, enabled, s) ==
  {[all |-> s.all, on |-> IF enabled THEN s.on \cup {r} ELSE s.on \ {r}] :
     r \in Carrier(i, s)}

Edit(i, k, s) ==
  LET new == [id |-> i, key |-> k] IN
    {[all |-> (s.all \ {r}) \cup {new},
      on  |-> IF r \in s.on THEN (s.on \ {r}) \cup {new} ELSE s.on] : r \in Carrier(i, s)}

\* The rules ParsePipe makes of the imported keys, all of them enabled.
Parsed(K) == {[id |-> k, key |-> k] : k \in K}

ImportReplace(K, s) ==
  IF \E k \in K : ~Validate(k) THEN {} ELSE {[all |-> Parsed(K), on |-> Parsed(K)]}

\* The imported keys that are not in the rule set yet.
NewKeys(K, s) == K \ KeysOf(s)

ImportMerge(K, s) ==
  LET new == NewKeys(K, s)
      Assign == {f \in [new -> Ids] : \A j, k \in new :
                   f[k] \in FreeIds(k, IdsOf(s)) /\ (f[j] = f[k] => j = k)}
      Rules(f) == {[id |-> f[k], key |-> k] : k \in new}
  IN IF \E k \in K : ~Validate(k) THEN {}
     ELSE {[all |-> s.all \cup Rules(f), on |-> s.on \cup Rules(f)] : f \in Assign}

\* Mutant: disabled rules are exported too, and come back enabled.
ExportAll(s) == KeysOf(s)

\* WritePipe: the keys of the enabled rules.
Export(s) == {r.key : r \in s.on}

\* An edit requested by a command: a record with its kind and arguments.
Edits(op, s) ==
  CASE op.kind = "add"     -> Add(op.key, s)
    [] op.kind = "delete"  -> Delete(op.id, s)
    [] op.kind = "toggle"  -> Toggle(op.id, op.enabled, s)
    [] op.kind = "edit"    -> Edit(op.id, op.key, s)
    [] op.kind = "clear"   -> {EmptySet}
    [] op.kind = "replace" -> ImportReplace(op.keys, s)
    [] op.kind = "merge"   -> ImportMerge(op.keys, s)

\* App.sameEnabledRules and transaction.sameEnabledRules: the database's enabled
\* rules are the kernel's rules, compared by identifier and canonical key.
SameEnabledRules(s, kernelRules) == s.on = kernelRules

--------------------------------------------------------------------------------
(* What Normal is for, stated without port arithmetic. *)

Ports(k) == k.lo .. k.hi

\* At most one enabled rule redirects any given packet.
OneOwner(R) ==
  \A r, q \in R :
    SameTraffic(r.key, q.key) /\ (Ports(r.key) \cap Ports(q.key)) # {} => r = q
================================================================================
