------------------------------ MODULE AtomicStore ------------------------------
(***************************************************************************)
(* What the transaction manager promises its callers: a command either     *)
(* replaces the committed rule set and the rules the firewall enforces in  *)
(* one step, or changes neither.  There is no third outcome.               *)
(***************************************************************************)
EXTENDS RuleModel

CONSTANT Clients

VARIABLES
  rules,     \* the committed rule set
  enforced,  \* the rules the firewall enforces between commands
  verdict    \* what became of each client's command

storeVars == <<rules, enforced, verdict>>

Init ==
  /\ Normal(rules)
  /\ enforced = rules.on
  /\ verdict = [c \in Clients |-> "open"]

Decide(c, v) == verdict[c] = "open" /\ verdict' = [verdict EXCEPT ![c] = v]

Commit(c) ==
  /\ Decide(c, "committed")
  /\ Normal(rules')
  /\ enforced' = rules'.on

Abort(c) == Decide(c, "aborted") /\ UNCHANGED <<rules, enforced>>

Next == \E c \in Clients : Commit(c) \/ Abort(c)

Spec == Init /\ [][Next]_storeVars
================================================================================
