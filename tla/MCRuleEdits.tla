------------------------------ MODULE MCRuleEdits ------------------------------
(* A small instance of RuleEdits for TLC. *)
EXTENDS RuleEdits

Key(ip, proto, lo, hi, to) ==
  [ip |-> ip, proto |-> proto, lo |-> lo, hi |-> hi, to |-> to]

\* Ranges that touch, overlap and nest, the same range to another target, in another
\* family and with another protocol, and a key Validate rejects.
MCKeys == {Key(4, "tcp", 1, 2, 9), Key(4, "tcp", 2, 3, 9), Key(4, "tcp", 1, 2, 8),
           Key(6, "tcp", 1, 2, 9), Key(4, "udp", 1, 4, 9), Key(4, "tcp", 4, 65535, 65535)}
MCKeySets ==
  {{}, {Key(4, "tcp", 1, 2, 9)}, {Key(4, "tcp", 1, 2, 9), Key(4, "tcp", 2, 3, 9)},
   {Key(4, "tcp", 2, 3, 9), Key(6, "tcp", 1, 2, 9)},
   {Key(4, "tcp", 1, 2, 8), Key(4, "tcp", 4, 65535, 65535)}}
================================================================================
