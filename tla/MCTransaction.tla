---------------------------- MODULE MCTransaction ----------------------------
(* Small instances of Transaction for TLC. *)
EXTENDS Transaction, TLC

Key(ip, lo, hi) == [ip |-> ip, proto |-> "udp", lo |-> lo, hi |-> hi, to |-> 9]

\* Two adjacent IPv4 ranges, a third that overlaps both, and one IPv6 range.
Low   == Key(4, 1, 2)
High  == Key(4, 3, 4)
Wide  == Key(4, 2, 3)
Six   == Key(6, 1, 2)

MCKeys == {Low, High, Wide, Six}
Set(K) == [all |-> Parsed(K), on |-> Parsed(K)]
MCInitialSets == {EmptySet, Set({Low, Six})}

NoForeign == {}
ForeignHigh == {Key(4, 4, 7)}

AddOp(k) == [kind |-> "add", key |-> k]
DeleteOp(k) == [kind |-> "delete", id |-> k]
ToggleOp(k, on) == [kind |-> "toggle", id |-> k, enabled |-> on]
EditOp(k, new) == [kind |-> "edit", id |-> k, key |-> new]
ReplaceOp(K) == [kind |-> "replace", keys |-> K]
MergeOp(K) == [kind |-> "merge", keys |-> K]
Clear == [kind |-> "clear"]
RestoreBackup == [kind |-> "restore"]
Reconcile == [kind |-> "reconcile"]

\* Ordinary commands.
MutatingOps == {AddOp(High), AddOp(Wide), ToggleOp(Six, FALSE), EditOp(Low, Wide),
                Clear, RestoreBackup}
ImportOps == {ReplaceOp({High, Six}), MergeOp({High, Six})}
\* Ordinary commands and reconcile, as few as leave two keys that overlap.
AllOps == {AddOp(High), ToggleOp(Six, FALSE), EditOp(Low, Wide), RestoreBackup, Reconcile}

\* One disturbance of each of the kinds in D, none of the others.
OneOf(D) == [d \in Disturbances |-> IF d \in D THEN 1 ELSE 0]
OneFailure == OneOf({"fail"})
OneInterrupt == OneOf({"cancel"})
OneRemoval == OneOf({"back", "tidy"})
OneOfEach == OneOf(Disturbances)
Undisturbed == OneOf({})

Symmetric == Permutations(Procs)
================================================================================
