------------------------------- MODULE RuleEdits -------------------------------
(***************************************************************************)
(* The rule editor as one user sees it when nothing else runs: a sequence  *)
(* of the edits internal/app offers, each computed from the committed rule *)
(* set and committed if Normalize accepts it.  Checks that the rules about *)
(* identifiers, canonical keys and overlapping ranges fit together.        *)
(***************************************************************************)
EXTENDS RuleModel

CONSTANT KeySets   \* what an import file may hold

ASSUME KeySetsAssumption == KeySets \subseteq SUBSET Keys

VARIABLE set       \* the committed rule set

EditorInit == set = EmptySet

\* Mutant: the rule set is committed without Normalize.
CommitUnchecked(offered) == \E s \in offered : set' = s

\* Tx.Apply of one of the offered rule sets, undisturbed.
Commit(offered) == \E s \in offered : Normal(s) /\ set' = s

AddRule == \E k \in Keys : Commit(Add(k, set))
DeleteRule == \E i \in Ids : Commit(Delete(i, set))
ToggleRule == \E i \in Ids, enabled \in BOOLEAN : Commit(Toggle(i, enabled, set))
EditRule == \E i \in Ids, k \in Keys : Commit(Edit(i, k, set))
ClearRules == Commit({EmptySet})
ImportRules == \E K \in KeySets : Commit(ImportReplace(K, set)) \/ Commit(ImportMerge(K, set))

EditorNext == AddRule \/ DeleteRule \/ ToggleRule \/ EditRule \/ ClearRules \/ ImportRules

EditorSpec == EditorInit /\ [][EditorNext]_set

--------------------------------------------------------------------------------

\* The committed rule set is one, and Decode would load it again.
EditorTypeOK == set \in RuleSet /\ Normal(set)

\* Comparing range ends pairwise is enough: no packet has two enabled rules.
OnePortOneRule == OneOwner(set.on)

SurvivesExport(s) ==
  LET back == ImportReplace(Export(s), s)
  IN /\ back # {} /\ \A t \in back : Normal(t) /\ Export(t) = Export(s)
     /\ ImportMerge(Export(s), s) = {s}

\* Replacing the rules by an export of them keeps exactly the enabled keys: the pipe
\* format loses identifiers and disabled rules, and never makes a file Normalize
\* would reject.  Merging an export into the rule set it came from changes nothing.
ExportImports == SurvivesExport(set)

HasRoom(s) ==
  \A k \in Keys :
    /\ Validate(k) /\ k \notin KeysOf(s)
    /\ \A r \in s.on : ~Overlaps(r.key, k)
    /\ ~(RandomIds \subseteq IdsOf(s))
    => \E t \in Add(k, s) : Normal(t)

\* As long as random identifiers are left, a valid new key that overlaps no enabled
\* rule can always be added, even when its derived identifier is still carried by a
\* rule that was edited away from it.
FreePortsCanBeAdded == HasRoom(set)
================================================================================
