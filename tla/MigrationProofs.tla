---------------------------- MODULE MigrationProofs ----------------------------
(***************************************************************************)
(* Migrations take turns; no redirect that is to survive goes out of force *)
(* while one goes forward; success is whole; and one failure gives version *)
(* 5 its rules and its service back: for any number of migrations, any     *)
(* lists of v5 rules and any number of failures and crashes.               *)
(***************************************************************************)
EXTENDS Migration, FiniteSetTheorems, SequenceTheorems, TLAPS

Working == Forward \cup Backward

\* The state of every migration is a function of the migration.
Functional ==
  /\ pc \in [Procs -> Resting \cup Working]
  /\ plan = [p \in Procs |-> plan[p]]

\* Whoever is at work has the lock.
OneAtWork == \A p \in Procs : pc[p] \in Working => lock = p

\* Until its transaction, a migration has changed no rule.
NothingTouched ==
  \A p \in Procs : pc[p] \in Before => legacy = start.legacy /\ managed = start.managed

\* After it, its rules are in the managed chains.
Installed == \A p \in Procs : pc[p] \in {"delete", "log"} => managed = plan[p].rules

IInv == Functional /\ OneAtWork /\ NothingTouched /\ Installed

LEMMA InitIInv == Init => IInv
BY DEF Init, IInv, Functional, OneAtWork, NothingTouched, Installed, Working, Forward,
       Backward, Before, Resting

\* A migration that returns, whatever it reports, works no more.
LEMMA EndKeeps ==
  ASSUME IInv, NEW p \in Procs, NEW res, End(p, res), lock = p \/ UNCHANGED machine
  PROVE  IInv'
<1>1. pc' = [pc EXCEPT ![p] = "done"] /\ plan' = [plan EXCEPT ![p] = NoPlan] /\ start' = start
      /\ lock' = IF lock = p THEN Free ELSE lock
  BY DEF End, Put
<1>2. \A q \in Procs : pc'[q] \in Working => q # p /\ pc'[q] = pc[q] /\ plan'[q] = plan[q]
  BY <1>1 DEF IInv, Functional, Working, Forward, Backward, Before
<1>3. Functional'
  BY <1>1 DEF IInv, Functional, Resting
<1>4. OneAtWork'
  BY <1>1, <1>2 DEF IInv, OneAtWork
<1>5. CASE lock = p
  <2>1. \A q \in Procs : pc'[q] \notin Working
    BY <1>2, <1>5 DEF IInv, OneAtWork
  <2> QED
    BY <1>3, <1>4, <2>1 DEF IInv, NothingTouched, Installed, Working, Forward
<1>6. CASE UNCHANGED machine
  <2>1. \A q \in Procs : pc'[q] \in Forward => pc'[q] \in Working
    BY DEF Working
  <2>2. Before \subseteq Forward /\ {"delete", "log"} \subseteq Forward
    BY DEF Forward
  <2> QED
    BY <1>1, <1>2, <1>3, <1>4, <1>6, <2>1, <2>2 DEF IInv, NothingTouched, Installed, machine
<1> QED
  BY <1>5, <1>6

\* What a migration at work has to see to when it goes on: its own part of the invariant.
LEMMA MoveKeeps ==
  ASSUME IInv, NEW p \in Procs, NEW step \in Working, Move(p, step), pc[p] \in Working,
         step \in Before => pc[p] \in Before /\ UNCHANGED <<legacy, managed>>,
         step \in {"delete", "log"} => managed' = plan[p].rules
  PROVE  IInv'
<1>1. pc' = [pc EXCEPT ![p] = step] /\ UNCHANGED <<lock, plan, start>>
  BY DEF Move, Put
<1>2. lock = p
  BY DEF IInv, OneAtWork
<1>3. \A q \in Procs : q # p => pc'[q] = pc[q] /\ pc[q] \notin Working
  BY <1>1, <1>2 DEF IInv, Functional, OneAtWork
<1>4. pc'[p] = step
  BY <1>1 DEF IInv, Functional
<1>5. Functional' /\ OneAtWork'
  BY <1>1, <1>2, <1>3, <1>4 DEF IInv, Functional, OneAtWork
<1>6. \A q \in Procs : pc'[q] \in Forward => q = p
  BY <1>3 DEF Working
<1>7. NothingTouched' /\ Installed'
  BY <1>1, <1>4, <1>6 DEF IInv, NothingTouched, Installed, Forward
<1> QED
  BY <1>5, <1>7 DEF IInv

\* The same for a step that leads to the end or to the restoration of the v5 service.
LEMMA UnwindKeeps ==
  ASSUME IInv, NEW p \in Procs, Unwind(p), pc[p] \in Working
  PROVE  IInv'
<1>1. lock = p
  BY DEF IInv, OneAtWork
<1>2. CASE End(p, "error")
  BY <1>1, <1>2, EndKeeps
<1>3. CASE Go(p, "unit")
  <2>1. Move(p, "unit") /\ "unit" \in Working /\ "unit" \notin Forward
    BY <1>3 DEF Go, Working, Forward, Backward, Before
  <2> QED
    BY <2>1, MoveKeeps DEF Forward
<1> QED
  BY <1>2, <1>3 DEF Unwind

LEMMA NextIInv == IInv /\ [Next]_vars => IInv'
<1> SUFFICES ASSUME IInv, [Next]_vars PROVE IInv'
  OBVIOUS
<1>1. CASE UNCHANGED vars
  BY <1>1 DEF vars, machine, IInv, Functional, OneAtWork, NothingTouched, Installed
<1> SUFFICES ASSUME NEW p \in Procs,
                    \/ Plan(p) \/ AskEnabled(p) \/ AskActive(p) \/ PlanError(p)
                    \/ Acquire(p) \/ Journal(p) \/ DropService(p) \/ RemoveUnit(p) \/ Forget(p)
                    \/ Prepare(p) \/ DeleteLegacy(p) \/ Commit(p) \/ Log(p)
                    \/ DeleteManaged(p) \/ Discover(p) \/ Clear(p) \/ AppendRule(p)
                    \/ Restored(p) \/ WriteUnit(p) \/ Reload(p) \/ Enable(p) \/ Activate(p)
                    \/ Crash(p)
             PROVE  IInv'
  BY <1>1 DEF Next
<1> USE DEF At
<1>2. Before \subseteq Working /\ {"delete", "log"} \subseteq Working /\ Backward \subseteq Working
      /\ Backward \cap Forward = {} /\ Free \notin Procs
  BY ProcsAssumption DEF Working, Forward, Backward, Before
<1>3. \A step \in Backward : step \notin Before /\ step \notin {"delete", "log"}
  BY DEF Backward, Before
<1>4. ASSUME NEW step \in Backward, pc[p] \in Working, Move(p, step) PROVE IInv'
  BY <1>2, <1>3, <1>4, MoveKeeps
<1>5. CASE Plan(p) \/ AskEnabled(p) \/ AskActive(p)
  <2>1. PICK step \in {"ask enabled", "ask active", "waiting"} :
          /\ pc' = [pc EXCEPT ![p] = step] /\ UNCHANGED <<legacy, managed, lock, start>>
          /\ pc[p] \in {"start", "ask enabled", "ask active"}
    <3>1. CASE Plan(p)
      BY <3>1 DEF Plan, Put, machine
    <3>2. CASE AskEnabled(p) \/ AskActive(p)
      BY <3>2 DEF AskEnabled, AskActive, Ask, Put, machine
    <3> QED
      BY <1>5, <3>1, <3>2
  <2>2. PICK x : plan' = [plan EXCEPT ![p] = x]
    <3>1. CASE Plan(p)
      BY <3>1 DEF Plan, Put
    <3>2. CASE UNCHANGED plan
      <4>1. plan' = [plan EXCEPT ![p] = plan[p]]
        BY <3>2 DEF IInv, Functional
      <4> QED
        BY <4>1
    <3>3. CASE AskEnabled(p) \/ AskActive(p)
      BY <3>2, <3>3 DEF AskEnabled, AskActive, Ask, Put
    <3> QED
      BY <1>5, <3>1, <3>3
  <2>3. Functional'
    BY <2>1, <2>2 DEF IInv, Functional, Resting
  <2>4. \A q \in Procs : pc'[q] \in Working => pc'[q] = pc[q] /\ plan'[q] = plan[q]
    BY <2>1, <2>2 DEF IInv, Functional, Working, Forward, Backward, Before
  <2> QED
    BY <1>2, <2>1, <2>3, <2>4 DEF IInv, OneAtWork, NothingTouched, Installed
<1>6. CASE PlanError(p)
  BY <1>6, EndKeeps DEF PlanError
<1>7. CASE Acquire(p)
  <2>1. /\ pc' = [pc EXCEPT ![p] = "journal"] /\ UNCHANGED <<legacy, managed, plan>>
        /\ lock = Free /\ lock' = p
        /\ start'.legacy = legacy /\ start'.managed = managed
    BY <1>7 DEF Acquire, Put, machine, Now
  <2>2. \A q \in Procs : pc[q] \notin Working
    BY <1>2, <2>1 DEF IInv, OneAtWork
  <2>3. \A q \in Procs : pc'[q] \in Working => q = p
    BY <2>1, <2>2 DEF IInv, Functional
  <2>4. "journal" \in Before /\ "journal" \notin {"delete", "log"} /\ pc'[p] = "journal"
    BY <2>1 DEF IInv, Functional, Before
  <2>5. Functional'
    BY <1>2, <2>1, <2>4 DEF IInv, Functional
  <2> QED
    BY <1>2, <2>1, <2>3, <2>4, <2>5 DEF IInv, OneAtWork, NothingTouched, Installed
<1>8. CASE Journal(p)
  <2>1. pc[p] \in Working /\ pc[p] \in Before
    BY <1>2, <1>8 DEF Journal, Before
  <2>2. CASE End(p, "error")
    BY <2>1, <2>2, EndKeeps DEF IInv, OneAtWork
  <2>3. CASE UNCHANGED machine /\ \E step \in {"prepare", "drop", "remove"} : Move(p, step)
    BY <1>2, <2>1, <2>3, MoveKeeps DEF Before, machine
  <2> QED
    BY <1>8, <2>2, <2>3 DEF Journal, Attempt, Go
<1>9. CASE DropService(p) \/ RemoveUnit(p) \/ Forget(p)
  <2>1. pc[p] \in Working /\ pc[p] \in Before
    BY <1>2, <1>9 DEF DropService, RemoveUnit, Forget, Before
  <2>2. CASE Unwind(p)
    BY <2>1, <2>2, UnwindKeeps
  <2>3. CASE UNCHANGED <<legacy, managed>>
             /\ \E step \in {"remove", "forget", "prepare"} : Move(p, step)
    BY <1>2, <2>1, <2>3, MoveKeeps DEF Before
  <2>4. Unwind(p) \/ (/\ UNCHANGED <<legacy, managed>>
                      /\ \E step \in {"remove", "forget", "prepare"} : Move(p, step))
    BY <1>9 DEF DropService, RemoveUnit, Forget, Attempt, Go, UnitBecomes, machine
  <2> QED
    BY <2>2, <2>3, <2>4
<1>10. CASE Prepare(p)
  <2>1. pc[p] \in Working
    BY <1>2, <1>10 DEF Prepare, Before
  <2>2. CASE Unwind(p)
    BY <2>1, <2>2, UnwindKeeps
  <2>3. CASE managed' = plan[p].rules /\ Move(p, "delete")
    BY <1>2, <2>1, <2>3, MoveKeeps DEF Before
  <2> QED
    BY <1>10, <2>2, <2>3 DEF Prepare, ChainsBecome, DoList
<1>11. CASE DeleteLegacy(p) \/ Commit(p)
  <2>1. pc[p] \in Working /\ managed = plan[p].rules
    BY <1>2, <1>11 DEF DeleteLegacy, Commit, IInv, Installed
  <2>2. CASE Move(p, "managed")
    BY <1>4, <2>1, <2>2 DEF Backward
  <2>3. CASE UNCHANGED managed /\ \E step \in {"delete", "log"} : Move(p, step)
    BY <1>2, <2>1, <2>3, MoveKeeps DEF Before
  <2>4. Move(p, "managed") \/ (UNCHANGED managed /\ \E step \in {"delete", "log"} : Move(p, step))
    BY <1>11 DEF DeleteLegacy, Commit, DeleteOne, Attempt, DoList, Go
  <2> QED
    BY <2>2, <2>3, <2>4
<1>12. CASE Log(p) \/ Crash(p)
  <2>1. lock = p
    BY <1>2, <1>12 DEF Log, Crash, IInv, OneAtWork
  <2> QED
    BY <1>12, <2>1, EndKeeps DEF Log, Crash, Attempt
<1>13. CASE DeleteManaged(p) \/ Discover(p) \/ Reload(p) \/ WriteUnit(p) \/ Enable(p)
  <2>1. pc[p] \in Working
    BY <1>2, <1>13 DEF DeleteManaged, Discover, Reload, WriteUnit, Enable, Backward
  <2>2. (\E step \in Backward : Move(p, step)) \/ End(p, "error")
    BY <1>13 DEF DeleteManaged, Discover, Reload, WriteUnit, Enable, Attempt, DoList, Go,
                 Backward
  <2>3. lock = p
    BY <2>1 DEF IInv, OneAtWork
  <2> QED
    BY <1>4, <2>1, <2>2, <2>3, EndKeeps
<1>14. CASE Clear(p) \/ AppendRule(p) \/ Restored(p)
  <2>1. pc[p] \in Working
    BY <1>2, <1>14 DEF Clear, AppendRule, Restored, Backward
  <2>2. (\E step \in Backward : Move(p, step)) \/ Unwind(p)
    BY <1>14 DEF Clear, AppendRule, Restored, DeleteOne, Attempt, DoList, Backward
  <2> QED
    BY <1>4, <2>1, <2>2, UnwindKeeps
<1>15. CASE Activate(p)
  <2>1. lock = p
    BY <1>2, <1>15 DEF Activate, Backward, IInv, OneAtWork
  <2> QED
    BY <1>15, <2>1, EndKeeps DEF Activate
<1> QED
  BY <1>5, <1>6, <1>7, <1>8, <1>9, <1>10, <1>11, <1>12, <1>13, <1>14, <1>15

\* A redirect that is to survive the migration is in force at every point of its way
\* forward (migration.go:125-175): its v5 rule or its v6 rule is in the kernel.
THEOREM RedirectsSurvive == Spec => []RulesStayInForce
<1>1. IInv => RulesStayInForce
  BY DEF IInv, NothingTouched, Installed, RulesStayInForce, Forward
<1> QED
  BY <1>1, InitIInv, NextIInv, PTL DEF Spec

\* Migrations take turns (migration.go:125-129): two are never at work together.
THEOREM MigrationsTakeTurns ==
  Spec => [](\A p, q \in Procs : pc[p] \in Working /\ pc[q] \in Working => p = q)
<1>1. IInv => \A p, q \in Procs : pc[p] \in Working /\ pc[q] \in Working => p = q
  BY DEF IInv, OneAtWork
<1> QED
  BY <1>1, InitIInv, NextIInv, PTL DEF Spec

--------------------------------------------------------------------------------
(* Rules that are deleted one by one *)

\* How often x stands in a list, and lists that hold the same rules as often.
Count(s, x) == Cardinality({i \in DOMAIN s : s[i] = x})
SameBag(s, t) == \A x \in AllRules : Count(s, x) = Count(t, x)

LEMMA CountType ==
  ASSUME NEW S, NEW s \in Seq(S), NEW x
  PROVE  IsFiniteSet({i \in DOMAIN s : s[i] = x}) /\ Count(s, x) \in Nat
<1>1. IsFiniteSet(1..Len(s)) /\ DOMAIN s = 1..Len(s)
  BY FS_Interval
<1>2. IsFiniteSet({i \in DOMAIN s : s[i] = x})
  BY <1>1, FS_Subset
<1> QED
  BY <1>2, FS_CardinalityType DEF Count

\* A list in reverse holds the same.
LEMMA ReverseList ==
  ASSUME NEW S, NEW s \in Seq(S)
  PROVE  /\ Reverse(s) \in Seq(S) /\ Len(Reverse(s)) = Len(s)
         /\ \A x : Count(Reverse(s), x) = Count(s, x)
<1>1. Len(s) \in Nat /\ DOMAIN s = 1..Len(s) /\ \A i \in 1..Len(s) : s[i] \in S
  BY LenProperties
<1>2. DOMAIN Reverse(s) = 1..Len(s) /\ \A i \in 1..Len(s) : Reverse(s)[i] = s[Len(s) - i + 1]
  BY <1>1 DEF Reverse
<1>3. Reverse(s) \in Seq(S) /\ Len(Reverse(s)) = Len(s)
  BY <1>1 DEF Reverse
<1>4. ASSUME NEW x PROVE Count(Reverse(s), x) = Count(s, x)
  <2> DEFINE A == {i \in DOMAIN Reverse(s) : Reverse(s)[i] = x}
             B == {i \in DOMAIN s : s[i] = x}
             turn == [i \in A |-> Len(s) - i + 1]
  <2>1. A \subseteq 1..Len(s) /\ B \subseteq 1..Len(s)
    BY <1>1, <1>2
  <2>2. \A i \in 1..Len(s) : Len(s) - i + 1 \in 1..Len(s) /\ Len(s) - (Len(s) - i + 1) + 1 = i
    BY <1>1
  <2>3. \A i \in A : Len(s) - i + 1 \in B
    BY <1>1, <1>2, <2>2
  <2>4. \A i \in B : Len(s) - i + 1 \in A
    BY <1>1, <1>2, <2>2
  <2>5. turn \in [A -> B]
    BY <2>3
  <2>6. \A i, j \in A : turn[i] = turn[j] => i = j
    BY <1>1, <2>1
  <2>7. \A i \in B : \E j \in A : turn[j] = i
    BY <2>1, <2>2, <2>4
  <2>8. turn \in Bijection(A, B)
    BY <2>5, <2>6, <2>7 DEF Bijection, Injection, Surjection, IsInjective
  <2>9. IsFiniteSet(A)
    BY <1>3, CountType
  <2> HIDE DEF turn
  <2>10. Cardinality(B) = Cardinality(A)
    BY <2>8, <2>9, FS_Bijection DEF ExistsBijection
  <2> QED
    BY <2>10 DEF Count
<1> QED
  BY <1>3, <1>4

\* A list without its k-th element holds that one once less.
LEMMA ListWithout ==
  ASSUME NEW S, NEW s \in Seq(S), NEW t \in Seq(S), NEW k \in 1..Len(s),
         Len(t) = Len(s) - 1,
         \A i \in 1..Len(t) : t[i] = s[IF i < k THEN i ELSE i + 1]
  PROVE  \A x : Count(t, x) = IF s[k] = x THEN Count(s, x) - 1 ELSE Count(s, x)
<1>1. Len(s) \in Nat /\ Len(t) \in Nat /\ DOMAIN s = 1..Len(s) /\ DOMAIN t = 1..Len(t)
  BY LenProperties
<1> SUFFICES ASSUME NEW x
             PROVE  Count(t, x) = IF s[k] = x THEN Count(s, x) - 1 ELSE Count(s, x)
  OBVIOUS
<1> DEFINE A == {i \in DOMAIN t : t[i] = x}
           B == {i \in DOMAIN s : s[i] = x}
           place(i) == IF i < k THEN i ELSE i + 1
           shift == [i \in A |-> place(i)]
<1>2. A \subseteq 1..Len(t) /\ B \subseteq 1..Len(s) /\ k \in Int
  BY <1>1
<1>3. \A i \in 1..Len(t) : place(i) \in 1..Len(s) /\ place(i) # k
  BY <1>1
<1>4. \A i \in A : place(i) \in B \ {k}
  BY <1>1, <1>3
<1>5. \A j \in B \ {k} : \E i \in A : place(i) = j
  <2> SUFFICES ASSUME NEW j \in B \ {k} PROVE \E i \in A : place(i) = j
    OBVIOUS
  <2>1. j \in 1..Len(s) /\ s[j] = x /\ j # k
    BY <1>1
  <2>2. CASE j < k
    <3>1. j \in 1..Len(t) /\ place(j) = j
      BY <1>1, <2>1, <2>2
    <3> QED
      BY <1>1, <2>1, <3>1
  <2>3. CASE j > k
    <3>1. j - 1 \in 1..Len(t) /\ place(j - 1) = j
      BY <1>1, <2>1, <2>3
    <3> QED
      BY <1>1, <2>1, <3>1
  <2> QED
    BY <1>2, <2>1, <2>2, <2>3
<1>6. \A i, j \in A : place(i) = place(j) => i = j
  BY <1>2
<1>7. shift \in Bijection(A, B \ {k})
  <2>1. shift \in [A -> B \ {k}]
    BY <1>4
  <2>2. \A i, j \in A : shift[i] = shift[j] => i = j
    BY <1>6
  <2>3. \A j \in B \ {k} : \E i \in A : shift[i] = j
    BY <1>5
  <2> HIDE DEF shift, A, B
  <2> QED
    BY <2>1, <2>2, <2>3 DEF Bijection, Injection, Surjection, IsInjective
<1>8. IsFiniteSet(A) /\ IsFiniteSet(B)
  BY CountType
<1> HIDE DEF shift
<1>9. Cardinality(B \ {k}) = Cardinality(A)
  BY <1>7, <1>8, FS_Bijection DEF ExistsBijection
<1>10. Cardinality(B \ {k}) = IF k \in B THEN Cardinality(B) - 1 ELSE Cardinality(B)
  BY <1>8, FS_RemoveElement
<1>11. k \in B <=> s[k] = x
  BY <1>1
<1> QED
  BY <1>9, <1>10, <1>11 DEF Count

LEMMA TailWithout ==
  ASSUME NEW S, NEW s \in Seq(S), s # <<>>
  PROVE  /\ Tail(s) \in Seq(S) /\ Head(s) \in S /\ Len(Tail(s)) = Len(s) - 1
         /\ \A x : Count(Tail(s), x) = IF Head(s) = x THEN Count(s, x) - 1 ELSE Count(s, x)
<1>1. /\ Tail(s) \in Seq(S) /\ Head(s) \in S /\ Len(Tail(s)) = Len(s) - 1
      /\ Head(s) = s[1] /\ 1 \in 1..Len(s)
      /\ \A i \in 1..Len(Tail(s)) : Tail(s)[i] = s[i + 1]
  BY HeadTailProperties, EmptySeq
<1>2. \A i \in 1..Len(Tail(s)) : Tail(s)[i] = s[IF i < 1 THEN i ELSE i + 1]
  BY <1>1
<1> DEFINE t == Tail(s)
<1>3. t \in Seq(S) /\ Len(t) = Len(s) - 1 /\ \A i \in 1..Len(t) : t[i] = s[IF i < 1 THEN i ELSE i + 1]
  BY <1>1, <1>2
<1> HIDE DEF t
<1>4. \A x : Count(t, x) = IF s[1] = x THEN Count(s, x) - 1 ELSE Count(s, x)
  BY <1>1, <1>3, ListWithout
<1> QED
  BY <1>1, <1>4 DEF t

LEMMA RemoveWithout ==
  ASSUME NEW S, NEW s \in Seq(S), NEW k \in 1..Len(s)
  PROVE  /\ RemoveAt(s, k) \in Seq(S)
         /\ \A x : Count(RemoveAt(s, k), x) = IF s[k] = x THEN Count(s, x) - 1 ELSE Count(s, x)
<1> DEFINE left == SubSeq(s, 1, k - 1)
           right == SubSeq(s, k + 1, Len(s))
           t == RemoveAt(s, k)
<1>1. Len(s) \in Nat /\ k \in Int /\ 1 <= k /\ k <= Len(s)
  BY LenProperties
<1>2. left \in Seq(S) /\ Len(left) = k - 1 /\ \A i \in 1..k-1 : left[i] = s[i]
  BY <1>1
<1>3. right \in Seq(S) /\ Len(right) = Len(s) - k /\ \A i \in 1..Len(s)-k : right[i] = s[k + i]
  BY <1>1
<1>4. t = left \o right
  BY DEF RemoveAt
<1> HIDE DEF left, right
<1>5. t \in Seq(S) /\ Len(t) = Len(s) - 1
  BY <1>1, <1>2, <1>3, <1>4
<1>6. \A i \in 1..Len(t) : t[i] = s[IF i < k THEN i ELSE i + 1]
  <2> SUFFICES ASSUME NEW i \in 1..Len(t) PROVE t[i] = s[IF i < k THEN i ELSE i + 1]
    OBVIOUS
  <2>1. t[i] = IF i <= Len(left) THEN left[i] ELSE right[i - Len(left)]
    BY <1>2, <1>3, <1>4, <1>5
  <2>2. CASE i < k
    BY <1>1, <1>2, <2>1, <2>2
  <2>3. CASE ~(i < k)
    <3>1. i - (k - 1) \in 1..Len(s)-k /\ k + (i - (k - 1)) = i + 1 /\ ~(i <= Len(left))
      BY <1>1, <1>2, <1>5, <2>3
    <3> QED
      BY <1>2, <1>3, <2>1, <2>3, <3>1
  <2> QED
    BY <2>2, <2>3
<1> HIDE DEF t
<1>7. \A x : Count(t, x) = IF s[k] = x THEN Count(s, x) - 1 ELSE Count(s, x)
  BY <1>5, <1>6, ListWithout
<1> QED
  BY <1>5, <1>7 DEF t

\* A list that holds what the empty one does is empty.
LEMMA NothingLeft ==
  ASSUME NEW s \in Seq(AllRules), NEW t \in Seq(AllRules), t = <<>>, SameBag(s, t)
  PROVE  s = <<>>
<1>1. DOMAIN t = {}
  BY LenProperties, EmptySeq
<1>2. \A x : Count(t, x) = 0
  BY <1>1, FS_EmptySet DEF Count
<1>3. DOMAIN s = {}
  <2> SUFFICES ASSUME NEW k \in DOMAIN s PROVE FALSE
    OBVIOUS
  <2>1. s[k] \in AllRules
    BY LenProperties
  <2>2. Count(s, s[k]) = 0
    BY <1>2, <2>1 DEF SameBag
  <2>3. {i \in DOMAIN s : s[i] = s[k]} = {}
    BY <2>2, CountType, FS_EmptySet DEF Count
  <2> QED
    BY <2>3
<1>4. Len(s) \in Nat /\ DOMAIN s = 1..Len(s)
  BY LenProperties
<1>5. Len(s) = 0
  BY <1>3, <1>4
<1> QED
  BY <1>5, EmptySeq

\* The rule to delete is there, when it is among those the list holds.
LEMMA HeadMatches ==
  ASSUME legacy \in Seq(AllRules), NEW t \in Seq(AllRules), t # <<>>, SameBag(legacy, t)
  PROVE  Matches(Head(t)) # {}
<1> DEFINE T == {i \in DOMAIN legacy : legacy[i] = Head(t)}
<1>1. Head(t) = t[1] /\ 1 \in DOMAIN t /\ Head(t) \in AllRules
  BY LenProperties, EmptySeq
<1>2. T # {}
  <2> SUFFICES ASSUME T = {} PROVE FALSE
    OBVIOUS
  <2>1. Count(legacy, Head(t)) = 0
    BY FS_EmptySet DEF Count
  <2>2. Count(t, Head(t)) = 0
    BY <1>1, <2>1 DEF SameBag
  <2>3. {i \in DOMAIN t : t[i] = Head(t)} = {}
    BY <2>2, CountType, FS_EmptySet DEF Count
  <2> QED
    BY <1>1, <2>3
<1>3. DOMAIN legacy = 1..Len(legacy) /\ T \subseteq Nat
  BY LenProperties
<1>4. PICK i \in T : \A j \in T : ~(j < i)
  <2> HIDE DEF T
  <2>1. \E i \in T : \A j \in T : ~(<<j, i>> \in OpToRel(<, Nat))
    BY <1>2, <1>3, NatLessThanWellFounded, WFMin
  <2> QED
    BY <1>3, <2>1 DEF OpToRel
<1>5. \A j \in 1..i-1 : legacy[j] # Head(t)
  BY <1>3, <1>4
<1> QED
  BY <1>4, <1>5 DEF Matches

\* Deleting the first match of a list's first rule leaves the rest of the list.
LEMMA BagsShrink ==
  ASSUME legacy \in Seq(AllRules), NEW t \in Seq(AllRules), t # <<>>, SameBag(legacy, t),
         NEW i \in Matches(Head(t))
  PROVE  RemoveAt(legacy, i) \in Seq(AllRules) /\ SameBag(RemoveAt(legacy, i), Tail(t))
<1>1. i \in 1..Len(legacy) /\ legacy[i] = Head(t)
  BY LenProperties DEF Matches
<1>2. RemoveAt(legacy, i) \in Seq(AllRules)
  BY <1>1, RemoveWithout
<1>3. \A x : Count(RemoveAt(legacy, i), x)
               = IF Head(t) = x THEN Count(legacy, x) - 1 ELSE Count(legacy, x)
  BY <1>1, RemoveWithout
<1>4. \A x : Count(Tail(t), x) = IF Head(t) = x THEN Count(t, x) - 1 ELSE Count(t, x)
  BY TailWithout
<1> QED
  BY <1>2, <1>3, <1>4 DEF SameBag

--------------------------------------------------------------------------------
(* What a migration leaves *)

Plans == [rules : SUBSET AllRules, kernel : Seq(AllRules), owned : BOOLEAN,
          enabled : BOOLEAN, active : BOOLEAN]
Databases == [rules : SUBSET AllRules, gen : 0..2]
Machines == [legacy : Seq(AllRules), managed : SUBSET AllRules, db : Databases,
             unit : Unit, failures : Nat]

MachineTyped ==
  /\ legacy \in Seq(AllRules) /\ managed \subseteq AllRules /\ db \in Databases
  /\ unit \in Unit
  /\ budget \in [Disturbances -> Nat]

\* TypeOK, with the tables as functions, and that only who is done has a result.
Shaped ==
  /\ MachineTyped
  /\ legacyDb \subseteq AllRules /\ start \in Machines
  /\ plan \in [Procs -> Plans] /\ todo \in [Procs -> Seq(AllRules)]
  /\ result \in [Procs -> {"none", "error", "COMMITTED", "UNLOGGED", "died"}]
  /\ \A p \in Procs : lock = p => pc[p] \in Working
  /\ \A p \in Procs : pc[p] # "done" => result[p] = "none"

\* The failures there were since a migration got the lock; and that nobody changed v5's
\* rules between its plan and its lock.
Used == start.failures - budget["fail"]
Kept(p) == plan[p].kernel = start.legacy

Service == {"unit", "reload", "enable", "activate"}
AtRules == {"managed", "discover", "clear", "append"}

\* Something has failed on the way back.
FailuresCount(p) ==
  /\ pc[p] \in Forward => Used >= 0
  /\ pc[p] \in Backward /\ Kept(p) => Used >= 1

\* The database changes with the last write, after which nothing is taken back.
DatabaseKept(p) ==
  /\ pc[p] \in Working \ {"log"} => db = start.db
  /\ pc[p] = "log" => db.rules = plan[p].rules

\* The v5 rules that are there: all of them, those still to delete, none, or, after one
\* failure, as many as have been put back.
RulesKept(p) ==
  Kept(p) =>
    /\ pc[p] \in Before => legacy = start.legacy
    /\ pc[p] = "delete" => SameBag(legacy, todo[p])
    /\ pc[p] = "log" => legacy = <<>>
    /\ pc[p] = "clear" => todo[p] # <<>> /\ SameBag(legacy, todo[p])
    /\ Used <= 1 =>
         /\ pc[p] = "append" => legacy \o todo[p] = plan[p].kernel
         /\ pc[p] \in Service => legacy = start.legacy

Gone(u) == WithFile(DisabledNow(u), "none")

\* The v5 service: as it was, stopped, gone, or as much of it as has been put back.
UnitKept(p) ==
  Timely(p) =>
    /\ pc[p] \in {"journal", "drop"} => unit = start.unit
    /\ pc[p] = "remove" => unit = DisabledNow(start.unit)
    /\ pc[p] = "forget" => unit = Gone(start.unit)
    /\ pc[p] \in {"prepare", "delete", "log"} \cup AtRules =>
         unit = IF plan[p].owned THEN Gone(start.unit) ELSE start.unit
    /\ pc[p] \in Service =>
         (unit.enabled => start.unit.enabled) /\ (unit.active => start.unit.active)
    /\ pc[p] \in {"reload", "enable", "activate"} => unit.file = "v5"
    /\ pc[p] = "activate" /\ Used <= 1 => unit.enabled = start.unit.enabled

OwnsService(p) == pc[p] \in Service \cup {"drop", "remove", "forget"} => plan[p].owned

Course(p) ==
  FailuresCount(p) /\ DatabaseKept(p) /\ RulesKept(p) /\ UnitKept(p) /\ OwnsService(p)

JInv == IInv /\ Shaped /\ \A p \in Procs : Course(p)

\* A migration that does not work is bound to nothing.
LEMMA Idle ==
  ASSUME NEW p \in Procs, pc[p] \notin Working
  PROVE  Course(p)
BY DEF Course, FailuresCount, DatabaseKept, RulesKept, UnitKept, OwnsService, Working,
       Forward, Backward, Before, Service, AtRules

LEMMA PlansFit == NoPlan \in Plans /\ <<>> \in Seq(AllRules)
BY DEF NoPlan, Plans

LEMMA ListsFit == ASSUME NEW l \in RuleLists PROVE l \in Seq(AllRules) /\ ToSet(l) \subseteq AllRules
<1>1. l \in Seq(ToSet(l)) /\ ToSet(l) \subseteq AllRules
  BY ListsAssumption DEF AllRules
<1>2. Len(l) \in Nat /\ DOMAIN l = 1..Len(l) /\ \A i \in 1..Len(l) : l[i] \in AllRules
  BY <1>1, LenProperties
<1>3. l = [i \in 1..Len(l) |-> l[i]]
  BY <1>1, <1>2
<1> QED
  BY <1>1, <1>2, <1>3

LEMMA KernelFits == ASSUME NEW l \in Seq(AllRules) PROVE ToSet(l) \subseteq AllRules
BY LenProperties DEF ToSet

LEMMA InitJInv == Init => JInv
<1> SUFFICES ASSUME Init PROVE JInv
  OBVIOUS
<1>1. IInv
  BY InitIInv
<1>2. \A p \in Procs : pc[p] \notin Working
  BY DEF Init, Working, Forward, Backward, Before
<1>3. legacy \in Seq(AllRules) /\ legacyDb \subseteq AllRules
  BY ListsFit DEF Init
<1>4. managed \subseteq AllRules /\ db \in Databases /\ unit \in Unit
  BY DEF Init, AllRules, Databases
<1>5. budget \in [Disturbances -> Nat]
  BY BudgetAssumption DEF Init
<1>6. MachineTyped
  BY <1>3, <1>4, <1>5 DEF MachineTyped
<1>7. start \in Machines
  BY <1>6 DEF Init, Now, Machines, MachineTyped, Disturbances
<1>8. /\ plan \in [Procs -> Plans] /\ todo \in [Procs -> Seq(AllRules)]
      /\ result \in [Procs -> {"none", "error", "COMMITTED", "UNLOGGED", "died"}]
      /\ \A p \in Procs : lock # p /\ result[p] = "none"
  BY PlansFit, ProcsAssumption DEF Init
<1>9. Shaped
  BY <1>3, <1>6, <1>7, <1>8 DEF Shaped
<1> QED
  BY <1>1, <1>2, <1>9, Idle DEF JInv

LEMMA UsedType == ASSUME Shaped PROVE Used \in Int
BY DEF Shaped, MachineTyped, Machines, Used, Disturbances

LEMMA NoCost ==
  ASSUME Shaped, UNCHANGED <<budget, start>>
  PROVE  Used' = Used /\ budget' \in [Disturbances -> Nat]
BY DEF Shaped, MachineTyped, Used

LEMMA OneCost ==
  ASSUME Shaped, Spend("fail"), UNCHANGED start
  PROVE  Used' = Used + 1 /\ budget' \in [Disturbances -> Nat]
<1>1. budget \in [Disturbances -> Nat] /\ start.failures \in Nat /\ "fail" \in Disturbances
  BY DEF Shaped, MachineTyped, Machines, Disturbances
<1>2. budget["fail"] > 0 /\ budget["fail"] \in Nat /\ budget' = [budget EXCEPT !["fail"] = @ - 1]
  BY <1>1 DEF Spend
<1>3. budget'["fail"] = budget["fail"] - 1 /\ budget["fail"] - 1 \in Nat
  BY <1>1, <1>2
<1>4. budget' \in [Disturbances -> Nat]
  BY <1>1, <1>2, <1>3
<1> QED
  BY <1>1, <1>2, <1>3, <1>4 DEF Used

LEMMA TwoCosts ==
  ASSUME Shaped, budget["fail"] >= 2, budget' = [budget EXCEPT !["fail"] = @ - 2],
         UNCHANGED start
  PROVE  Used' = Used + 2 /\ budget' \in [Disturbances -> Nat]
<1>1. budget \in [Disturbances -> Nat] /\ start.failures \in Nat /\ "fail" \in Disturbances
  BY DEF Shaped, MachineTyped, Machines, Disturbances
<1>2. budget["fail"] \in Nat /\ budget'["fail"] = budget["fail"] - 2 /\ budget["fail"] - 2 \in Nat
  BY <1>1
<1>3. budget' \in [Disturbances -> Nat]
  BY <1>1, <1>2
<1> QED
  BY <1>1, <1>2, <1>3 DEF Used

LEMMA CrashCost ==
  ASSUME Shaped, Spend("crash")
  PROVE  budget' \in [Disturbances -> Nat]
BY DEF Shaped, MachineTyped, Disturbances, Spend

\* A migration goes on: the others do not work.
LEMMA MoveCourse ==
  ASSUME JInv, IInv', NEW p \in Procs, NEW step \in Working, NEW list \in Seq(AllRules),
         pc[p] \in Working, Move(p, step), todo' = Put(todo, p, list), MachineTyped',
         pc'[p] = step /\ todo'[p] = list => Course(p)'
  PROVE  JInv'
<1>1. lock = p /\ pc' = [pc EXCEPT ![p] = step] /\ todo' = [todo EXCEPT ![p] = list]
      /\ UNCHANGED <<lock, plan, result, start, legacyDb>>
      /\ pc \in [Procs -> Resting \cup Working] /\ todo \in [Procs -> Seq(AllRules)]
  BY DEF JInv, IInv, Functional, OneAtWork, Shaped, Move, Put
<1>2. pc'[p] = step /\ todo'[p] = list
  BY <1>1
<1>3. \A q \in Procs : q # p => pc'[q] \notin Working
  BY <1>1 DEF JInv, IInv, OneAtWork
<1>4. \A q \in Procs : q # p => Course(q)'
  <2> SUFFICES ASSUME NEW q \in Procs, q # p PROVE Course(q)'
    OBVIOUS
  <2>1. pc'[q] \notin Working
    BY <1>3
  <2> QED
    BY <2>1 DEF Course, FailuresCount, DatabaseKept, RulesKept, UnitKept, OwnsService, Working,
                Forward, Backward, Before, Service, AtRules
<1>5. \A q \in Procs : pc'[q] # "done" => result'[q] = "none"
  BY <1>1 DEF JInv, Shaped, Working, Forward, Backward, Before
<1>6. todo' \in [Procs -> Seq(AllRules)]
  BY <1>1
<1>7. \A q \in Procs : lock' = q => pc'[q] \in Working
  BY <1>1, <1>2
<1>8. Shaped'
  BY <1>1, <1>5, <1>6, <1>7 DEF JInv, Shaped
<1> QED
  BY <1>2, <1>4, <1>8 DEF JInv

\* A migration returns: none works any more.
LEMMA EndCourse ==
  ASSUME JInv, IInv', NEW p \in Procs, lock = p, MachineTyped',
         NEW res \in {"error", "COMMITTED", "UNLOGGED", "died"}, End(p, res)
  PROVE  JInv'
<1>1. /\ pc' = [pc EXCEPT ![p] = "done"] /\ result' = [result EXCEPT ![p] = res]
      /\ lock' = Free /\ plan' = [plan EXCEPT ![p] = NoPlan]
      /\ todo' = [todo EXCEPT ![p] = <<>>] /\ UNCHANGED <<start, legacyDb>>
      /\ pc \in [Procs -> Resting \cup Working]
  BY DEF End, Put, JInv, IInv, Functional
<1>2. \A q \in Procs : pc'[q] \notin Working
  BY <1>1, ProcsAssumption DEF JInv, IInv, OneAtWork, Working, Forward, Backward, Before
<1>3. \A q \in Procs : Course(q)'
  <2> SUFFICES ASSUME NEW q \in Procs PROVE Course(q)'
    OBVIOUS
  <2>1. pc'[q] \notin Working
    BY <1>2
  <2> QED
    BY <2>1 DEF Course, FailuresCount, DatabaseKept, RulesKept, UnitKept, OwnsService, Working,
                Forward, Backward, Before, Service, AtRules
<1>4. /\ plan' \in [Procs -> Plans] /\ todo' \in [Procs -> Seq(AllRules)]
      /\ result' \in [Procs -> {"none", "error", "COMMITTED", "UNLOGGED", "died"}]
  BY <1>1, PlansFit DEF JInv, Shaped
<1>5. \A q \in Procs : pc'[q] # "done" => result'[q] = "none"
  BY <1>1 DEF JInv, Shaped
<1>6. \A q \in Procs : lock' # q
  BY <1>1, ProcsAssumption
<1>7. Shaped'
  BY <1>1, <1>4, <1>5, <1>6 DEF JInv, Shaped
<1> QED
  BY <1>3, <1>7 DEF JInv

\* What a migration passes on to the restoration of the v5 service, or leaves.
LEMMA UnwindCourse ==
  ASSUME JInv, IInv', NEW p \in Procs, Unwind(p), pc[p] \in Working \ {"log"}, MachineTyped',
         UNCHANGED db,
         Kept(p) => Used' >= 1 /\ (Used' <= 1 => legacy' = start.legacy),
         Timely(p) => (unit'.enabled => start.unit.enabled) /\ (unit'.active => start.unit.active)
  PROVE  JInv'
<1>1. lock = p
  BY DEF JInv, IInv, OneAtWork
<1>2. CASE End(p, "error")
  BY <1>1, <1>2, EndCourse
<1>3. CASE plan[p].owned /\ Go(p, "unit")
  <2>1. /\ Move(p, "unit") /\ todo[p] \in Seq(AllRules) /\ todo' = Put(todo, p, todo[p])
        /\ "unit" \in Working /\ UNCHANGED <<plan, start>>
    BY <1>3 DEF Go, Move, Put, JInv, Shaped, Working, Backward
  <2>2. ASSUME pc'[p] = "unit" PROVE Course(p)'
    <3> USE <2>2
    <3>1. FailuresCount(p)'
      BY <2>1 DEF FailuresCount, Forward, Before, Kept
    <3>2. DatabaseKept(p)'
      BY <2>1 DEF DatabaseKept, JInv, Course
    <3>3. RulesKept(p)'
      BY <2>1 DEF RulesKept, Kept, Before
    <3>4. UnitKept(p)'
      BY <2>1 DEF UnitKept, Timely, AtRules
    <3>5. OwnsService(p)'
      BY <1>3, <2>1 DEF OwnsService
    <3> QED
      BY <3>1, <3>2, <3>3, <3>4, <3>5 DEF Course
  <2> QED
    BY <2>1, <2>2, MoveCourse
<1> QED
  BY <1>2, <1>3 DEF Unwind

\* A step that fails before a rule was changed.
LEMMA EarlyFailure ==
  ASSUME JInv, IInv', NEW p \in Procs, pc[p] \in Before, Unwind(p), UNCHANGED <<legacy, db, unit>>,
         managed' \subseteq AllRules, budget' \in [Disturbances -> Nat], Used' >= 1
  PROVE  JInv'
<1>1. pc[p] \in Working \ {"log"}
  BY DEF Before, Forward, Working
<1>2. MachineTyped'
  BY DEF JInv, Shaped, MachineTyped
<1>3. Course(p)
  BY DEF JInv
<1>4. Kept(p) => legacy' = start.legacy
  BY <1>3 DEF Course, RulesKept
<1>5. Timely(p) => (unit'.enabled => start.unit.enabled) /\ (unit'.active => start.unit.active)
  <2>1. unit = start.unit \/ unit = DisabledNow(start.unit) \/ unit = Gone(start.unit) \/ ~Timely(p)
    BY <1>3 DEF Course, UnitKept, Before
  <2>2. start.unit \in Unit
    BY DEF JInv, Shaped, Machines
  <2> QED
    BY <2>1, <2>2 DEF Gone, WithFile, DisabledNow, Disabled, Stopped, Unit
<1> QED
  BY <1>1, <1>2, <1>4, <1>5, UnwindCourse

\* A step on the way to the transaction that works.
LEMMA EarlyStep ==
  ASSUME JInv, IInv', NEW p \in Procs, pc[p] \in Before, NEW step \in Before, Go(p, step),
         UNCHANGED <<legacy, managed, db, budget>>, unit' \in Unit,
         Timely(p) => /\ step = "drop" => unit' = start.unit
                      /\ step = "remove" => unit' = DisabledNow(start.unit)
                      /\ step = "forget" => unit' = Gone(start.unit)
                      /\ step = "prepare" =>
                           unit' = IF plan[p].owned THEN Gone(start.unit) ELSE start.unit,
         step # "journal", step # "prepare" => plan[p].owned
  PROVE  JInv'
<1>1. pc[p] \in Working \ {"log"} /\ pc[p] \in Forward /\ step \in Forward /\ step \in Working
      /\ step \notin Backward /\ step \notin Service \cup AtRules \cup {"delete", "log", "journal"}
  BY DEF Before, Forward, Working, Backward, Service, AtRules
<1>2. MachineTyped'
  BY DEF JInv, Shaped, MachineTyped
<1>3. Course(p)
  BY DEF JInv
<1>4. /\ Move(p, step) /\ todo[p] \in Seq(AllRules) /\ todo' = Put(todo, p, todo[p])
      /\ UNCHANGED <<plan, start>>
  BY DEF Go, Move, Put, JInv, Shaped
<1>5. ASSUME pc'[p] = step, todo'[p] = todo[p] PROVE Course(p)'
  <2>1. Used' = Used
    BY <1>4, NoCost DEF JInv
  <2>2. FailuresCount(p)'
    BY <1>1, <1>3, <1>5, <2>1 DEF Course, FailuresCount
  <2>3. DatabaseKept(p)'
    BY <1>1, <1>3, <1>4, <1>5 DEF Course, DatabaseKept
  <2>4. RulesKept(p)'
    BY <1>1, <1>3, <1>4, <1>5 DEF Course, RulesKept, Kept, AtRules
  <2>5. UnitKept(p)'
    BY <1>1, <1>4, <1>5 DEF UnitKept, Timely, Service
  <2>6. OwnsService(p)'
    BY <1>1, <1>4, <1>5 DEF OwnsService
  <2> QED
    BY <2>2, <2>3, <2>4, <2>5, <2>6 DEF Course
<1> QED
  BY <1>1, <1>2, <1>4, <1>5, MoveCourse

LEMMA JournalCourse == ASSUME JInv, IInv', NEW p \in Procs, Journal(p) PROVE JInv'
<1>1. At(p, "journal") /\ pc[p] \in Before /\ pc[p] \in Working /\ lock = p /\ Course(p)
  BY DEF Journal, At, Before, Working, Forward, JInv, IInv, OneAtWork
<1>2. start.unit \in Unit /\ unit \in Unit /\ plan[p] \in Plans
  BY DEF JInv, Shaped, MachineTyped, Machines
<1>3. Timely(p) => unit = start.unit
  BY <1>1 DEF Course, UnitKept, At
<1>4. CASE /\ UNCHANGED <<machine, budget>>
           /\ Go(p, CASE ~plan[p].owned -> "prepare"
                      [] plan[p].owned /\ (plan[p].enabled \/ plan[p].active) -> "drop"
                      [] OTHER -> "remove")
  <2>1. CASE ~plan[p].owned
    <3>1. Go(p, "prepare")
      BY <1>4, <2>1, Zenon
    <3> QED
      BY <1>1, <1>2, <1>3, <1>4, <2>1, <3>1, EarlyStep DEF machine, Before
  <2>2. CASE plan[p].owned /\ (plan[p].enabled \/ plan[p].active)
    <3>1. Go(p, "drop")
      BY <1>4, <2>2
    <3> QED
      BY <1>1, <1>2, <1>3, <1>4, <2>2, <3>1, EarlyStep DEF machine, Before
  <2>3. CASE plan[p].owned /\ ~(plan[p].enabled \/ plan[p].active)
    <3>1. Go(p, "remove")
      BY <1>4, <2>3
    <3>2. Timely(p) => ~start.unit.enabled /\ ~start.unit.active
      BY <2>3 DEF Timely
    <3>3. Timely(p) => unit = DisabledNow(start.unit)
      BY <1>2, <1>3, <3>2 DEF DisabledNow, Disabled, Stopped, Unit
    <3> QED
      BY <1>1, <1>2, <1>4, <2>3, <3>1, <3>3, EarlyStep DEF machine, Before
  <2> QED
    BY <2>1, <2>2, <2>3
<1>5. CASE Spend("fail") /\ End(p, "error") /\ UNCHANGED machine
  <2>1. budget' \in [Disturbances -> Nat]
    BY <1>5, OneCost DEF JInv, End
  <2>2. MachineTyped'
    BY <1>5, <2>1 DEF JInv, Shaped, MachineTyped, machine
  <2> QED
    BY <1>1, <1>5, <2>2, EndCourse
<1> QED
  BY <1>4, <1>5 DEF Journal, Attempt

LEMMA UnitSteps ==
  ASSUME JInv, IInv', NEW p \in Procs, DropService(p) \/ RemoveUnit(p) \/ Forget(p)
  PROVE  JInv'
<1>1. pc[p] \in {"drop", "remove", "forget"} /\ pc[p] \in Before /\ Course(p)
  BY DEF DropService, RemoveUnit, Forget, At, Before, JInv
<1>2. start.unit \in Unit /\ unit \in Unit /\ managed \subseteq AllRules
  BY DEF JInv, Shaped, MachineTyped, Machines
<1>3. plan[p].owned /\ Used \in Int /\ Used >= 0
  BY <1>1, UsedType DEF JInv, Course, OwnsService, FailuresCount, Forward
<1>4. Timely(p) => /\ pc[p] = "drop" => unit = start.unit
                   /\ pc[p] = "remove" => unit = DisabledNow(start.unit)
                   /\ pc[p] = "forget" => unit = Gone(start.unit)
  BY <1>1 DEF Course, UnitKept
<1>5. DisabledNow(unit) \in Unit /\ WithFile(unit, "none") \in Unit
  BY <1>2 DEF DisabledNow, Disabled, Stopped, WithFile, Unit, Texts
<1>6. CASE /\ Go(p, "remove") /\ unit' = DisabledNow(unit) /\ pc[p] = "drop"
           /\ UNCHANGED <<legacy, managed, db, budget>>
  <2>1. "remove" \in Before
    BY DEF Before
  <2> QED
    BY <1>1, <1>3, <1>4, <1>5, <1>6, <2>1, EarlyStep
<1>7. CASE /\ Go(p, "forget") /\ unit' = WithFile(unit, "none") /\ pc[p] = "remove"
           /\ UNCHANGED <<legacy, managed, db, budget>>
  <2>1. "forget" \in Before
    BY DEF Before
  <2> QED
    BY <1>1, <1>3, <1>4, <1>5, <1>7, <2>1, EarlyStep DEF Gone
<1>8. CASE Go(p, "prepare") /\ pc[p] = "forget" /\ UNCHANGED <<machine, budget>>
  <2>1. "prepare" \in Before
    BY DEF Before
  <2> QED
    BY <1>1, <1>2, <1>3, <1>4, <1>8, <2>1, EarlyStep DEF machine
<1>9. CASE Spend("fail") /\ Unwind(p) /\ UNCHANGED machine
  <2>1. UNCHANGED start
    BY <1>9 DEF Unwind, Go, Move, End
  <2>2. Used' = Used + 1 /\ budget' \in [Disturbances -> Nat]
    BY <1>9, <2>1, OneCost DEF JInv
  <2>3. Used' >= 1
    BY <1>3, <2>2
  <2> QED
    BY <1>1, <1>2, <1>9, <2>2, <2>3, EarlyFailure DEF machine
<1>10. \/ Spend("fail") /\ Unwind(p) /\ UNCHANGED machine
       \/ /\ Go(p, "remove") /\ unit' = DisabledNow(unit) /\ pc[p] = "drop"
          /\ UNCHANGED <<legacy, managed, db, budget>>
       \/ /\ Go(p, "forget") /\ unit' = WithFile(unit, "none") /\ pc[p] = "remove"
          /\ UNCHANGED <<legacy, managed, db, budget>>
       \/ Go(p, "prepare") /\ pc[p] = "forget" /\ UNCHANGED <<machine, budget>>
  BY DEF DropService, RemoveUnit, Forget, Attempt, UnitBecomes, At
<1> QED
  BY <1>6, <1>7, <1>8, <1>9, <1>10

\* A migration goes on with its v5 rules: the unit and the database stay.
LEMMA RulesStep ==
  ASSUME JInv, IInv', NEW p \in Procs, pc[p] \in Working \ ({"log"} \cup Service),
         NEW step \in {"delete"} \cup AtRules, NEW list \in Seq(AllRules), DoList(p, step, list),
         UNCHANGED <<db, unit>>, legacy' \in Seq(AllRules), managed' \subseteq AllRules,
         budget' \in [Disturbances -> Nat],
         Timely(p) => unit = IF plan[p].owned THEN Gone(start.unit) ELSE start.unit,
         step = "delete" => Used' >= 0,
         step # "delete" /\ Kept(p) => Used' >= 1,
         Kept(p) =>
           /\ step = "delete" => SameBag(legacy', list)
           /\ step = "clear" => list # <<>> /\ SameBag(legacy', list)
           /\ step = "append" /\ Used' <= 1 => legacy' \o list = plan[p].kernel
  PROVE  JInv'
<1>1. /\ step \in Working /\ step # "log" /\ step \notin Before /\ step \notin Service
      /\ step \in Forward => step = "delete"
      /\ step \in Backward => step # "delete"
      /\ step \notin {"journal", "drop", "remove", "forget", "reload", "enable", "activate"}
      /\ pc[p] \in Working
  BY DEF AtRules, Working, Forward, Backward, Before, Service
<1>2. /\ Move(p, step) /\ todo' = Put(todo, p, list) /\ UNCHANGED <<plan, start>>
  BY DEF DoList, Move
<1>3. MachineTyped'
  BY DEF JInv, Shaped, MachineTyped
<1>4. Course(p)
  BY DEF JInv
<1>5. ASSUME pc'[p] = step, todo'[p] = list PROVE Course(p)'
  <2>1. FailuresCount(p)'
    BY <1>1, <1>2, <1>5 DEF FailuresCount, Kept
  <2>2. DatabaseKept(p)'
    BY <1>1, <1>2, <1>4, <1>5 DEF Course, DatabaseKept
  <2>3. RulesKept(p)'
    BY <1>1, <1>2, <1>5 DEF RulesKept, Kept, SameBag
  <2>4. UnitKept(p)'
    BY <1>1, <1>2, <1>5 DEF UnitKept, Timely
  <2>5. OwnsService(p)'
    BY <1>1, <1>5 DEF OwnsService
  <2> QED
    BY <2>1, <2>2, <2>3, <2>4, <2>5 DEF Course
<1> QED
  BY <1>1, <1>2, <1>3, <1>5, MoveCourse

LEMMA PrepareCourse == ASSUME JInv, IInv', NEW p \in Procs, Prepare(p) PROVE JInv'
<1>1. At(p, "prepare") /\ pc[p] \in Before /\ pc[p] \in Working \ ({"log"} \cup Service) /\ Course(p)
  BY DEF Prepare, At, Before, Working, Forward, Service, JInv
<1>2. plan[p] \in Plans /\ Shaped /\ legacy \in Seq(AllRules) /\ managed \subseteq AllRules
      /\ plan[p].rules \subseteq AllRules /\ plan[p].kernel \in Seq(AllRules)
  BY DEF JInv, Shaped, MachineTyped, Plans
<1>3. Used \in Int /\ Used >= 0
  BY <1>1, UsedType DEF JInv, Course, FailuresCount, Forward
<1>4. CASE /\ ChainsBecome(plan[p].rules) /\ UNCHANGED budget
           /\ DoList(p, "delete", Reverse(plan[p].kernel))
  <2>1. /\ Reverse(plan[p].kernel) \in Seq(AllRules)
        /\ SameBag(plan[p].kernel, Reverse(plan[p].kernel))
    BY <1>2, ReverseList DEF SameBag
  <2>2. Used' = Used /\ budget' \in [Disturbances -> Nat]
    BY <1>2, <1>4, NoCost DEF DoList, Move
  <2>3. Kept(p) => SameBag(legacy', Reverse(plan[p].kernel))
    BY <1>1, <1>4, <2>1 DEF Kept, Course, RulesKept, ChainsBecome, SameBag
  <2>4. Timely(p) => unit = IF plan[p].owned THEN Gone(start.unit) ELSE start.unit
    BY <1>1 DEF Course, UnitKept, At
  <2> QED
    BY <1>1, <1>2, <1>3, <1>4, <2>1, <2>2, <2>3, <2>4, RulesStep DEF ChainsBecome
<1>5. CASE /\ UNCHANGED <<legacy, db, unit>> /\ managed' \subseteq AllRules /\ Unwind(p)
           /\ Used' >= 1 /\ budget' \in [Disturbances -> Nat]
  BY <1>1, <1>5, EarlyFailure
<1>6. Unwind(p) => UNCHANGED start
  BY DEF Unwind, Go, Move, End
<1>7. CASE /\ Spend("fail") /\ Unwind(p)
           /\ ChainsBecome(managed) \/ ChainsBecome(plan[p].rules)
  <2>1. Used' = Used + 1 /\ budget' \in [Disturbances -> Nat]
    BY <1>2, <1>6, <1>7, OneCost
  <2>2. Used' >= 1
    BY <1>3, <2>1
  <2> QED
    BY <1>2, <1>5, <1>7, <2>1, <2>2 DEF ChainsBecome
<1>8. CASE /\ budget["fail"] >= 2 /\ budget' = [budget EXCEPT !["fail"] = @ - 2]
           /\ \E left \in SUBSET (managed \cup plan[p].rules) : ChainsBecome(left)
           /\ Unwind(p)
  <2>1. Used' = Used + 2 /\ budget' \in [Disturbances -> Nat]
    BY <1>2, <1>6, <1>8, TwoCosts
  <2>2. Used' >= 1
    BY <1>3, <2>1
  <2>3. UNCHANGED <<legacy, db, unit>> /\ managed' \subseteq AllRules
    BY <1>2, <1>8 DEF ChainsBecome
  <2> QED
    BY <1>5, <1>8, <2>1, <2>2, <2>3
<1> QED
  BY <1>4, <1>7, <1>8 DEF Prepare

LEMMA DeleteCourse == ASSUME JInv, IInv', NEW p \in Procs, DeleteLegacy(p) PROVE JInv'
<1>1. pc[p] = "delete" /\ pc[p] \in Working \ ({"log"} \cup Service) /\ Course(p)
  BY DEF DeleteLegacy, At, Working, Forward, Service, JInv
<1>2. Shaped /\ legacy \in Seq(AllRules) /\ managed \subseteq AllRules /\ todo[p] \in Seq(AllRules)
      /\ todo[p] # <<>>
  BY DEF JInv, Shaped, MachineTyped, DeleteLegacy
<1>3. Used \in Int /\ Used >= 0 /\ (Kept(p) => SameBag(legacy, todo[p]))
  BY <1>1, UsedType DEF JInv, Course, FailuresCount, RulesKept, Forward
<1>4. Timely(p) => unit = IF plan[p].owned THEN Gone(start.unit) ELSE start.unit
  BY <1>1 DEF Course, UnitKept
<1>5. Tail(todo[p]) \in Seq(AllRules)
  BY <1>2, TailWithout
<1>6. CASE /\ \E i \in Matches(Head(todo[p])) : legacy' = RemoveAt(legacy, i)
           /\ UNCHANGED <<managed, db, unit, budget>> /\ DoList(p, "delete", Tail(todo[p]))
  <2>1. PICK i \in Matches(Head(todo[p])) : legacy' = RemoveAt(legacy, i)
    BY <1>6
  <2>2. i \in 1..Len(legacy)
    BY <1>2, LenProperties DEF Matches
  <2>3. legacy' \in Seq(AllRules)
    BY <1>2, <2>1, <2>2, RemoveWithout
  <2>4. Kept(p) => SameBag(legacy', Tail(todo[p]))
    BY <1>2, <1>3, <2>1, BagsShrink DEF SameBag
  <2>5. Used' = Used /\ budget' \in [Disturbances -> Nat]
    BY <1>2, <1>6, NoCost DEF DoList, Move
  <2> QED
    BY <1>1, <1>2, <1>3, <1>4, <1>5, <1>6, <2>3, <2>4, <2>5, RulesStep
<1>7. CASE /\ Go(p, "managed") /\ UNCHANGED machine
           /\ Spend("fail") \/ (Matches(Head(todo[p])) = {} /\ UNCHANGED budget)
  <2>1. UNCHANGED start /\ DoList(p, "managed", todo[p]) /\ "managed" \in AtRules
    BY <1>7, <1>2 DEF Go, Move, DoList, Put, JInv, Shaped, AtRules
  <2>2. budget' \in [Disturbances -> Nat]
    BY <1>2, <1>7, <2>1, NoCost, OneCost
  <2>3. Kept(p) => Used' >= 1
    <3>1. Kept(p) => Spend("fail")
      BY <1>2, <1>3, <1>7, HeadMatches
    <3>2. Spend("fail") => Used' = Used + 1
      BY <1>2, <2>1, OneCost
    <3> QED
      BY <1>3, <3>1, <3>2
  <2> QED
    BY <1>1, <1>2, <1>4, <1>7, <2>1, <2>2, <2>3, RulesStep DEF machine
<1> QED
  BY <1>6, <1>7 DEF DeleteLegacy, DeleteOne, Attempt

LEMMA CommitCourse == ASSUME JInv, IInv', NEW p \in Procs, Commit(p) PROVE JInv'
<1>1. pc[p] = "delete" /\ pc[p] \in Working \ ({"log"} \cup Service) /\ Course(p)
  BY DEF Commit, At, Working, Forward, Service, JInv
<1>2. Shaped /\ legacy \in Seq(AllRules) /\ managed \subseteq AllRules /\ todo[p] \in Seq(AllRules)
      /\ todo[p] = <<>> /\ plan[p].rules \subseteq AllRules /\ unit \in Unit
  BY DEF JInv, Shaped, MachineTyped, Commit, Plans
<1>3. Used \in Int /\ Used >= 0 /\ (Kept(p) => SameBag(legacy, todo[p]))
  BY <1>1, UsedType DEF JInv, Course, FailuresCount, RulesKept, Forward
<1>4. Timely(p) => unit = IF plan[p].owned THEN Gone(start.unit) ELSE start.unit
  BY <1>1 DEF Course, UnitKept
<1>5. CASE /\ db' = [rules |-> Saved(p), gen |-> 1] /\ UNCHANGED <<legacy, managed, unit, budget>>
           /\ Go(p, "log")
  <2>1. /\ Move(p, "log") /\ todo' = Put(todo, p, todo[p]) /\ UNCHANGED <<plan, start>>
        /\ "log" \in Working /\ pc[p] \in Working
    BY <1>1, <1>5 DEF Go, Move, Put, JInv, Shaped, Working, Forward
  <2>2. Used' = Used /\ budget' \in [Disturbances -> Nat]
    BY <1>2, <1>5, <2>1, NoCost
  <2>3. db' \in Databases /\ db'.rules = plan[p].rules
    BY <1>2, <1>5 DEF Databases, Saved
  <2>4. MachineTyped'
    BY <1>2, <1>5, <2>2, <2>3 DEF MachineTyped
  <2>5. Kept(p) => legacy = <<>>
    BY <1>2, <1>3, NothingLeft
  <2>6. ASSUME pc'[p] = "log" PROVE Course(p)'
    <3> USE <2>6
    <3>1. FailuresCount(p)'
      BY <1>3, <2>2 DEF FailuresCount, Backward
    <3>2. DatabaseKept(p)'
      BY <2>1, <2>3 DEF DatabaseKept
    <3>3. RulesKept(p)'
      BY <1>5, <2>1, <2>5 DEF RulesKept, Kept, Before, Service
    <3>4. UnitKept(p)'
      BY <1>4, <1>5, <2>1 DEF UnitKept, Timely, Service
    <3>5. OwnsService(p)'
      BY DEF OwnsService, Service
    <3> QED
      BY <3>1, <3>2, <3>3, <3>4, <3>5 DEF Course
  <2> QED
    BY <1>2, <2>1, <2>4, <2>6, MoveCourse
<1>6. CASE Spend("fail") /\ Go(p, "managed") /\ UNCHANGED machine
  <2>1. UNCHANGED start /\ DoList(p, "managed", todo[p]) /\ "managed" \in AtRules
    BY <1>6, <1>2 DEF Go, Move, DoList, Put, JInv, Shaped, AtRules
  <2>2. Used' = Used + 1 /\ budget' \in [Disturbances -> Nat]
    BY <1>2, <1>6, <2>1, OneCost
  <2>3. Used' >= 1
    BY <1>3, <2>2
  <2> QED
    BY <1>1, <1>2, <1>4, <1>6, <2>1, <2>2, <2>3, RulesStep DEF machine
<1> QED
  BY <1>5, <1>6 DEF Commit, Attempt

LEMMA ReturnsCourse ==
  ASSUME JInv, IInv', NEW p \in Procs, Log(p) \/ Crash(p) \/ Activate(p)
  PROVE  JInv'
<1>1. lock = p
  <2>1. CASE Crash(p)
    BY <2>1 DEF Crash
  <2>2. CASE Log(p) \/ Activate(p)
    BY <2>2 DEF Log, Activate, At, JInv, IInv, OneAtWork, Working, Forward, Backward
  <2> QED
    BY <2>1, <2>2
<1>2. \E res \in {"error", "COMMITTED", "UNLOGGED", "died"} : End(p, res)
  BY DEF Log, Crash, Activate, Attempt
<1>3. UNCHANGED start /\ Shaped
  BY <1>2 DEF End, JInv
<1>4. UNCHANGED budget \/ Spend("fail") \/ Spend("crash")
  BY DEF Log, Crash, Activate, Attempt
<1>5. budget' \in [Disturbances -> Nat]
  BY <1>3, <1>4, NoCost, OneCost, CrashCost
<1>6. UNCHANGED <<legacy, managed, db>> /\ unit' \in {unit, Started(unit)}
  BY DEF Log, Crash, Activate, Attempt, UnitBecomes, machine
<1>7. unit' \in Unit
  BY <1>3, <1>6 DEF Shaped, MachineTyped, Started, Unit
<1>8. MachineTyped'
  BY <1>3, <1>5, <1>6, <1>7 DEF Shaped, MachineTyped
<1> QED
  BY <1>1, <1>2, <1>8, EndCourse

\* The v5 rules that are restored.
LEMMA RestoreFacts ==
  ASSUME JInv, NEW p \in Procs, pc[p] \in AtRules
  PROVE  /\ pc[p] \in Working \ ({"log"} \cup Service) /\ Course(p) /\ Shaped
         /\ legacy \in Seq(AllRules) /\ managed \subseteq AllRules /\ todo[p] \in Seq(AllRules)
         /\ plan[p].kernel \in Seq(AllRules)
         /\ Kept(p) => Used >= 1
         /\ Used \in Int
         /\ Timely(p) => unit = IF plan[p].owned THEN Gone(start.unit) ELSE start.unit
<1>1. pc[p] \in Working \ ({"log"} \cup Service) /\ pc[p] \in Backward /\ Course(p)
  BY DEF AtRules, Working, Backward, Service, JInv
<1>2. legacy \in Seq(AllRules) /\ managed \subseteq AllRules /\ todo[p] \in Seq(AllRules)
      /\ plan[p].kernel \in Seq(AllRules)
  BY DEF JInv, Shaped, MachineTyped, Plans
<1>3. (Kept(p) => Used >= 1)
      /\ (Timely(p) => unit = IF plan[p].owned THEN Gone(start.unit) ELSE start.unit)
  BY <1>1 DEF Course, FailuresCount, UnitKept
<1> QED
  BY <1>1, <1>2, <1>3, UsedType DEF JInv

\* A migration that restores v5's rules hands over to the restoration of its service.
LEMMA RulesDone ==
  ASSUME JInv, IInv', NEW p \in Procs, pc[p] \in AtRules, Unwind(p),
         UNCHANGED <<legacy, managed, db, unit>>, budget' \in [Disturbances -> Nat],
         Kept(p) => Used' >= 1 /\ (Used' <= 1 => legacy = start.legacy)
  PROVE  JInv'
<1>1. pc[p] \in Working \ {"log"}
  BY RestoreFacts
<1>2. MachineTyped'
  BY DEF JInv, Shaped, MachineTyped
<1>3. Timely(p) => (unit'.enabled => start.unit.enabled) /\ (unit'.active => start.unit.active)
  <2>1. unit = start.unit \/ unit = Gone(start.unit) \/ ~Timely(p)
    BY RestoreFacts
  <2>2. start.unit \in Unit
    BY DEF JInv, Shaped, Machines
  <2> QED
    BY <2>1, <2>2 DEF Gone, WithFile, DisabledNow, Disabled, Stopped, Unit
<1> QED
  BY <1>1, <1>2, <1>3, UnwindCourse

LEMMA ManagedCourse == ASSUME JInv, IInv', NEW p \in Procs, DeleteManaged(p) PROVE JInv'
<1>1. pc[p] \in AtRules /\ DoList(p, "discover", todo[p]) /\ "discover" \in AtRules
      /\ UNCHANGED <<legacy, db, unit, start>>
  BY DEF DeleteManaged, At, AtRules, Go, Move, DoList, Put, ChainsBecome, JInv, Shaped
<1>2. managed' \subseteq AllRules
  BY <1>1, RestoreFacts DEF DeleteManaged, ChainsBecome
<1>3. UNCHANGED budget \/ Spend("fail")
  BY DEF DeleteManaged
<1>4. budget' \in [Disturbances -> Nat] /\ Used' \in {Used, Used + 1}
  BY <1>1, <1>3, NoCost, OneCost, RestoreFacts
<1>5. Kept(p) => Used' >= 1
  BY <1>1, <1>4, RestoreFacts
<1> QED
  BY <1>1, <1>2, <1>4, <1>5, RestoreFacts, RulesStep

LEMMA DiscoverCourse == ASSUME JInv, IInv', NEW p \in Procs, Discover(p) PROVE JInv'
<1>1. pc[p] \in AtRules /\ {"append", "clear"} \subseteq AtRules
  BY DEF Discover, At, AtRules
<1>2. CASE legacy = <<>> /\ DoList(p, "append", plan[p].kernel) /\ UNCHANGED <<machine, budget>>
  <2>1. legacy \o plan[p].kernel = plan[p].kernel
    BY <1>1, <1>2, RestoreFacts
  <2>2. Used' = Used /\ budget' \in [Disturbances -> Nat]
    BY <1>1, <1>2, NoCost, RestoreFacts DEF DoList, Move
  <2> QED
    BY <1>1, <1>2, <2>1, <2>2, RestoreFacts, RulesStep DEF machine
<1>3. CASE legacy # <<>> /\ DoList(p, "clear", Reverse(legacy)) /\ UNCHANGED <<machine, budget>>
  <2>1. Reverse(legacy) \in Seq(AllRules) /\ SameBag(legacy, Reverse(legacy))
    BY <1>1, ReverseList, RestoreFacts DEF SameBag
  <2>2. Reverse(legacy) # <<>>
    BY <1>1, <1>3, <2>1, ReverseList, RestoreFacts, EmptySeq
  <2>3. Used' = Used /\ budget' \in [Disturbances -> Nat]
    BY <1>1, <1>3, NoCost, RestoreFacts DEF DoList, Move
  <2>4. SameBag(legacy', Reverse(legacy))
    BY <1>3, <2>1 DEF SameBag, machine
  <2> QED
    BY <1>1, <1>3, <2>1, <2>2, <2>3, <2>4, RestoreFacts, RulesStep DEF machine
<1>4. CASE Spend("fail") /\ DoList(p, "append", plan[p].kernel) /\ UNCHANGED machine
  <2>1. Used' = Used + 1 /\ budget' \in [Disturbances -> Nat]
    BY <1>1, <1>4, OneCost, RestoreFacts DEF DoList, Move
  <2>2. Kept(p) => Used' >= 1 /\ ~(Used' <= 1)
    BY <1>1, <2>1, RestoreFacts
  <2> QED
    BY <1>1, <1>4, <2>1, <2>2, RestoreFacts, RulesStep DEF machine
<1> QED
  BY <1>2, <1>3, <1>4 DEF Discover, Attempt

LEMMA ClearCourse == ASSUME JInv, IInv', NEW p \in Procs, Clear(p) PROVE JInv'
<1> DEFINE t == todo[p]
<1>1. pc[p] = "clear" /\ pc[p] \in AtRules /\ {"append", "clear"} \subseteq AtRules
  BY DEF Clear, At, AtRules
<1>2. Shaped /\ legacy \in Seq(AllRules) /\ t \in Seq(AllRules)
  BY <1>1, RestoreFacts
<1>3. Kept(p) => t # <<>> /\ SameBag(legacy, t)
  BY <1>1, RestoreFacts DEF Course, RulesKept
<1>4. Len(t) > 1 => Tail(t) \in Seq(AllRules) /\ Tail(t) # <<>>
  <2> SUFFICES ASSUME Len(t) > 1 PROVE Tail(t) \in Seq(AllRules) /\ Tail(t) # <<>>
    OBVIOUS
  <2>1. t # <<>>
    BY <1>2, EmptySeq
  <2>2. Tail(t) \in Seq(AllRules) /\ Len(Tail(t)) = Len(t) - 1 /\ Len(t) \in Nat
    BY <1>2, <2>1, TailWithout, LenProperties
  <2> DEFINE u == Tail(t)
  <2>3. u \in Seq(AllRules) /\ Len(u) = Len(t) - 1 /\ Len(t) \in Nat
    BY <2>2
  <2> HIDE DEF u, t
  <2>4. u # <<>>
    BY <2>3, EmptySeq
  <2> QED
    BY <2>3, <2>4 DEF u
<1>5. CASE /\ \E i \in Matches(Head(t)) : legacy' = RemoveAt(legacy, i)
           /\ UNCHANGED <<managed, db, unit, budget>>
           /\ IF Len(t) > 1 THEN DoList(p, "clear", Tail(t))
                            ELSE DoList(p, "append", plan[p].kernel)
  <2>1. PICK i \in Matches(Head(t)) : legacy' = RemoveAt(legacy, i)
    BY <1>5
  <2>2. i \in 1..Len(legacy)
    BY <1>2, LenProperties DEF Matches
  <2>3. legacy' \in Seq(AllRules)
    BY <1>2, <2>1, <2>2, RemoveWithout
  <2>4. Kept(p) => SameBag(legacy', Tail(t))
    BY <1>2, <1>3, <2>1, BagsShrink DEF SameBag
  <2>5. Used' = Used /\ budget' \in [Disturbances -> Nat]
    BY <1>2, <1>5, NoCost DEF DoList, Move
  <2>6. CASE Len(t) > 1
    <3>1. DoList(p, "clear", Tail(t))
      BY <1>5, <2>6
    <3> QED
      BY <1>1, <1>4, <1>5, <2>3, <2>4, <2>5, <2>6, <3>1, RestoreFacts, RulesStep
  <2>7. CASE ~(Len(t) > 1)
    <3>1. DoList(p, "append", plan[p].kernel)
      BY <1>5, <2>7
    <3>2. Kept(p) => Tail(t) = <<>> /\ Tail(t) \in Seq(AllRules)
      <4> SUFFICES ASSUME Kept(p) PROVE Tail(t) = <<>> /\ Tail(t) \in Seq(AllRules)
        OBVIOUS
      <4>1. Tail(t) \in Seq(AllRules) /\ Len(Tail(t)) = Len(t) - 1 /\ Len(t) \in Nat
            /\ Len(Tail(t)) \in Nat
        BY <1>2, <1>3, TailWithout, LenProperties
      <4> QED
        BY <2>7, <4>1, EmptySeq
    <3>3. Kept(p) => legacy' = <<>>
      <4> SUFFICES ASSUME Kept(p) PROVE legacy' = <<>>
        OBVIOUS
      <4> DEFINE l == legacy'
      <4>1. l \in Seq(AllRules) /\ SameBag(l, Tail(t))
        BY <2>3, <2>4 DEF SameBag
      <4> HIDE DEF l
      <4>2. l = <<>>
        BY <3>2, <4>1, NothingLeft
      <4> QED
        BY <4>2 DEF l
    <3>4. Kept(p) => legacy' \o plan[p].kernel = plan[p].kernel
      BY <1>1, <3>3, RestoreFacts
    <3>5. UNCHANGED <<db, unit>> /\ managed' \subseteq AllRules /\ (Kept(p) => Used' >= 1)
      BY <1>1, <1>5, <2>5, RestoreFacts
    <3>6. /\ pc[p] \in Working \ ({"log"} \cup Service) /\ plan[p].kernel \in Seq(AllRules)
          /\ Timely(p) => unit = IF plan[p].owned THEN Gone(start.unit) ELSE start.unit
      BY <1>1, RestoreFacts
    <3>7. "append" \in {"delete"} \cup AtRules /\ budget' \in [Disturbances -> Nat]
      BY <1>1, <2>5
    <3>8. Kept(p) =>
           /\ "append" = "delete" => SameBag(legacy', plan[p].kernel)
           /\ "append" = "clear" => plan[p].kernel # <<>> /\ SameBag(legacy', plan[p].kernel)
           /\ "append" = "append" /\ Used' <= 1 => legacy' \o plan[p].kernel = plan[p].kernel
      BY <3>4
    <3> HIDE DEF t
    <3> QED
      BY <2>3, <3>1, <3>5, <3>6, <3>7, <3>8, RulesStep
  <2> QED
    BY <2>6, <2>7
<1>6. CASE /\ Unwind(p) /\ UNCHANGED machine
           /\ Spend("fail") \/ (Matches(Head(t)) = {} /\ UNCHANGED budget)
  <2>1. UNCHANGED start
    BY <1>6 DEF Unwind, Go, Move, End
  <2>2. budget' \in [Disturbances -> Nat]
    BY <1>2, <1>6, <2>1, NoCost, OneCost
  <2>3. Kept(p) => Spend("fail")
    BY <1>2, <1>3, <1>6, HeadMatches
  <2>4. Spend("fail") => Used' = Used + 1
    BY <1>2, <2>1, OneCost
  <2>5. Kept(p) => Used' >= 1 /\ ~(Used' <= 1)
    BY <1>1, <2>3, <2>4, RestoreFacts
  <2> QED
    BY <1>1, <1>6, <2>2, <2>5, RulesDone DEF machine
<1> QED
  BY <1>5, <1>6 DEF Clear, DeleteOne, Attempt

LEMMA AppendCourse == ASSUME JInv, IInv', NEW p \in Procs, AppendRule(p) PROVE JInv'
<1> DEFINE t == todo[p]
<1>1. pc[p] = "append" /\ pc[p] \in AtRules /\ t # <<>>
  BY DEF AppendRule, At, AtRules
<1>2. Shaped /\ legacy \in Seq(AllRules) /\ t \in Seq(AllRules) /\ Head(t) \in AllRules
      /\ Tail(t) \in Seq(AllRules)
  BY <1>1, RestoreFacts, TailWithout
<1>3. Kept(p) /\ Used <= 1 => legacy \o t = plan[p].kernel
  BY <1>1, RestoreFacts DEF Course, RulesKept
<1>4. CASE /\ legacy' = Append(legacy, Head(t)) /\ UNCHANGED <<managed, db, unit, budget>>
           /\ DoList(p, "append", Tail(t))
  <2>1. legacy' \in Seq(AllRules)
    BY <1>2, <1>4
  <2>2. Append(legacy, Head(t)) \o Tail(t) = legacy \o t
    <3> DEFINE l == legacy
               u == t
    <3>1. l \in Seq(AllRules) /\ u \in Seq(AllRules) /\ u # <<>>
      BY <1>1, <1>2
    <3> HIDE DEF l, u
    <3>2. Append(l, Head(u)) \o Tail(u) = l \o u
      BY <3>1
    <3> QED
      BY <3>2 DEF l, u
  <2>3. Used' = Used /\ budget' \in [Disturbances -> Nat]
    BY <1>2, <1>4, NoCost DEF DoList, Move
  <2>4. Kept(p) /\ Used' <= 1 => legacy' \o Tail(t) = plan[p].kernel
    BY <1>3, <1>4, <2>2, <2>3
  <2> QED
    BY <1>1, <1>2, <1>4, <2>1, <2>3, <2>4, RestoreFacts, RulesStep
<1>5. CASE Spend("fail") /\ Unwind(p) /\ UNCHANGED machine
  <2>1. UNCHANGED start
    BY <1>5 DEF Unwind, Go, Move, End
  <2>2. Used' = Used + 1 /\ budget' \in [Disturbances -> Nat]
    BY <1>2, <1>5, <2>1, OneCost
  <2>3. Kept(p) => Used' >= 1 /\ ~(Used' <= 1)
    BY <1>1, <2>2, RestoreFacts
  <2> QED
    BY <1>1, <1>5, <2>2, <2>3, RulesDone DEF machine
<1> QED
  BY <1>4, <1>5 DEF AppendRule, Attempt

LEMMA RestoredCourse == ASSUME JInv, IInv', NEW p \in Procs, Restored(p) PROVE JInv'
<1>1. pc[p] = "append" /\ pc[p] \in AtRules /\ todo[p] = <<>> /\ Unwind(p)
      /\ UNCHANGED <<machine, budget>>
  BY DEF Restored, At, AtRules
<1>2. Used' = Used /\ budget' \in [Disturbances -> Nat]
  BY <1>1, NoCost, RestoreFacts DEF Unwind, Go, Move, End
<1>3. legacy \o <<>> = legacy
  BY <1>1, RestoreFacts
<1>4. Kept(p) /\ Used <= 1 => legacy = start.legacy
  BY <1>1, <1>3, RestoreFacts DEF Course, RulesKept, Kept
<1> QED
  BY <1>1, <1>2, <1>4, RestoreFacts, RulesDone DEF machine

\* A migration goes on with the restoration of the v5 service.
LEMMA ServiceStep ==
  ASSUME JInv, IInv', NEW p \in Procs, pc[p] \in Service,
         NEW step \in {"reload", "enable", "activate"}, Go(p, step),
         UNCHANGED <<legacy, managed, db>>, unit' \in Unit,
         UNCHANGED budget \/ Spend("fail"),
         Timely(p) => /\ unit'.file = "v5"
                      /\ unit'.enabled => start.unit.enabled
                      /\ unit'.active => start.unit.active
                      /\ step = "activate" /\ Used' <= 1 => unit'.enabled = start.unit.enabled
  PROVE  JInv'
<1>1. /\ step \in Working /\ step # "log" /\ step \notin Forward /\ step \in Service
      /\ step \notin {"journal", "drop", "remove", "forget", "prepare", "delete", "log"}
      /\ step \notin AtRules /\ pc[p] \in Working \ {"log"} /\ pc[p] \in Backward
      /\ pc[p] \in Service
  BY DEF AtRules, Working, Forward, Backward, Before, Service
<1>2. /\ Move(p, step) /\ todo[p] \in Seq(AllRules) /\ todo' = Put(todo, p, todo[p])
      /\ UNCHANGED <<plan, start>>
  BY DEF Go, Move, Put, JInv, Shaped
<1>3. Shaped /\ Course(p)
  BY DEF JInv
<1>4. budget' \in [Disturbances -> Nat] /\ Used' \in {Used, Used + 1} /\ Used \in Int
  BY <1>2, <1>3, NoCost, OneCost, UsedType
<1>5. MachineTyped'
  BY <1>3, <1>4 DEF Shaped, MachineTyped
<1>6. ASSUME pc'[p] = step PROVE Course(p)'
  <2> USE <1>6
  <2>1. Kept(p) => Used >= 1
    BY <1>1, <1>3 DEF Course, FailuresCount
  <2>2. Kept(p) => Used' >= 1 /\ (Used' <= 1 => Used <= 1)
    BY <1>4, <2>1
  <2>3. FailuresCount(p)'
    BY <1>1, <1>2, <2>2 DEF FailuresCount, Kept
  <2>4. DatabaseKept(p)'
    BY <1>1, <1>2, <1>3 DEF Course, DatabaseKept
  <2>5. RulesKept(p)'
    BY <1>1, <1>2, <1>3, <2>2 DEF Course, RulesKept, Kept, Forward, AtRules
  <2>6. UnitKept(p)'
    BY <1>1, <1>2 DEF UnitKept, Timely
  <2>7. OwnsService(p)'
    BY <1>1, <1>2, <1>3 DEF Course, OwnsService
  <2> QED
    BY <2>3, <2>4, <2>5, <2>6, <2>7 DEF Course
<1> QED
  BY <1>1, <1>2, <1>5, <1>6, MoveCourse

LEMMA ServiceCourse ==
  ASSUME JInv, IInv', NEW p \in Procs, WriteUnit(p) \/ Reload(p) \/ Enable(p)
  PROVE  JInv'
<1>1. pc[p] \in {"unit", "reload", "enable"} /\ pc[p] \in Service /\ Course(p) /\ Shaped
  BY DEF WriteUnit, Reload, Enable, At, Service, JInv
<1>2. unit \in Unit /\ start.unit \in Unit /\ WithFile(unit, "v5") \in Unit /\ Enabled(unit) \in Unit
      /\ WithFile(unit, "v5").file = "v5" /\ Enabled(unit).file = unit.file
      /\ Enabled(unit).enabled = TRUE /\ Enabled(unit).active = unit.active
      /\ WithFile(unit, "v5").enabled = unit.enabled /\ WithFile(unit, "v5").active = unit.active
      /\ plan[p] \in Plans
  BY <1>1 DEF Shaped, MachineTyped, Machines, WithFile, Enabled, Unit, Texts
<1>3. Timely(p) => /\ (unit.enabled => start.unit.enabled) /\ (unit.active => start.unit.active)
                   /\ pc[p] # "unit" => unit.file = "v5"
  BY <1>1 DEF Course, UnitKept
<1>4. plan[p].owned
  BY <1>1 DEF Course, OwnsService
<1>5. Used \in Int /\ (Timely(p) => Used >= 1)
  BY <1>1, UsedType DEF Course, FailuresCount, Timely, Kept, Service, Backward
<1>6. CASE WriteUnit(p)
  <2>1. pc[p] = "unit" /\ lock = p
    BY <1>6 DEF WriteUnit, At, JInv, IInv, OneAtWork, Working, Backward
  <2>2. CASE unit' = WithFile(unit, "v5") /\ Go(p, "reload") /\ UNCHANGED <<legacy, managed, db, budget>>
    BY <1>1, <1>2, <1>3, <2>2, ServiceStep
  <2>3. CASE Spend("fail") /\ End(p, "error") /\ UNCHANGED machine
    <3>1. budget' \in [Disturbances -> Nat]
      BY <1>1, <2>3, OneCost DEF End
    <3>2. MachineTyped'
      BY <1>1, <2>3, <3>1 DEF Shaped, MachineTyped, machine
    <3> QED
      BY <2>1, <2>3, <3>2, EndCourse
  <2> QED
    BY <1>6, <2>2, <2>3 DEF WriteUnit, Attempt, UnitBecomes
<1>7. CASE Reload(p)
  <2>1. pc[p] = "reload" /\ Go(p, "enable") /\ UNCHANGED machine /\ (UNCHANGED budget \/ Spend("fail"))
    BY <1>7 DEF Reload, At, Attempt
  <2> QED
    BY <1>1, <1>2, <1>3, <2>1, ServiceStep DEF machine
<1>8. CASE Enable(p)
  <2>1. pc[p] = "enable" /\ Go(p, "activate") /\ UNCHANGED <<legacy, managed, db, start>>
    BY <1>8 DEF Enable, At, Attempt, UnitBecomes, machine, Go, Move
  <2>2. CASE plan[p].enabled /\ unit' = Enabled(unit) /\ UNCHANGED budget
    <3>1. Timely(p) => start.unit.enabled
      BY <1>4, <2>2 DEF Timely
    <3>2. start.unit.enabled \in BOOLEAN /\ unit.enabled \in BOOLEAN
      BY <1>2 DEF Unit
    <3>3. Timely(p) => unit'.enabled = start.unit.enabled
      BY <1>2, <2>2, <3>1, <3>2
    <3>4. unit' \in Unit /\ (Timely(p) => /\ unit'.file = "v5"
                                          /\ unit'.enabled => start.unit.enabled
                                          /\ unit'.active => start.unit.active)
      BY <1>2, <1>3, <2>1, <2>2, <3>1
    <3> QED
      BY <1>1, <2>1, <2>2, <3>3, <3>4, ServiceStep
  <2>3. CASE plan[p].enabled /\ UNCHANGED unit /\ Spend("fail")
    <3>1. Used' = Used + 1
      BY <1>1, <2>1, <2>3, OneCost
    <3>2. Timely(p) => ~(Used' <= 1)
      BY <1>5, <3>1
    <3> QED
      BY <1>1, <1>2, <1>3, <2>1, <2>3, <3>2, ServiceStep
  <2>4. CASE ~plan[p].enabled /\ UNCHANGED <<unit, budget>>
    <3>1. Timely(p) => ~start.unit.enabled
      BY <1>2, <1>4, <2>4 DEF Timely
    <3>2. start.unit.enabled \in BOOLEAN /\ unit.enabled \in BOOLEAN
      BY <1>2 DEF Unit
    <3>3. Timely(p) => unit'.enabled = start.unit.enabled
      BY <1>3, <2>4, <3>1, <3>2
    <3> QED
      BY <1>1, <1>2, <1>3, <2>1, <2>4, <3>3, ServiceStep
  <2> QED
    BY <1>8, <2>2, <2>3, <2>4 DEF Enable, Attempt, UnitBecomes, machine
<1> QED
  BY <1>6, <1>7, <1>8

\* Another migration's failure counts for the one at work as well.
LEMMA CourseStays ==
  ASSUME Shaped, NEW q \in Procs, Course(q), UNCHANGED <<legacy, managed, db, unit, start>>,
         pc'[q] = pc[q], plan'[q] = plan[q], todo'[q] = todo[q],
         Used' \in {Used, Used + 1}
  PROVE  Course(q)'
<1>1. /\ Used \in Int /\ (Used >= 1 => Used' >= 1) /\ (Used' <= 1 => Used <= 1)
      /\ Used >= 0 => Used' >= 0
  <2>1. Used \in Int
    BY UsedType
  <2> DEFINE u == Used
             v == Used'
  <2>2. u \in Int /\ v \in {u, u + 1}
    BY <2>1
  <2> HIDE DEF u, v
  <2>3. (u >= 1 => v >= 1) /\ (v <= 1 => u <= 1) /\ (u >= 0 => v >= 0)
    BY <2>2
  <2> QED
    BY <2>1, <2>3 DEF u, v
<1>2. FailuresCount(q)'
  BY <1>1 DEF Course, FailuresCount, Kept, Timely
<1>3. DatabaseKept(q)' /\ OwnsService(q)'
  BY DEF Course, DatabaseKept, OwnsService
<1>4. RulesKept(q)'
  BY <1>1 DEF Course, RulesKept, Kept, SameBag
<1>5. UnitKept(q)'
  BY <1>1 DEF Course, UnitKept, Timely
<1> QED
  BY <1>2, <1>3, <1>4, <1>5 DEF Course

\* A migration plans, or refuses to, while another one may be at work.
LEMMA PlanCourse ==
  ASSUME JInv, IInv', NEW p \in Procs,
         Plan(p) \/ AskEnabled(p) \/ AskActive(p) \/ PlanError(p)
  PROVE  JInv'
<1>1. Shaped /\ pc[p] \in Resting \ {"done"} /\ pc[p] \notin Working
      /\ pc \in [Procs -> Resting \cup Working]
      /\ legacy \in Seq(AllRules) /\ unit \in Unit
  BY DEF Plan, AskEnabled, AskActive, PlanError, At, JInv, Shaped, MachineTyped, IInv, Functional,
         Working, Forward, Backward, Before, Resting
<1>2. lock # p
  BY <1>1 DEF Shaped
<1>3. CASE /\ \E x \in Plans : plan' = [plan EXCEPT ![p] = x]
           /\ \E step \in Resting : pc' = [pc EXCEPT ![p] = step]
           /\ \E list \in Seq(AllRules) : todo' = [todo EXCEPT ![p] = list]
           /\ \E res \in {"none", "error"} :
                result' = [result EXCEPT ![p] = res] /\ (pc'[p] # "done" => res = "none")
           /\ UNCHANGED <<legacyDb, machine, lock, start>>
           /\ UNCHANGED budget \/ Spend("fail")
  <2>1. pc'[p] \notin Working /\ \A q \in Procs : q # p => pc'[q] = pc[q]
    BY <1>1, <1>3 DEF Working, Forward, Backward, Before, Resting
  <2>2. \A q \in Procs : q # p => plan'[q] = plan[q] /\ todo'[q] = todo[q] /\ result'[q] = result[q]
    BY <1>1, <1>3 DEF Shaped
  <2>3. /\ Used' \in {Used, Used + 1} /\ UNCHANGED <<legacy, managed, db, unit, start>>
        /\ budget' \in [Disturbances -> Nat]
    BY <1>1, <1>3, NoCost, OneCost DEF machine
  <2>4. ASSUME NEW q \in Procs, q # p PROVE Course(q)'
    <3>1. Course(q) /\ pc'[q] = pc[q] /\ plan'[q] = plan[q] /\ todo'[q] = todo[q]
      BY <2>1, <2>2, <2>4 DEF JInv
    <3> QED
      BY <1>1, <2>3, <3>1, CourseStays
  <2>5. Course(p)'
    BY <2>1 DEF Course, FailuresCount, DatabaseKept, RulesKept, UnitKept, OwnsService, Working,
                Forward, Backward, Before, Service, AtRules
  <2>6. \A q \in Procs : pc'[q] # "done" => result'[q] = "none"
    BY <1>1, <1>3, <2>1, <2>2 DEF Shaped, Resting
  <2>7. \A q \in Procs : lock' = q => pc'[q] \in Working
    BY <1>1, <1>2, <1>3, <2>1 DEF Shaped
  <2>8. /\ plan' \in [Procs -> Plans] /\ todo' \in [Procs -> Seq(AllRules)]
        /\ result' \in [Procs -> {"none", "error", "COMMITTED", "UNLOGGED", "died"}]
    BY <1>1, <1>3 DEF Shaped
  <2>9. MachineTyped' /\ legacyDb' \subseteq AllRules /\ start' \in Machines
    BY <1>1, <1>3, <2>3 DEF Shaped, MachineTyped
  <2>10. Shaped'
    BY <2>6, <2>7, <2>8, <2>9 DEF Shaped
  <2> QED
    BY <2>4, <2>5, <2>10 DEF JInv
<1>4. /\ todo = [todo EXCEPT ![p] = todo[p]] /\ todo[p] \in Seq(AllRules)
      /\ result = [result EXCEPT ![p] = "none"] /\ plan[p] \in Plans
      /\ plan = [plan EXCEPT ![p] = plan[p]]
  BY <1>1 DEF Shaped, Resting
<1>5. CASE Plan(p)
  <2>1. PICK rules \in Selections :
          plan' = [plan EXCEPT ![p] = [NoPlan EXCEPT !.rules = rules, !.kernel = legacy,
                                                     !.owned = V5Unit]]
    BY <1>5 DEF Plan, Put
  <2>2. rules \subseteq AllRules
    BY <1>1, KernelFits DEF Selections, Shaped
  <2>3. [NoPlan EXCEPT !.rules = rules, !.kernel = legacy, !.owned = V5Unit] \in Plans
    BY <1>1, <2>2 DEF Plans, NoPlan, V5Unit
  <2>4. \E step \in {"ask enabled", "waiting"} : pc' = [pc EXCEPT ![p] = step] /\ pc'[p] = step
    BY <1>1, <1>5 DEF Plan, Put
  <2>5. UNCHANGED <<legacyDb, machine, lock, todo, result, budget, start>>
    BY <1>5 DEF Plan
  <2> QED
    BY <1>3, <1>4, <2>1, <2>3, <2>4, <2>5 DEF Resting
<1>6. CASE AskEnabled(p) \/ AskActive(p)
  <2>1. PICK told \in {[plan[p] EXCEPT !.enabled = unit.enabled],
                       [plan[p] EXCEPT !.active = unit.active]},
             step \in {"ask active", "waiting"} : Ask(p, step, told)
    BY <1>6 DEF AskEnabled, AskActive
  <2>2. told \in Plans
    BY <1>1, <1>4, <2>1 DEF Plans, Unit
  <2>3. \E x \in Plans : plan' = [plan EXCEPT ![p] = x]
    BY <1>4, <2>1, <2>2 DEF Ask, Put
  <2>4. pc' = [pc EXCEPT ![p] = step] /\ pc'[p] = step
    BY <1>1, <2>1 DEF Ask, Put
  <2>5. UNCHANGED <<legacyDb, machine, lock, todo, result, start>>
        /\ (UNCHANGED budget \/ Spend("fail"))
    BY <2>1 DEF Ask
  <2> QED
    BY <1>3, <1>4, <2>3, <2>4, <2>5 DEF Resting
<1>7. CASE PlanError(p)
  <2>1. pc' = [pc EXCEPT ![p] = "done"] /\ plan' = [plan EXCEPT ![p] = NoPlan]
        /\ todo' = [todo EXCEPT ![p] = <<>>] /\ result' = [result EXCEPT ![p] = "error"]
        /\ UNCHANGED <<legacyDb, machine, lock, start>> /\ pc'[p] = "done"
        /\ (UNCHANGED budget \/ Spend("fail"))
    BY <1>1, <1>2, <1>7 DEF PlanError, End, Put
  <2> QED
    BY <1>3, <2>1, PlansFit DEF Resting
<1> QED
  BY <1>5, <1>6, <1>7

LEMMA AcquireCourse == ASSUME JInv, IInv', NEW p \in Procs, Acquire(p) PROVE JInv'
<1>1. /\ Shaped /\ lock = Free /\ lock' = p /\ start' = Now /\ pc' = [pc EXCEPT ![p] = "journal"]
      /\ UNCHANGED <<legacyDb, machine, plan, todo, result, budget>> /\ pc[p] = "waiting"
      /\ pc \in [Procs -> Resting \cup Working]
  BY DEF Acquire, At, Put, JInv, IInv, Functional
<1>2. \A q \in Procs : pc[q] \notin Working
  BY <1>1, ProcsAssumption DEF JInv, IInv, OneAtWork
<1>3. pc'[p] = "journal" /\ "journal" \in Working /\ \A q \in Procs : q # p => pc'[q] \notin Working
  BY <1>1, <1>2 DEF Working, Forward, Before
<1>4. start' \in Machines
  BY <1>1 DEF Shaped, MachineTyped, Now, Machines, Disturbances
<1>5. start'.legacy = legacy /\ start'.db = db /\ start'.unit = unit /\ start'.failures = budget["fail"]
  BY <1>1 DEF Now
<1>6. Used' = 0
  BY <1>1, <1>5 DEF Used, Shaped, MachineTyped, Disturbances
<1>7. ASSUME NEW q \in Procs, q # p PROVE Course(q)'
  <2>1. pc'[q] \notin Working
    BY <1>3, <1>7
  <2> QED
    BY <2>1 DEF Course, FailuresCount, DatabaseKept, RulesKept, UnitKept, OwnsService, Working,
                Forward, Backward, Before, Service, AtRules
<1>8. Course(p)'
  BY <1>1, <1>3, <1>5, <1>6 DEF Course, FailuresCount, DatabaseKept, RulesKept, UnitKept,
     OwnsService, Backward, Service, AtRules, machine
<1>9. \A q \in Procs : (lock' = q => pc'[q] \in Working) /\ (pc'[q] # "done" => result'[q] = "none")
  BY <1>1, <1>3 DEF Shaped
<1>10. MachineTyped'
  BY <1>1 DEF Shaped, MachineTyped, machine
<1>11. Shaped'
  BY <1>1, <1>4, <1>9, <1>10 DEF Shaped
<1> QED
  BY <1>7, <1>8, <1>11 DEF JInv

LEMMA NextJInv == JInv /\ [Next]_vars => JInv'
<1> SUFFICES ASSUME JInv, [Next]_vars PROVE JInv'
  OBVIOUS
<1>1. IInv'
  BY NextIInv DEF JInv
<1>2. CASE UNCHANGED vars
  BY <1>1, <1>2 DEF vars, machine, JInv, Shaped, MachineTyped, Course, FailuresCount, DatabaseKept,
     RulesKept, UnitKept, OwnsService, Kept, Timely, Used, SameBag
<1>3. ASSUME NEW p \in Procs,
             Plan(p) \/ AskEnabled(p) \/ AskActive(p) \/ PlanError(p) \/ Acquire(p) \/ Journal(p)
      PROVE  JInv'
  BY <1>1, <1>3, PlanCourse, AcquireCourse, JournalCourse
<1>4. ASSUME NEW p \in Procs,
             DropService(p) \/ RemoveUnit(p) \/ Forget(p) \/ Prepare(p) \/ DeleteLegacy(p)
               \/ Commit(p) \/ Log(p) \/ Crash(p) \/ Activate(p)
      PROVE  JInv'
  BY <1>1, <1>4, UnitSteps, PrepareCourse, DeleteCourse, CommitCourse, ReturnsCourse
<1>5. ASSUME NEW p \in Procs,
             DeleteManaged(p) \/ Discover(p) \/ Clear(p) \/ AppendRule(p) \/ Restored(p)
               \/ WriteUnit(p) \/ Reload(p) \/ Enable(p)
      PROVE  JInv'
  BY <1>1, <1>5, ManagedCourse, DiscoverCourse, ClearCourse, AppendCourse, RestoredCourse,
     ServiceCourse
<1> QED
  BY <1>2, <1>3, <1>4, <1>5 DEF Next

\* Every migration has a type, and whoever has the lock is at work.
THEOREM MigrationTypes == Spec => []TypeOK
<1>1. JInv => TypeOK
  <2> SUFFICES ASSUME JInv PROVE TypeOK
    OBVIOUS
  <2>1. /\ MachineTyped /\ plan \in [Procs -> Plans] /\ todo \in [Procs -> Seq(AllRules)]
        /\ result \in [Procs -> {"none", "error", "COMMITTED", "UNLOGGED", "died"}]
        /\ pc \in [Procs -> Resting \cup Working]
    BY DEF JInv, Shaped, IInv, Functional
  <2>2. legacy \in Seq(AllRules) /\ managed \subseteq AllRules /\ unit \in Unit
        /\ db \in [rules : SUBSET AllRules, gen : 0..2] /\ budget \in [Disturbances -> Nat]
    BY <2>1 DEF MachineTyped, Databases
  <2>3. \A p \in Procs : (lock = p) = (pc[p] \in Working)
    BY DEF JInv, IInv, OneAtWork, Shaped
  <2>4. \A p \in Procs :
          /\ pc[p] \in Resting \cup Forward \cup Backward
          /\ plan[p].rules \subseteq AllRules /\ todo[p] \in Seq(AllRules)
          /\ (lock = p) = (pc[p] \in Forward \cup Backward)
          /\ result[p] \in {"none", "error", "COMMITTED", "UNLOGGED", "died"}
    BY <2>1, <2>3 DEF Working, Plans
  <2> QED
    BY <2>2, <2>4 DEF TypeOK
<1> QED
  BY <1>1, InitJInv, NextJInv, PTL DEF Spec

\* A migration at work reports what it does itself.
LEMMA OwnResult ==
  ASSUME JInv, Next, NEW p \in Procs, lock = p, result'[p] # "none"
  PROVE  /\ pc[p] \in Working /\ Course(p) /\ Shaped /\ Used \in Int
         /\ \/ Journal(p) \/ DropService(p) \/ RemoveUnit(p) \/ Forget(p)
            \/ Prepare(p) \/ Log(p) \/ Clear(p) \/ AppendRule(p) \/ Restored(p)
            \/ WriteUnit(p) \/ Activate(p) \/ Crash(p)
<1>1. pc[p] \in Working /\ result[p] = "none" /\ Course(p) /\ Shaped
      /\ result \in [Procs -> {"none", "error", "COMMITTED", "UNLOGGED", "died"}]
      /\ pc[p] \notin Resting
  BY DEF JInv, Shaped, Working, Forward, Backward, Before, Resting
<1>2. \A q \in Procs : q # p => pc[q] \notin Working /\ lock # q
  BY DEF JInv, IInv, OneAtWork
<1>3. PICK q \in Procs :
        \/ Plan(q) \/ AskEnabled(q) \/ AskActive(q) \/ PlanError(q)
        \/ Acquire(q) \/ Journal(q) \/ DropService(q) \/ RemoveUnit(q) \/ Forget(q)
        \/ Prepare(q) \/ DeleteLegacy(q) \/ Commit(q) \/ Log(q)
        \/ DeleteManaged(q) \/ Discover(q) \/ Clear(q) \/ AppendRule(q) \/ Restored(q)
        \/ WriteUnit(q) \/ Reload(q) \/ Enable(q) \/ Activate(q)
        \/ Crash(q)
  BY DEF Next
<1>4. result' # result
  BY <1>1
<1>5. ~Plan(q) /\ ~AskEnabled(q) /\ ~AskActive(q) /\ ~Acquire(q)
  BY <1>4 DEF Plan, AskEnabled, AskActive, Ask, Acquire
<1>6. ~DeleteLegacy(q) /\ ~Commit(q) /\ ~DeleteManaged(q) /\ ~Discover(q) /\ ~Reload(q) /\ ~Enable(q)
  BY <1>4 DEF DeleteLegacy, DeleteOne, Commit, DeleteManaged, Discover, Reload, Enable, Attempt,
              Go, DoList, Move
<1>7. ~PlanError(q)
  <2> SUFFICES ASSUME PlanError(q) PROVE FALSE
    OBVIOUS
  <2>1. q # p /\ result' = [result EXCEPT ![q] = "error"]
    BY <1>1 DEF PlanError, At, End, Put, Resting
  <2> QED
    BY <1>1, <2>1
<1>8. q = p
  <2> SUFFICES ASSUME q # p PROVE FALSE
    OBVIOUS
  <2>1. pc[q] \in Working \/ lock = q
    BY <1>3, <1>5, <1>6, <1>7
       DEF Journal, DropService, RemoveUnit, Forget, Prepare, Log, Clear, AppendRule, Restored,
           WriteUnit, Activate, Crash, At, Working, Forward, Backward, Before
  <2> QED
    BY <1>2, <2>1
<1> QED
  BY <1>1, <1>3, <1>5, <1>6, <1>7, <1>8, UsedType

\* A migration that reports success (migration.go:173-187) leaves the chains as the database
\* has them and, unless another one changed them in between, none of the v5 rules.
THEOREM SuccessIsWhole == Spec => SuccessIsComplete
<1> DEFINE A == \A p \in Procs : pc[p] = "log" /\ result'[p] \in {"COMMITTED", "UNLOGGED"} =>
                  managed' = db'.rules /\ (plan[p].kernel = start.legacy => legacy' = <<>>)
<1>1. JInv /\ [Next]_vars => [A]_vars
  <2> SUFFICES ASSUME JInv, Next, NEW p \in Procs, pc[p] = "log",
                      result'[p] \in {"COMMITTED", "UNLOGGED"}
               PROVE  managed' = db'.rules /\ (plan[p].kernel = start.legacy => legacy' = <<>>)
    OBVIOUS
  <2>1. lock = p /\ result'[p] # "none"
    BY DEF JInv, IInv, OneAtWork, Working, Forward
  <2>2. Course(p) /\ (Log(p) \/ Crash(p))
    BY <2>1, OwnResult
       DEF Journal, DropService, RemoveUnit, Forget, Prepare, Clear, AppendRule, Restored,
           WriteUnit, Activate, At
  <2>3. UNCHANGED machine
    BY <2>2 DEF Log, Crash, Attempt
  <2>4. managed = plan[p].rules /\ db.rules = plan[p].rules
    BY <2>2 DEF Course, DatabaseKept, JInv, IInv, Installed
  <2>5. plan[p].kernel = start.legacy => legacy = <<>>
    BY <2>2 DEF Course, RulesKept, Kept
  <2> QED
    BY <2>3, <2>4, <2>5 DEF machine
<1>2. Spec => [][A]_vars
  BY <1>1, InitJInv, NextJInv, PTL DEF Spec
<1> QED
  BY <1>2 DEF SuccessIsComplete

\* What a migration that returns with an error leaves, if one thing failed and it was timely.
LEMMA ErrorKeeps ==
  ASSUME JInv, Next, NEW p \in Procs, lock = p, result'[p] = "error", Timely(p), Used' <= 1
  PROVE  legacy' = start.legacy /\ unit' = start.unit /\ db' = start.db
<1>1. /\ pc[p] \in Working /\ Course(p) /\ Shaped /\ Used \in Int /\ start' = start
      /\ pc'[p] = "done"
      /\ \/ Journal(p) \/ DropService(p) \/ RemoveUnit(p) \/ Forget(p) \/ Prepare(p) \/ Clear(p)
         \/ AppendRule(p) \/ Restored(p) \/ WriteUnit(p) \/ Activate(p)
  <2>1. \/ Journal(p) \/ DropService(p) \/ RemoveUnit(p) \/ Forget(p)
        \/ Prepare(p) \/ Log(p) \/ Clear(p) \/ AppendRule(p) \/ Restored(p)
        \/ WriteUnit(p) \/ Activate(p) \/ Crash(p)
    BY OwnResult
  <2>2. pc[p] \in Working /\ Course(p) /\ Shaped /\ Used \in Int
    BY OwnResult
  <2>3. result[p] = "none" /\ result' # result
    BY <2>2 DEF Shaped, Working, Forward, Backward, Before
  <2>4. \E res : End(p, res)
    BY <2>1, <2>3 DEF Journal, DropService, RemoveUnit, Forget, Prepare, Log, Clear, AppendRule,
       Restored, WriteUnit, Activate, Crash, DeleteOne, Attempt, Unwind, Go, DoList, Move
  <2>5. start' = start /\ pc'[p] = "done"
    BY <2>4 DEF End, Put, JInv, IInv, Functional
  <2>6. ~Log(p) /\ ~Crash(p)
    BY DEF Log, Crash, Attempt, End, Put, JInv, Shaped
  <2> QED
    BY <2>1, <2>2, <2>5, <2>6
<1>2. Kept(p) /\ start.unit \in Unit /\ unit \in Unit /\ plan[p] \in Plans
  BY <1>1 DEF Timely, Kept, Shaped, MachineTyped, Machines
<1>3. pc[p] \in Backward => Used >= 1
  BY <1>1, <1>2 DEF Course, FailuresCount
<1>4. Spend("fail") => Used' = Used + 1
  BY <1>1, OneCost
<1>5. pc[p] \in Backward => ~Spend("fail")
  BY <1>1, <1>3, <1>4
<1>6. Unwind(p) => ~plan[p].owned
  BY <1>1 DEF Unwind, Go, Move, Put, JInv, IInv, Functional
<1>7. CASE Journal(p)
  <2>1. pc[p] = "journal" /\ UNCHANGED machine
    BY <1>7 DEF Journal, At, Attempt
  <2>2. legacy = start.legacy /\ unit = start.unit /\ db = start.db
    BY <1>1, <1>2, <2>1 DEF Course, RulesKept, UnitKept, DatabaseKept, Before
  <2> QED
    BY <2>1, <2>2 DEF machine
<1>8. ~DropService(p) /\ ~RemoveUnit(p) /\ ~Forget(p)
  <2> SUFFICES ASSUME DropService(p) \/ RemoveUnit(p) \/ Forget(p) PROVE FALSE
    OBVIOUS
  <2>1. plan[p].owned
    BY <1>1 DEF DropService, RemoveUnit, Forget, At, Course, OwnsService
  <2>2. Unwind(p)
    <3>1. \A step \in Working : ~Go(p, step)
      BY <1>1 DEF Go, Move, Put, JInv, IInv, Functional, Working, Forward, Backward, Before
    <3> QED
      BY <3>1 DEF DropService, RemoveUnit, Forget, Attempt, Working, Forward, Before
  <2> QED
    BY <1>6, <2>1, <2>2
<1>9. \A step \in Working : \A list : ~DoList(p, step, list)
  BY <1>1 DEF DoList, Move, Put, JInv, IInv, Functional, Working, Forward, Backward, Before
<1>10. CASE Prepare(p)
  <2>1. pc[p] = "prepare" /\ ~DoList(p, "delete", Reverse(plan[p].kernel))
    BY <1>9, <1>10 DEF Prepare, At, Working, Forward
  <2>2. Unwind(p) /\ UNCHANGED <<legacy, db, unit>>
    BY <1>10, <2>1 DEF Prepare, ChainsBecome
  <2>3. legacy = start.legacy /\ unit = start.unit /\ db = start.db
    BY <1>1, <1>2, <1>6, <2>1, <2>2 DEF Course, RulesKept, UnitKept, DatabaseKept, Before
  <2> QED
    BY <2>2, <2>3
<1>11. ~Clear(p)
  <2> SUFFICES ASSUME Clear(p) PROVE FALSE
    OBVIOUS
  <2>1. pc[p] = "clear" /\ pc[p] \in Backward
    BY DEF Clear, At, Backward
  <2>2. todo[p] # <<>> /\ SameBag(legacy, todo[p]) /\ todo[p] \in Seq(AllRules)
        /\ legacy \in Seq(AllRules)
    BY <1>1, <1>2, <2>1 DEF Course, RulesKept, Shaped, MachineTyped
  <2>3. Matches(Head(todo[p])) # {}
    BY <2>2, HeadMatches
  <2>4. ~DoList(p, "clear", Tail(todo[p])) /\ ~DoList(p, "append", plan[p].kernel)
    BY <1>9 DEF Working, Backward
  <2> QED
    BY <1>5, <2>1, <2>3, <2>4 DEF Clear, DeleteOne, Attempt
<1>12. ~AppendRule(p)
  <2>1. pc[p] = "append" => pc[p] \in Backward /\ ~DoList(p, "append", Tail(todo[p]))
    BY <1>9 DEF Working, Backward
  <2> QED
    BY <1>5, <2>1 DEF AppendRule, At, Attempt
<1>13. CASE Restored(p)
  <2>1. pc[p] = "append" /\ todo[p] = <<>> /\ Unwind(p) /\ UNCHANGED <<machine, budget>>
        /\ pc[p] \in AtRules
    BY <1>13 DEF Restored, At, AtRules
  <2>2. Used' = Used
    BY <1>1, <2>1, NoCost
  <2>3. legacy \o <<>> = legacy
    BY <2>1, RestoreFacts
  <2>4. legacy = start.legacy
    BY <1>1, <1>2, <2>1, <2>2, <2>3 DEF Course, RulesKept, Kept
  <2>5. unit = start.unit /\ db = start.db
    BY <1>1, <1>6, <2>1 DEF Course, UnitKept, DatabaseKept
  <2> QED
    BY <2>1, <2>4, <2>5 DEF machine
<1>14. ~WriteUnit(p)
  <2>1. pc[p] = "unit" => pc[p] \in Backward /\ ~Go(p, "reload")
    BY <1>1 DEF Go, Move, Put, JInv, IInv, Functional, Backward
  <2> QED
    BY <1>5, <2>1 DEF WriteUnit, At, Attempt
<1>15. CASE Activate(p)
  <2>1. pc[p] = "activate" /\ pc[p] \in Backward /\ pc[p] \in Service /\ UNCHANGED <<legacy, db>>
    BY <1>15 DEF Activate, At, Attempt, UnitBecomes, machine, Backward, Service
  <2>2. UNCHANGED budget
    BY <1>5, <1>15, <2>1 DEF Activate, Attempt
  <2>3. Used <= 1
    BY <1>1, <2>2, NoCost
  <2>4. /\ legacy = start.legacy /\ db = start.db /\ plan[p].owned /\ unit.file = "v5"
        /\ unit.enabled = start.unit.enabled /\ (unit.active => start.unit.active)
    BY <1>1, <1>2, <2>1, <2>3 DEF Course, RulesKept, UnitKept, DatabaseKept, OwnsService
  <2>5. start.unit.file = "v5" /\ plan[p].active = start.unit.active
    BY <2>4 DEF Timely
  <2>6. CASE plan[p].active
    <3>1. unit' = Started(unit) /\ start.unit.active = TRUE
      BY <1>2, <1>5, <1>15, <2>1, <2>5, <2>6 DEF Activate, Attempt, UnitBecomes, Plans
    <3>2. Started(unit) = start.unit
      BY <1>2, <2>4, <2>5, <3>1 DEF Started, Unit
    <3> QED
      BY <2>1, <2>4, <3>1, <3>2
  <2>7. CASE ~plan[p].active
    <3>1. UNCHANGED unit
      BY <1>15, <2>7 DEF Activate, machine
    <3>2. unit = start.unit
      BY <1>2, <2>4, <2>5, <2>7 DEF Unit
    <3> QED
      BY <2>1, <2>4, <3>1, <3>2
  <2> QED
    BY <2>6, <2>7
<1> QED
  BY <1>1, <1>7, <1>8, <1>10, <1>11, <1>12, <1>13, <1>14, <1>15

\* One failure leaves version 5 at work (migration.go:135-165): a migration that returns an
\* error after it, and was planned on the machine it found, has put v5's rules back in their
\* order, its service as it was, and has not touched the database.
THEOREM OneFailureGivesVersion5Back == Spec => FailureKeepsVersion5
<1> DEFINE A == \A p \in Procs :
                  /\ lock = p /\ result'[p] = "error"
                  /\ Timely(p) /\ budget'["fail"] >= start.failures - 1
                  => legacy' = start.legacy /\ unit' = start.unit /\ db' = start.db
<1>1. JInv /\ JInv' /\ [Next]_vars => [A]_vars
  <2> SUFFICES ASSUME JInv, JInv', Next, NEW p \in Procs, lock = p, result'[p] = "error",
                      Timely(p), budget'["fail"] >= start.failures - 1
               PROVE  legacy' = start.legacy /\ unit' = start.unit /\ db' = start.db
    OBVIOUS
  <2>1. UNCHANGED start
    <3>1. lock \notin {Free} /\ result' # result
      BY ProcsAssumption DEF JInv, Shaped, Working, Forward, Backward, Before
    <3> QED
      BY <3>1 DEF Next, Plan, AskEnabled, AskActive, Ask, PlanError, Acquire, Journal, DropService, RemoveUnit, Forget,
         Prepare, DeleteLegacy, DeleteOne, Commit, Log, DeleteManaged, Discover, Clear,
         AppendRule, Restored, WriteUnit, Reload, Enable, Activate, Crash, Attempt, Unwind, Go,
         DoList, Move, End
  <2>2. budget'["fail"] \in Nat /\ start.failures \in Nat
    BY DEF JInv, Shaped, MachineTyped, Machines, Disturbances
  <2>3. Used' <= 1
    BY <2>1, <2>2 DEF Used
  <2> QED
    BY <2>3, ErrorKeeps
<1>2. Spec => [][A]_vars
  BY <1>1, InitJInv, NextJInv, PTL DEF Spec
<1> QED
  BY <1>2 DEF FailureKeepsVersion5
================================================================================
