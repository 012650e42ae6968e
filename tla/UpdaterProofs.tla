----------------------------- MODULE UpdaterProofs -----------------------------
(***************************************************************************)
(* However many updates race, fail or are killed, in whatever order their  *)
(* file operations fall, only verified content reaches the binary, the     *)
(* trust record and the files a rollback restores; races alone do not lose *)
(* the binary; and an update that meets no other, of one failure at most,  *)
(* replaces binary and trust record together or not at all.                *)
(***************************************************************************)
EXTENDS Updater, TLAPS

\* Files of running and dead updates hold verified content or nothing: what a rename
\* may put in place of the binary.
Clean == Releases \cup {Nothing}
FilesClean ==
  /\ bin \in Clean /\ trust \in Clean
  /\ candidate \in [Pids -> Clean]
  /\ rollback \in [Pids -> Clean]
  /\ body \in [Pids -> Clean]

\* No file operation brings in anything else.
LEMMA CleanStep == FilesClean /\ [Next]_vars => FilesClean'
<1> SUFFICES ASSUME FilesClean, [Next]_vars PROVE FilesClean'
  OBVIOUS
<1> USE DEF FilesClean, Clean, Put, files, Go
<1>1. CASE UNCHANGED vars
  BY <1>1 DEF vars
<1>2. ASSUME NEW p \in Pids, Install(p) PROVE FilesClean'
  BY <1>2 DEF Install, End, Verified
<1>3. ASSUME NEW p \in Pids, Check(p) PROVE FilesClean'
  BY <1>3 DEF Check
<1>4. ASSUME NEW p \in Pids, WriteCandidate(p) PROVE FilesClean'
  BY <1>4 DEF WriteCandidate, Try
<1>5. ASSUME NEW p \in Pids, Validate(p) PROVE FilesClean'
  BY <1>5 DEF Validate, Try
<1>6. ASSUME NEW p \in Pids, Stat(p) PROVE FilesClean'
  BY <1>6 DEF Stat, Try
<1>7. ASSUME NEW p \in Pids, Aside(p) PROVE FilesClean'
  BY <1>7 DEF Aside, AsideError
<1>8. ASSUME NEW p \in Pids, Rename(p) PROVE FilesClean'
  BY <1>8 DEF Rename, Try
<1>9. ASSUME NEW p \in Pids, Record(p) PROVE FilesClean'
  BY <1>9 DEF Record
<1>10. ASSUME NEW p \in Pids, Unlink(p) PROVE FilesClean'
  BY <1>10 DEF Unlink, Try
<1>11. ASSUME NEW p \in Pids, PutBack(p) PROVE FilesClean'
  BY <1>11 DEF PutBack, Try
<1>12. ASSUME NEW p \in Pids, Cleanup(p) PROVE FilesClean'
  BY <1>12 DEF Cleanup, End
<1>13. ASSUME NEW p \in Pids, Crash(p) PROVE FilesClean'
  BY <1>13 DEF Crash, End
<1> QED
  BY <1>1, <1>2, <1>3, <1>4, <1>5, <1>6, <1>7, <1>8, <1>9, <1>10, <1>11, <1>12, <1>13
  DEF Next

\* Only verified content is ever installed, recorded or kept for a rollback
\* (updater.go:138-155, 213-239).
THEOREM OnlyVerifiedIsInstalled == Spec => []InstalledIsVerified
<1>1. Init => FilesClean
  BY DEF Init, FilesClean, Clean
<1>2. FilesClean => InstalledIsVerified
  BY ContentsAssumption DEF FilesClean, Clean, InstalledIsVerified
<1> QED
  BY <1>1, <1>2, CleanStep, PTL DEF Spec

--------------------------------------------------------------------------------
(* Types *)

LEMMA SpendOK ==
  ASSUME budget \in [Disturbances -> Nat], NEW d \in Disturbances, Spend(d)
  PROVE  budget' \in [Disturbances -> Nat]
BY DEF Spend

\* What every file operation of p does besides changing files.
Goes(p) ==
  /\ \E step \in Steps : pc' = [pc EXCEPT ![p] = step]
  /\ budget' \in [Disturbances -> Nat]
  /\ UNCHANGED <<body, had, result, start>>

\* Whatever happens, an action of p changes p's own entries, to values of their types.
LEMMA TypeStep == TypeOK /\ [Next]_vars => TypeOK'
<1> SUFFICES ASSUME TypeOK, [Next]_vars PROVE TypeOK'
  OBVIOUS
<1> USE DEF TypeOK, Content, Steps, Put, files, Go
<1>1. CASE UNCHANGED vars
  BY <1>1 DEF vars
<1>3. ASSUME Fails PROVE budget' \in [Disturbances -> Nat]
  BY <1>3, SpendOK DEF Fails, Disturbances
<1>4. NoStart \in [files : Content \X Content, alone : BOOLEAN]
  BY DEF NoStart
<1>5. ASSUME NEW p \in Pids, Install(p) PROVE TypeOK'
  <2>1. Started(p) \in [Pids -> [files : Content \X Content, alone : BOOLEAN]]
    BY DEF Started, Running
  <2>2. PICK release \in Releases, genuine \in BOOLEAN : \E served \in {release, Damaged} :
          IF Verified(genuine, served, release)
            THEN /\ pc' = [pc EXCEPT ![p] = "check"]
                 /\ body' = [body EXCEPT ![p] = served]
                 /\ start' = Started(p)
                 /\ result' = [result EXCEPT ![p] = "none"]
                 /\ UNCHANGED had
            ELSE End(p, "error")
    BY <1>5 DEF Install
  <2>3. CASE End(p, "error")
    BY <1>4, <1>5, <2>3 DEF Install, End
  <2>4. CASE /\ pc' = [pc EXCEPT ![p] = "check"]
             /\ body' = [body EXCEPT ![p] = release]
             /\ start' = Started(p)
             /\ result' = [result EXCEPT ![p] = "none"]
             /\ UNCHANGED had
    BY <1>5, <2>1, <2>4 DEF Install
  <2> QED
    BY <2>2, <2>3, <2>4 DEF Verified
<1>6. ASSUME NEW p \in Pids, Check(p) PROVE TypeOK'
  BY <1>6 DEF Check
<1>7. ASSUME NEW p \in Pids, WriteCandidate(p) \/ Validate(p) \/ Stat(p) PROVE TypeOK'
  <2>1. UNCHANGED files \/ /\ candidate' = [candidate EXCEPT ![p] = body[p]]
                           /\ UNCHANGED <<bin, trust, rollback>>
    BY <1>7 DEF WriteCandidate, Validate, Stat, Try
  <2>2. Goes(p) BY <1>7, <1>3 DEF WriteCandidate, Validate, Stat, Try, Goes
  <2> QED BY <2>1, <2>2 DEF Goes
<1>8. ASSUME NEW p \in Pids, Aside(p) PROVE TypeOK'
  <2>1. CASE bin # Nothing /\ had' = [had EXCEPT ![p] = TRUE] /\ UNCHANGED budget
             /\ rollback' = [rollback EXCEPT ![p] = bin] /\ bin' = Nothing
             /\ pc' = [pc EXCEPT ![p] = "rename"]
             /\ UNCHANGED <<trust, candidate, body, result, start>>
    BY <2>1
  <2>2. CASE AsideError(p) /\ UNCHANGED files /\ (Fails \/ UNCHANGED budget)
    BY <1>3, <2>2 DEF AsideError
  <2> QED BY <1>8, <2>1, <2>2 DEF Aside
<1>9. ASSUME NEW p \in Pids, Rename(p) \/ Unlink(p) \/ PutBack(p) PROVE TypeOK'
  <2> USE DEF Back
  <2>1. CASE Rename(p)
    <3>1. UNCHANGED files \/ /\ bin' = candidate[p] /\ candidate' = [candidate EXCEPT ![p] = Nothing]
                             /\ UNCHANGED <<trust, rollback>>
      BY <2>1 DEF Rename, Try
    <3>2. Goes(p) BY <2>1, <1>3 DEF Rename, Try, Goes
    <3> QED BY <3>1, <3>2 DEF Goes
  <2>2. CASE Unlink(p)
    <3>1. UNCHANGED files \/ (bin' = Nothing /\ UNCHANGED <<trust, candidate, rollback>>)
      BY <2>2 DEF Unlink, Try
    <3>2. Goes(p) BY <2>2, <1>3 DEF Unlink, Try, Goes
    <3> QED BY <3>1, <3>2 DEF Goes
  <2>3. CASE PutBack(p)
    <3>1. UNCHANGED files \/ /\ bin' = rollback[p] /\ rollback' = [rollback EXCEPT ![p] = Nothing]
                             /\ UNCHANGED <<trust, candidate>>
      BY <2>3 DEF PutBack, Try
    <3>2. Goes(p) BY <2>3, <1>3 DEF PutBack, Try, Goes
    <3> QED BY <3>1, <3>2 DEF Goes
  <2> QED BY <1>9, <2>1, <2>2, <2>3
<1>10. ASSUME NEW p \in Pids, Record(p) PROVE TypeOK'
  <2>1. CASE /\ trust' = body[p] /\ pc' = [pc EXCEPT ![p] = "cleanup"]
             /\ result' = [result EXCEPT ![p] = "installed"]
             /\ UNCHANGED <<bin, candidate, rollback, body, had, start, budget>>
    BY <2>1
  <2>2. CASE Fails /\ Go(p, Unlinked(p)) /\ UNCHANGED files
    BY <1>3, <2>2 DEF Unlinked
  <2> QED BY <1>10, <2>1, <2>2 DEF Record
<1>12. ASSUME NEW p \in Pids, Cleanup(p) PROVE TypeOK'
  BY <1>3, <1>4, <1>12 DEF Cleanup, End
<1>13. ASSUME NEW p \in Pids, Crash(p) PROVE TypeOK'
  BY <1>4, <1>13, SpendOK DEF Crash, End, Disturbances
<1> QED
  BY <1>1, <1>5, <1>6, <1>7, <1>8, <1>9, <1>10, <1>12, <1>13 DEF Next

\* The types of all variables, for any process identifiers, releases and disturbances.
THEOREM UpdaterTypes == Spec => []TypeOK
<1>1. Init => TypeOK
  BY BudgetAssumption DEF Init, TypeOK, Content, Steps, NoStart
<1> QED
  BY <1>1, TypeStep, PTL DEF Spec

--------------------------------------------------------------------------------
(* Races *)

\* Disturbances are only ever used up.
Bounded == \A d \in Disturbances : budget[d] <= Budget[d]

LEMMA SpendOrNot == Next => UNCHANGED budget \/ Spend("fail") \/ Spend("crash")
BY DEF Next, Install, Check, WriteCandidate, Validate, Stat, Aside, Rename, Record, Unlink,
       PutBack, Cleanup, Crash, Try, Fails, files

LEMMA BoundedStep ==
  TypeOK /\ Bounded /\ [Next]_vars =>
    /\ Bounded'
    /\ Undisturbed' => UNCHANGED budget /\ Undisturbed
<1> SUFFICES ASSUME TypeOK, Bounded, [Next]_vars
             PROVE  Bounded' /\ (Undisturbed' => UNCHANGED budget /\ Undisturbed)
  OBVIOUS
<1>1. budget \in [Disturbances -> Nat] /\ Budget \in [Disturbances -> Nat]
  BY BudgetAssumption DEF TypeOK
<1>2. CASE UNCHANGED budget
  BY <1>2 DEF Bounded, Undisturbed
<1>3. ASSUME NEW d \in Disturbances, Spend(d) PROVE Bounded' /\ ~Undisturbed'
  <2>1. budget' = [budget EXCEPT ![d] = budget[d] - 1]
    BY <1>3 DEF Spend
  <2>2. budget'[d] = budget[d] - 1 /\ \A e \in Disturbances : e # d => budget'[e] = budget[e]
    BY <1>1, <2>1
  <2>3. budget[d] <= Budget[d] /\ budget[d] \in Nat /\ Budget[d] \in Nat
    BY <1>1 DEF Bounded
  <2>4. budget'[d] <= Budget[d] /\ budget'[d] # Budget[d]
    BY <2>2, <2>3
  <2> QED
    BY <2>2, <2>4 DEF Bounded, Undisturbed
<1>4. UNCHANGED budget \/ Spend("fail") \/ Spend("crash")
  BY SpendOrNot DEF vars
<1> QED
  BY <1>2, <1>3, <1>4 DEF Disturbances

\* As long as nothing fails or dies: an update that has not recorded itself yet has
\* verified content to install, and whoever finds no binary where one was recorded is
\* about to see another update rename its candidate there.
Racing ==
  Undisturbed =>
    /\ \A p \in Pids : pc[p] \notin {"unlink", "back"}
    /\ \A p \in Pids :
         pc[p] \in {"check", "write", "validate", "stat", "aside", "rename", "record"} =>
           body[p] # Nothing
    /\ \A p \in Pids :
         pc[p] \in {"validate", "stat", "aside", "rename"} => candidate[p] # Nothing
    /\ bin = Nothing /\ (trust # Nothing \/ \E p \in Pids : pc[p] = "record") =>
         \E q \in Pids : pc[q] = "rename"

LEMMA RacingStep == TypeOK /\ Bounded /\ Racing /\ [Next]_vars => Racing'
<1> SUFFICES ASSUME TypeOK, Bounded, Racing, [Next]_vars, Undisturbed' PROVE Racing'
  BY DEF Racing
<1>1. Undisturbed /\ UNCHANGED budget
  BY BoundedStep
<1>2. ~Fails /\ \A d \in Disturbances : ~Spend(d)
  <2>1. ASSUME NEW d \in Disturbances, Spend(d) PROVE FALSE
    <3>1. budget \in [Disturbances -> Nat]
      BY DEF TypeOK
    <3>2. budget[d] \in Nat /\ budget'[d] = budget[d] - 1 /\ budget'[d] = budget[d]
      BY <1>1, <2>1, <3>1 DEF Spend
    <3> QED
      BY <3>2
  <2> QED
    BY <2>1 DEF Fails, Disturbances
<1> USE <1>1, <1>2 DEF Racing, At, Put, Go, files
<1>3. CASE UNCHANGED vars
  BY <1>3 DEF vars
<1>4. ASSUME NEW p \in Pids, Install(p) PROVE Racing'
  <2>1. PICK x \in Releases \cup {Nothing}, next \in {"check", "idle"} :
          /\ pc' = [pc EXCEPT ![p] = next] /\ body' = [body EXCEPT ![p] = x]
          /\ next = "check" => x # Nothing
    BY <1>4, ContentsAssumption DEF Install, End, Verified
  <2>2. pc[p] = "idle" /\ UNCHANGED <<bin, trust, candidate, rollback>>
    BY <1>4 DEF Install
  <2>3. pc'[p] = next /\ body'[p] = x /\ \A q \in Pids : q # p => pc'[q] = pc[q] /\ body'[q] = body[q]
    BY <2>1 DEF TypeOK
  <2> QED
    BY <2>1, <2>2, <2>3
<1>5. ASSUME NEW p \in Pids, Check(p) \/ Stat(p) PROVE Racing'
  BY <1>5 DEF Check, Stat, Try, TypeOK
<1>6. ASSUME NEW p \in Pids, WriteCandidate(p) \/ Validate(p) PROVE Racing'
  BY <1>6 DEF WriteCandidate, Validate, Try, TypeOK
<1>7. ASSUME NEW p \in Pids, Aside(p) PROVE Racing'
  BY <1>7 DEF Aside, AsideError, TypeOK
<1>8. ASSUME NEW p \in Pids, Rename(p) PROVE Racing'
  BY <1>8 DEF Rename, Try, TypeOK
<1>9. ASSUME NEW p \in Pids, Record(p) PROVE Racing'
  BY <1>9 DEF Record, TypeOK
<1>10. ASSUME NEW p \in Pids, Unlink(p) \/ PutBack(p) PROVE Racing'
  BY <1>10 DEF Unlink, PutBack
<1>11. ASSUME NEW p \in Pids, Cleanup(p) PROVE Racing'
  BY <1>11 DEF Cleanup, End, TypeOK
<1>12. ASSUME NEW p \in Pids, Crash(p) PROVE Racing'
  BY <1>12 DEF Crash, Disturbances
<1> QED
  BY <1>3, <1>4, <1>5, <1>6, <1>7, <1>8, <1>9, <1>10, <1>11, <1>12 DEF Next

\* Updates that race each other do not lose the binary (updater.go:219-239): unless
\* something failed or was killed, one is there when all are over.
THEOREM RacesKeepTheBinary == Spec => []BinarySurvivesRaces
<1>1. Init => TypeOK /\ Bounded /\ Racing
  <2> SUFFICES ASSUME Init PROVE TypeOK /\ Bounded /\ Racing
    OBVIOUS
  <2>1. TypeOK
    BY BudgetAssumption DEF Init, TypeOK, Content, Steps, NoStart
  <2>2. Bounded
    BY BudgetAssumption DEF Init, Bounded
  <2>3. Racing
    BY DEF Init, Racing
  <2> QED
    BY <2>1, <2>2, <2>3
<1>2. Racing => BinarySurvivesRaces
  BY DEF Racing, BinarySurvivesRaces, AllIdle, At
<1> QED
  BY <1>1, <1>2, TypeStep, BoundedStep, RacingStep, PTL DEF Spec

--------------------------------------------------------------------------------
(* Atomicity of an update that runs alone *)

Before == {"check", "write", "validate", "stat", "aside"}
Written == {"validate", "stat", "aside", "rename"}

\* Binary and trust record as p's update found them.
BinOf(p) == start[p].files[1]
TrustOf(p) == start[p].files[2]

\* What a rollback of p's update would leave is what it found.
Undoable(p) == IF had[p] THEN rollback[p] = BinOf(p) ELSE BinOf(p) = Nothing

\* Where the binary and the trust record are at each step of an update that has been alone
\* since it began.  A rollback needs a failure, so the one there is must not have been the
\* one of os.Stat, after which there may be nothing to roll back to.
Course(p) ==
  /\ pc[p] \in Before \cup {"idle"} => ~had[p]
  /\ start[p].alone =>
       /\ pc[p] # "idle" /\ \A q \in Pids : q # p => pc[q] = "idle"
       /\ result[p] = "installed" => pc[p] = "cleanup"
       /\ pc[p] \in Written => candidate[p] = body[p]
       /\ pc[p] \in Before => bin = BinOf(p)
       /\ pc[p] = "rename" => (bin = Nothing /\ Undoable(p)) \/ budget["fail"] = 0
       /\ pc[p] = "record" => Undoable(p) \/ budget["fail"] = 0
       /\ pc[p] = "record" => bin = body[p]
       /\ pc[p] \in {"unlink", "back"} => Undoable(p)
       /\ pc[p] = "back" => had[p] /\ bin = Nothing
       /\ pc[p] \in {"unlink", "back"} => budget["fail"] = 0
       /\ pc[p] # "cleanup" => trust = TrustOf(p)
       /\ pc[p] = "cleanup" =>
            IF result[p] = "installed" THEN bin = body[p] /\ trust = body[p]
            ELSE bin = BinOf(p) /\ trust = TrustOf(p)

Courses == budget["fail"] <= 1 /\ \A p \in Pids : Course(p)

\* A step of p that lets p's update go on.
Moves(p) == \E step \in Steps \ {"idle"} : Go(p, step)

\* A failure is the only one; a step without one spends nothing.
LEMMA FailsOnce ==
  ASSUME TypeOK, budget["fail"] <= 1, Fails
  PROVE  budget["fail"] = 1 /\ budget'["fail"] = 0
<1>1. budget["fail"] \in Nat /\ "fail" \in Disturbances /\ budget \in [Disturbances -> Nat]
  BY DEF TypeOK, Disturbances
<1>2. budget'["fail"] = budget["fail"] - 1 /\ budget["fail"] > 0
  BY <1>1 DEF Fails, Spend
<1> QED
  BY <1>1, <1>2

LEMMA BudgetFalls ==
  ASSUME TypeOK, budget["fail"] <= 1, [Next]_vars
  PROVE  budget'["fail"] <= 1 /\ (budget["fail"] = 0 => budget'["fail"] = 0)
<1>1. budget["fail"] \in Nat /\ "fail" \in Disturbances /\ budget \in [Disturbances -> Nat]
  BY DEF TypeOK, Disturbances
<1>2. CASE UNCHANGED budget
  BY <1>2
<1>3. CASE Spend("fail")
  <2>1. budget["fail"] > 0 /\ budget'["fail"] = 0
    BY <1>3, FailsOnce DEF Fails, Spend
  <2> QED
    BY <2>1
<1>4. CASE Spend("crash")
  BY <1>1, <1>4 DEF Spend
<1> QED
  BY <1>2, <1>3, <1>4, SpendOrNot DEF vars

\* The step of p's update, as one of p's actions.
Acts(p) ==
  \/ Install(p) \/ Check(p) \/ WriteCandidate(p) \/ Validate(p) \/ Stat(p) \/ Aside(p)
  \/ Rename(p) \/ Record(p) \/ Unlink(p) \/ PutBack(p) \/ Cleanup(p) \/ Crash(p)

\* An update that begins leaves no other one alone.
LEMMA Beginning ==
  ASSUME TypeOK, NEW p \in Pids, Install(p)
  PROVE  /\ pc[p] = "idle" /\ UNCHANGED <<bin, trust, candidate, rollback>>
         /\ \A q \in Pids : q # p => /\ pc'[q] = pc[q] /\ body'[q] = body[q]
                                     /\ had'[q] = had[q] /\ result'[q] = result[q]
         /\ \/ /\ pc'[p] = "check" /\ result'[p] = "none" /\ had'[p] = had[p]
               /\ start'[p] = [files |-> <<bin, trust>>, alone |-> \A r \in Pids : ~Running(r)]
               /\ \A q \in Pids \ {p} : (~Running(q) /\ start'[q] = start[q]) \/ ~start'[q].alone
            \/ /\ pc'[p] = "idle" /\ had'[p] = FALSE /\ ~start'[p].alone
               /\ \A q \in Pids \ {p} : start'[q] = start[q]
<1>1. pc[p] = "idle" /\ UNCHANGED <<bin, trust, candidate, rollback>>
  BY DEF Install, At, files
<1>2. CASE End(p, "error")
  <2>1. start' = [start EXCEPT ![p] = NoStart] /\ start \in [Pids -> [files : Content \X Content, alone : BOOLEAN]]
    BY <1>2 DEF End, Put, TypeOK
  <2>2. ~start'[p].alone /\ \A q \in Pids \ {p} : start'[q] = start[q]
    BY <2>1 DEF NoStart
  <2> QED
    BY <1>1, <1>2, <2>2 DEF End, Put, TypeOK
<1>3. CASE /\ pc' = [pc EXCEPT ![p] = "check"]
           /\ \E served \in Releases \cup {Damaged} : body' = Put(body, p, served)
           /\ start' = Started(p)
           /\ result' = Put(result, p, "none")
           /\ UNCHANGED had
  <2>1. start'[p] = [files |-> <<bin, trust>>, alone |-> \A r \in Pids : ~Running(r)]
    BY <1>3 DEF Started
  <2>2. ASSUME NEW q \in Pids \ {p}
        PROVE  (~Running(q) /\ start'[q] = start[q]) \/ ~start'[q].alone
    <3>1. start[q] \in [files : Content \X Content, alone : BOOLEAN]
      BY DEF TypeOK
    <3>2. start'[q] = [start[q] EXCEPT !.alone = start[q].alone /\ ~Running(q)]
      BY <1>3, <2>2 DEF Started
    <3>3. start'[q].alone <=> start[q].alone /\ ~Running(q)
      BY <3>1, <3>2
    <3>4. CASE ~Running(q)
      BY <3>1, <3>2, <3>4
    <3> QED
      BY <3>3, <3>4
  <2>3. \A q \in Pids : q # p => /\ pc'[q] = pc[q] /\ body'[q] = body[q]
                                 /\ had'[q] = had[q] /\ result'[q] = result[q]
    BY <1>3 DEF Put, TypeOK
  <2>4. pc'[p] = "check" /\ result'[p] = "none" /\ had'[p] = had[p]
    BY <1>3 DEF Put, TypeOK
  <2> QED
    BY <1>1, <2>1, <2>2, <2>3, <2>4
<1> QED
  BY <1>2, <1>3 DEF Install

\* The other steps of p touch p's own entries, and the files.
LEMMA OwnEntries ==
  ASSUME TypeOK, NEW p \in Pids, Acts(p), ~Install(p), NEW q \in Pids, q # p
  PROVE  /\ pc[p] # "idle" /\ pc'[q] = pc[q] /\ had'[q] = had[q] /\ start'[q] = start[q]
<1>1. pc[p] # "idle"
  BY DEF Acts, Check, WriteCandidate, Validate, Stat, Aside, Rename, Record, Unlink, PutBack,
         Cleanup, Crash, At
<1>2. \E step \in Steps : pc' = [pc EXCEPT ![p] = step]
  BY DEF Acts, Check, WriteCandidate, Validate, Stat, Aside, AsideError, Rename, Record, Unlink,
         PutBack, Cleanup, Crash, Try, Go, End, Back, Unlinked, Steps
<1>3. \/ UNCHANGED had
      \/ \E h \in BOOLEAN : had' = [had EXCEPT ![p] = h]
  BY DEF Acts, Check, WriteCandidate, Validate, Stat, Aside, AsideError, Rename, Record, Unlink,
         PutBack, Cleanup, Crash, Try, Go, End, Put
<1>4. \/ UNCHANGED start
      \/ start' = [start EXCEPT ![p] = NoStart]
  BY DEF Acts, Check, WriteCandidate, Validate, Stat, Aside, AsideError, Rename, Record, Unlink,
         PutBack, Cleanup, Crash, Try, Go, End, Put
<1> QED
  BY <1>1, <1>2, <1>3, <1>4 DEF TypeOK

\* Nobody else's step disturbs the course of an update.
LEMMA OthersKeepCourse ==
  ASSUME TypeOK, Courses, NEW p \in Pids, Acts(p), NEW q \in Pids, q # p
  PROVE  Course(q)'
<1> USE DEF Courses
<1>1. CASE ~Install(p)
  <2>1. /\ pc[p] # "idle" /\ pc'[q] = pc[q] /\ had'[q] = had[q] /\ start'[q] = start[q]
    BY <1>1, OwnEntries
  <2>2. ~start'[q].alone
    BY <2>1 DEF Course
  <2> QED
    BY <2>1, <2>2 DEF Course
<1>2. CASE Install(p)
  <2>1. budget' = budget BY <1>2 DEF Install
  <2>2. pc'[q] = pc[q] /\ had'[q] = had[q]
    BY <1>2, Beginning
  <2>3. CASE ~start'[q].alone
    BY <2>2, <2>3 DEF Course
  <2>4. CASE start'[q] = start[q] /\ start[q].alone /\ ~Running(q)
    BY <2>4 DEF Course, Running
  <2>5. CASE start'[q] = start[q] /\ start[q].alone /\ pc'[p] = "idle"
    <3>1. /\ \A r \in Pids : pc'[r] = pc[r]
          /\ bin' = bin /\ trust' = trust /\ candidate' = candidate /\ rollback' = rollback
          /\ result'[q] = result[q] /\ body'[q] = body[q]
      BY <1>2, <2>5, Beginning
    <3> QED
      BY <2>1, <2>2, <2>5, <3>1 DEF Course, Undoable, BinOf, TrustOf
  <2> QED
    BY <1>2, <2>3, <2>4, <2>5, Beginning
<1> QED
  BY <1>1, <1>2

\* Nor does p's own step.
LEMMA OwnCourse ==
  ASSUME TypeOK, Courses, NEW p \in Pids, Acts(p)
  PROVE  Course(p)'
<1> USE DEF Courses, At, Put
<1>0. /\ Course(p) /\ pc[p] \in Steps
      /\ pc \in [Pids -> Steps] /\ had \in [Pids -> BOOLEAN]
      /\ candidate \in [Pids -> Content] /\ rollback \in [Pids -> Content]
  BY DEF TypeOK
<1>1. ASSUME Fails PROVE budget["fail"] # 0 /\ budget'["fail"] = 0
  BY <1>1, FailsOnce
<1>2. ASSUME NEW step \in Steps, Go(p, step)
      PROVE  /\ pc'[p] = step /\ \A q \in Pids : q # p => pc'[q] = pc[q]
             /\ UNCHANGED <<body, had, result, start>>
  BY <1>0, <1>2 DEF Go
<1>3. CASE Install(p)
  <2>1. CASE pc'[p] = "idle"
    BY <1>3, <2>1, Beginning DEF Course, Before
  <2>2. CASE pc'[p] = "check"
    <3>1. /\ bin' = bin /\ trust' = trust /\ result'[p] = "none" /\ had'[p] = had[p] /\ ~had[p]
          /\ start'[p] = [files |-> <<bin, trust>>, alone |-> \A r \in Pids : ~Running(r)]
          /\ \A q \in Pids : q # p => pc'[q] = pc[q]
      BY <1>0, <1>3, <2>2, Beginning DEF Course
    <3>2. BinOf(p)' = bin /\ TrustOf(p)' = trust
      BY <3>1 DEF BinOf, TrustOf
    <3> QED
      BY <2>2, <3>1, <3>2 DEF Course, Running, Before, Written
  <2> QED
    BY <1>3, <2>1, <2>2, Beginning
<1>4. CASE Check(p) \/ Stat(p)
  <2>1. \E step \in {"write", "cleanup", "rename", "aside"} :
          /\ Go(p, step)
          /\ step \in {"rename", "aside"} => pc[p] = "stat"
          /\ step \in {"write", "cleanup"} => pc[p] = "check"
          /\ step = "rename" => bin = Nothing \/ budget'["fail"] = 0
          /\ step # "rename" => budget' = budget
    BY <1>1, <1>4 DEF Check, Stat, Try
  <2>2. UNCHANGED files
    BY <1>4 DEF Check, Stat, Try
  <2>3. PICK step \in {"write", "cleanup", "rename", "aside"} :
          /\ pc'[p] = step /\ \A q \in Pids : q # p => pc'[q] = pc[q]
          /\ UNCHANGED <<body, had, result, start>>
          /\ step \in {"rename", "aside"} => pc[p] = "stat"
          /\ step \in {"write", "cleanup"} => pc[p] = "check"
          /\ step = "rename" => bin = Nothing \/ budget'["fail"] = 0
          /\ step # "rename" => budget' = budget
    BY <1>2, <2>1 DEF Steps
  <2> QED
    BY <1>0, <2>2, <2>3 DEF Course, Undoable, BinOf, TrustOf, Before, Written, files
<1>5. CASE WriteCandidate(p) \/ Validate(p)
  <2>1. /\ bin' = bin /\ trust' = trust /\ rollback' = rollback
        /\ UNCHANGED <<body, had, result, start>>
        /\ \A q \in Pids : q # p => pc'[q] = pc[q]
        /\ \/ pc'[p] = "cleanup" /\ pc[p] \in {"write", "validate"}
           \/ pc[p] = "write" /\ pc'[p] = "validate" /\ candidate'[p] = body[p]
           \/ pc[p] = "validate" /\ pc'[p] = "stat" /\ candidate' = candidate
    BY <1>0, <1>2, <1>5 DEF WriteCandidate, Validate, Try, files, Steps
  <2> QED
    BY <1>0, <2>1 DEF Course, Undoable, BinOf, TrustOf, Before, Written
<1>6. CASE Aside(p)
  <2>1. /\ pc[p] = "aside" /\ UNCHANGED <<trust, candidate, body, result, start>>
        /\ \A q \in Pids : q # p => pc'[q] = pc[q]
        /\ \/ pc'[p] = "rename" /\ had'[p] = TRUE /\ rollback'[p] = bin /\ bin' = Nothing
           \/ pc'[p] = "cleanup" /\ UNCHANGED <<bin, had, rollback>>
    BY <1>0, <1>2, <1>6 DEF Aside, AsideError, files, Steps
  <2> QED
    BY <1>0, <2>1 DEF Course, Undoable, BinOf, TrustOf, Before, Written
<1>7. CASE Rename(p)
  <2>1. /\ pc[p] = "rename" /\ UNCHANGED <<trust, rollback, body, had, result, start>>
        /\ \A q \in Pids : q # p => pc'[q] = pc[q]
        /\ \/ pc'[p] = "record" /\ bin' = candidate[p] /\ budget' = budget
           \/ /\ bin' = bin /\ had[p] /\ pc'[p] = "back"
              /\ budget["fail"] # 0 /\ budget'["fail"] = 0
           \/ bin' = bin /\ budget["fail"] # 0 /\ ~had[p] /\ pc'[p] = "cleanup"
    BY <1>0, <1>1, <1>2, <1>7 DEF Rename, Try, Back, files, Steps
  <2> QED
    BY <1>0, <2>1 DEF Course, Undoable, BinOf, TrustOf, Before, Written
<1>8. CASE Record(p)
  <2>1. /\ pc[p] = "record" /\ UNCHANGED <<bin, candidate, rollback, body, had, start>>
        /\ \A q \in Pids : q # p => pc'[q] = pc[q]
        /\ \/ trust' = body[p] /\ pc'[p] = "cleanup" /\ result'[p] = "installed"
           \/ /\ trust' = trust /\ pc'[p] = "unlink" /\ result' = result
              /\ budget["fail"] # 0 /\ budget'["fail"] = 0
    BY <1>0, <1>1, <1>2, <1>8 DEF Record, Unlinked, files, Steps, TypeOK
  <2> QED
    BY <1>0, <2>1 DEF Course, Undoable, BinOf, TrustOf, Before, Written
<1>9. CASE Unlink(p) \/ PutBack(p)
  <2>1. /\ pc[p] \in {"unlink", "back"} /\ UNCHANGED <<trust, body, had, result, start>>
        /\ \A q \in Pids : q # p => pc'[q] = pc[q]
        /\ \/ budget["fail"] # 0 /\ pc'[p] \in {"back", "cleanup"}
           \/ /\ pc[p] = "unlink" /\ bin' = Nothing /\ rollback' = rollback
              /\ budget' = budget /\ pc'[p] = (IF had[p] THEN "back" ELSE "cleanup")
           \/ pc[p] = "back" /\ bin' = rollback[p] /\ pc'[p] = "cleanup"
    BY <1>0, <1>1, <1>2, <1>9 DEF Unlink, PutBack, Try, Back, files, Steps
  <2> QED
    BY <1>0, <2>1 DEF Course, Undoable, BinOf, TrustOf, Before, Written
<1>10. CASE Cleanup(p) \/ Crash(p)
  <2>1. pc'[p] = "idle" /\ had'[p] = FALSE /\ start'[p] = NoStart
    BY <1>0, <1>10 DEF Cleanup, Crash, End, TypeOK
  <2> QED
    BY <2>1 DEF Course, NoStart, Before
<1> QED
  BY <1>3, <1>4, <1>5, <1>6, <1>7, <1>8, <1>9, <1>10 DEF Acts

\* How an update that was alone ends.
Ends ==
  \A p \in Pids :
    start[p].alone /\ pc'[p] = "idle" =>
      CASE result'[p] = "installed" -> bin' = body[p] /\ trust' = body[p]
        [] result'[p] = "error"     -> <<bin', trust'>> = start[p].files
        [] OTHER                    -> TRUE

LEMMA CourseStep == TypeOK /\ Courses /\ [Next]_vars => Courses' /\ Ends
<1> SUFFICES ASSUME TypeOK, Courses, [Next]_vars PROVE Courses' /\ Ends
  OBVIOUS
<1>1. budget'["fail"] <= 1
  BY BudgetFalls DEF Courses
<1>2. CASE UNCHANGED vars
  BY <1>2 DEF vars, files, Courses, Course, Ends, Undoable, BinOf, TrustOf
<1>3. ASSUME NEW p \in Pids, Acts(p) PROVE Courses' /\ Ends
  <2>1. Courses'
    BY <1>1, <1>3, OwnCourse, OthersKeepCourse DEF Courses
  <2>2. ASSUME NEW q \in Pids, start[q].alone, pc'[q] = "idle"
        PROVE  /\ q = p /\ (Cleanup(p) \/ Crash(p))
    <3>1. pc[q] # "idle" /\ \A r \in Pids : r # q => pc[r] = "idle"
      BY <2>2 DEF Courses, Course
    <3>2. q = p
      BY <1>3, <2>2, <3>1, Beginning, OwnEntries
    <3>3. ASSUME NEW step \in Steps \ {"idle"}, Go(p, step) PROVE FALSE
      BY <2>2, <3>2, <3>3 DEF Go, TypeOK
    <3>4. ~Install(p)
      BY <3>1, <3>2 DEF Install, At
    <3>5. ASSUME Aside(p) PROVE \E step \in Steps \ {"idle"} : pc' = [pc EXCEPT ![p] = step]
      BY <3>5 DEF Aside, AsideError, Go, Steps
    <3>6. ASSUME Record(p) PROVE \E step \in Steps \ {"idle"} : pc' = [pc EXCEPT ![p] = step]
      BY <3>6 DEF Record, Unlinked, Go, Steps
    <3>7. ~Aside(p) /\ ~Record(p)
      BY <2>2, <3>2, <3>5, <3>6 DEF TypeOK
    <3>8. ~Check(p) /\ ~Stat(p) /\ ~WriteCandidate(p) /\ ~Validate(p)
      BY <3>3 DEF Check, Stat, WriteCandidate, Validate, Try, Steps
    <3>9. ~Rename(p) /\ ~Unlink(p) /\ ~PutBack(p)
      BY <3>3 DEF Rename, Unlink, PutBack, Try, Back, Steps
    <3> QED
      BY <1>3, <3>2, <3>4, <3>7, <3>8, <3>9 DEF Acts
  <2>3. ASSUME start[p].alone, Crash(p) PROVE result'[p] = "killed"
    BY <2>3 DEF Crash, End, Put, TypeOK
  <2>4. ASSUME start[p].alone, Cleanup(p)
        PROVE  /\ bin' = bin /\ trust' = trust
               /\ result'[p] = IF result[p] = "installed" THEN "installed" ELSE "error"
               /\ start[p].files = <<BinOf(p), TrustOf(p)>>
               /\ IF result[p] = "installed" THEN bin = body[p] /\ trust = body[p]
                  ELSE bin = BinOf(p) /\ trust = TrustOf(p)
    <3>1. Course(p) /\ pc[p] = "cleanup"
      BY <2>4 DEF Cleanup, At, Courses
    <3>2. start[p].files \in Content \X Content
      BY DEF TypeOK
    <3> QED
      BY <2>4, <3>1, <3>2 DEF Cleanup, End, Put, TypeOK, Course, BinOf, TrustOf
  <2>5. ASSUME NEW q \in Pids, start[q].alone, pc'[q] = "idle"
        PROVE  CASE result'[q] = "installed" -> bin' = body[q] /\ trust' = body[q]
                 [] result'[q] = "error"     -> <<bin', trust'>> = start[q].files
                 [] OTHER                    -> TRUE
    BY <2>2, <2>3, <2>4, <2>5
  <2> QED
    BY <2>1, <2>5 DEF Ends
<1> QED
  BY <1>2, <1>3 DEF Next, Acts

\* An update that meets no other replaces binary and trust record together, or reports an
\* error and leaves both as it found them, when no more than one file operation fails
\* (updater.go:226-238).
THEOREM LoneUpdatesAreAtomic ==
  ASSUME Budget["fail"] <= 1
  PROVE  Spec => UpdateIsAtomic
<1>1. Init => TypeOK /\ Courses
  <2> SUFFICES ASSUME Init PROVE TypeOK /\ Courses
    OBVIOUS
  <2>1. TypeOK
    BY BudgetAssumption DEF Init, TypeOK, Content, Steps, NoStart
  <2>2. Courses
    BY DEF Init, Courses, Course, NoStart
  <2> QED
    BY <2>1, <2>2
<1>2. TypeOK /\ Courses /\ [Next]_vars => [Ends]_vars
  BY CourseStep
<1> QED
  BY <1>1, <1>2, TypeStep, CourseStep, PTL DEF Spec, UpdateIsAtomic, Ends
================================================================================
