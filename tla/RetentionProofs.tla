---------------------------- MODULE RetentionProofs ----------------------------
(***************************************************************************)
(* However many saves list and prune a directory side by side, whatever    *)
(* the clock does and whoever fails or dies, retention only removes what   *)
(* has expired, keeps the directory bounded, and keeps what a save has     *)
(* just written.                                                           *)
(***************************************************************************)
EXTENDS Retention, FiniteSetTheorems, TLAPS

\* A file may go: at least Limit newer ones are in D.
Enough(f, D) == Cardinality({g \in D : Newer(g, f)}) >= Limit

--------------------------------------------------------------------------------
(* What removing an expired file leaves *)

LEMMA MoreIsEnough ==
  ASSUME NEW T, NEW S \in SUBSET T, IsFiniteSet(T), Cardinality(S) >= Limit
  PROVE  Cardinality(T) >= Limit
<1>1. Cardinality(S) <= Cardinality(T) /\ IsFiniteSet(S)
  BY FS_Subset
<1>2. Cardinality(S) \in Nat /\ Cardinality(T) \in Nat
  BY <1>1, FS_CardinalityType
<1> QED
  BY <1>1, <1>2, LimitAssumption

LEMMA NewerIsOrder ==
  ASSUME NEW f \in File, NEW g \in File, NEW h \in File
  PROVE  /\ ~Newer(f, f)
         /\ Newer(h, g) /\ Newer(g, f) => Newer(h, f)
<1>1. /\ f.at \in Int /\ g.at \in Int /\ h.at \in Int
      /\ f.by \in Int /\ g.by \in Int /\ h.by \in Int
  BY DEF File
<1> QED
  BY <1>1 DEF Newer

\* More files, or files newer than g where g is newer, are still enough.
LEMMA EnoughOfMore ==
  ASSUME NEW D, NEW E \in SUBSET D, IsFiniteSet(D), NEW f, Enough(f, E)
  PROVE  Enough(f, D)
<1>1. {g \in E : Newer(g, f)} \subseteq {g \in D : Newer(g, f)}
  OBVIOUS
<1>2. IsFiniteSet({g \in D : Newer(g, f)})
  BY FS_Subset
<1> QED
  BY <1>1, <1>2, MoreIsEnough DEF Enough

LEMMA EnoughOfNewer ==
  ASSUME NEW D \in SUBSET File, IsFiniteSet(D), NEW f \in File, NEW g \in File,
         Newer(g, f), Enough(g, D)
  PROVE  Enough(f, D)
<1>1. {h \in D : Newer(h, g)} \subseteq {h \in D : Newer(h, f)}
  BY NewerIsOrder
<1>2. IsFiniteSet({h \in D : Newer(h, f)})
  BY FS_Subset
<1> QED
  BY <1>1, <1>2, MoreIsEnough DEF Enough

\* Removing a file that may go keeps enough newer than any other that may, and than itself.
LEMMA RemovalLeavesEnough ==
  ASSUME NEW D \in SUBSET File, IsFiniteSet(D), NEW f \in File, NEW x \in File,
         Enough(f, D), Enough(x, D)
  PROVE  Enough(f, D \ {x})
<1> DEFINE E == D \ {x}
<1>1. E \in SUBSET File /\ E \in SUBSET D /\ IsFiniteSet(E)
  BY FS_Subset
<1>2. Enough(x, E)
  <2>1. {h \in D : Newer(h, x)} = {h \in E : Newer(h, x)}
    BY NewerIsOrder
  <2> QED
    BY <2>1 DEF Enough
<1>3. CASE Newer(x, f)
  BY <1>1, <1>2, <1>3, EnoughOfNewer
<1>4. CASE ~Newer(x, f)
  <2>1. {h \in D : Newer(h, f)} = {h \in E : Newer(h, f)}
    BY <1>4
  <2> QED
    BY <2>1 DEF Enough
<1> QED
  BY <1>3, <1>4

\* A file that has expired in a list may go, when every file of the list is still there or
\* might go itself.
LEMMA ExpiredMayGo ==
  ASSUME NEW D \in SUBSET File, IsFiniteSet(D), NEW L \in SUBSET File,
         \A g \in L : g \in D \/ Enough(g, D),
         NEW f \in Expired(L)
  PROVE  Enough(f, D)
<1>1. f \in L /\ Cardinality({g \in L : Newer(g, f)}) >= Limit
  BY DEF Expired
<1>2. CASE \E g \in L : Newer(g, f) /\ Enough(g, D)
  BY <1>1, <1>2, EnoughOfNewer
<1>3. CASE ~ \E g \in L : Newer(g, f) /\ Enough(g, D)
  <2>1. {g \in L : Newer(g, f)} \subseteq {g \in D : Newer(g, f)}
    BY <1>3
  <2>2. IsFiniteSet({g \in D : Newer(g, f)})
    BY FS_Subset
  <2> QED
    BY <1>1, <2>1, <2>2, MoreIsEnough DEF Enough
<1> QED
  BY <1>2, <1>3

--------------------------------------------------------------------------------
(* Types *)

\* A command that has not started has written nothing and wants nothing.
Fresh ==
  \A p \in Procs : pc[p] = "start" =>
    job[p] = "none" /\ own[p] = {} /\ listed[p] = {} /\ todo[p] = {}

\* Past its start it has a job, and a save never removes by name.
Busy ==
  \A p \in Procs :
    /\ pc[p] \in {"list", "inspect", "prune", "lstat", "unlink"} => job[p] # "none"
    /\ pc[p] \in {"lstat", "unlink"} => job[p] # "save"

Types == TypeOK /\ IsFiniteSet(dir) /\ Fresh /\ Busy

LEMMA DirIsFiles == TypeOK => dir \in SUBSET File
BY InitialAssumption DEF TypeOK

LEMMA InitTypes == Init => Types
<1> SUFFICES ASSUME Init PROVE Types
  OBVIOUS
<1>1. /\ pc = [p \in Procs |-> "start"] /\ job = [p \in Procs |-> "none"]
      /\ own = [p \in Procs |-> {}] /\ unseen = [p \in Procs |-> {}]
      /\ listed = [p \in Procs |-> {}] /\ todo = [p \in Procs |-> {}]
      /\ result = [p \in Procs |-> "none"]
  BY DEF Init
<1>2. kind \in Kinds /\ clock \in 0..MaxTime /\ budget \in [Disturbances -> Nat]
      /\ dir = Initial /\ IsFiniteSet(dir)
  BY BudgetAssumption, InitialAssumption DEF Init
<1>3. TypeOK
  BY <1>1, <1>2 DEF TypeOK, Steps
<1>4. Fresh /\ Busy
  BY <1>1 DEF Fresh, Busy
<1> QED
  BY <1>2, <1>3, <1>4 DEF Types

LEMMA SpendOK ==
  ASSUME budget \in [Disturbances -> Nat], NEW d \in Disturbances, Spend(d)
  PROVE  budget' \in [Disturbances -> Nat]
BY DEF Spend

\* A command returns: with an error, killed, or done.
LEMMA EndTypes ==
  ASSUME Types, NEW p \in Procs, NEW res \in {"ok", "error", "killed"}, End(p, res),
         UNCHANGED <<kind, dir, clock, locals>>, budget' \in [Disturbances -> Nat]
  PROVE  Types'
<1>1. pc' = [pc EXCEPT ![p] = "done"] /\ result' = [result EXCEPT ![p] = res]
  BY DEF End, Put
<1>2. TypeOK'
  BY <1>1 DEF Types, TypeOK, Steps, locals
<1>3. \A q \in Procs : pc'[q] # "done" => pc'[q] = pc[q]
  BY <1>1 DEF Types, TypeOK
<1>4. Fresh' /\ Busy'
  BY <1>3 DEF Types, Fresh, Busy, locals
<1> QED
  BY <1>2, <1>4 DEF Types

\* A command goes on, and its locals stay within their types.
LEMMA GoTypes ==
  ASSUME Types, NEW p \in Procs,
         NEW step \in {"list", "inspect", "prune", "lstat", "unlink"},
         pc' = [pc EXCEPT ![p] = step],
         UNCHANGED <<kind, result>>, clock' \in 0..MaxTime, budget' \in [Disturbances -> Nat],
         job' \in [Procs -> {"save", "purge", "delete", "none"}],
         job'[p] # "none", step \in {"lstat", "unlink"} => job'[p] # "save",
         own' \in [Procs -> SUBSET File], \A f \in own'[p] : f.by = p,
         unseen' \in [Procs -> SUBSET File], listed' \in [Procs -> SUBSET File],
         todo' \in [Procs -> SUBSET File],
         \A q \in Procs : q # p =>
           job'[q] = job[q] /\ own'[q] = own[q] /\ listed'[q] = listed[q] /\ todo'[q] = todo[q],
         dir' \subseteq Initial \cup UNION {own'[q] : q \in Procs}, IsFiniteSet(dir')
  PROVE  Types'
<1>1. pc'[p] = step /\ \A q \in Procs : q # p => pc'[q] = pc[q]
  BY DEF Types, TypeOK
<1>2. TypeOK'
  <2>1. pc' \in [Procs -> Steps]
    BY DEF Types, TypeOK, Steps
  <2>2. \A q \in Procs : \A f \in own'[q] : f.by = q
    BY DEF Types, TypeOK
  <2> QED
    BY <2>1, <2>2 DEF Types, TypeOK
<1>3. Fresh' /\ Busy'
  BY <1>1 DEF Types, Fresh, Busy
<1> QED
  BY <1>2, <1>3 DEF Types

\* The same when it writes no file.
LEMMA StepTypes ==
  ASSUME Types, NEW p \in Procs,
         NEW step \in {"list", "inspect", "prune", "lstat", "unlink"},
         pc' = [pc EXCEPT ![p] = step],
         UNCHANGED <<kind, result, clock, own>>, dir' \in SUBSET dir,
         budget' \in [Disturbances -> Nat],
         job' \in [Procs -> {"save", "purge", "delete", "none"}],
         job'[p] # "none", step \in {"lstat", "unlink"} => job'[p] # "save",
         unseen' \in [Procs -> SUBSET File], listed' \in [Procs -> SUBSET File],
         todo' \in [Procs -> SUBSET File],
         \A q \in Procs : q # p => job'[q] = job[q] /\ listed'[q] = listed[q] /\ todo'[q] = todo[q]
  PROVE  Types'
<1>1. own' \in [Procs -> SUBSET File] /\ clock' \in 0..MaxTime
  BY DEF Types, TypeOK
<1>2. \A f \in own'[p] : f.by = p
  BY DEF Types, TypeOK
<1>3. dir' \subseteq Initial \cup UNION {own'[q] : q \in Procs}
  BY DEF Types, TypeOK
<1>4. IsFiniteSet(dir')
  BY FS_Subset DEF Types
<1>5. \A q \in Procs : q # p =>
        job'[q] = job[q] /\ own'[q] = own[q] /\ listed'[q] = listed[q] /\ todo'[q] = todo[q]
  OBVIOUS
<1>6. UNCHANGED <<kind, result>>
  OBVIOUS
<1> QED
  BY <1>1, <1>2, <1>3, <1>4, <1>5, <1>6, GoTypes

LEMMA NextTypes == Types /\ [Next]_vars => Types'
<1> SUFFICES ASSUME Types, [Next]_vars PROVE Types'
  OBVIOUS
<1>1. CASE UNCHANGED vars
  BY <1>1 DEF vars, locals, Types, TypeOK, Fresh, Busy
<1> SUFFICES ASSUME UNCHANGED kind, NEW p \in Procs,
                    \/ Save(p) \/ SaveFails(p) \/ Purge(p) \/ Delete(p) \/ List(p)
                    \/ Inspect(p) \/ Choose(p) \/ Prune(p) \/ Lstat(p) \/ Unlink(p)
                    \/ Return(p) \/ Crash(p)
             PROVE  Types'
  BY <1>1 DEF Next
<1> USE DEF At
<1>2. /\ TypeOK /\ IsFiniteSet(dir) /\ dir \in SUBSET File
      /\ "fail" \in Disturbances /\ "crash" \in Disturbances /\ "back" \in Disturbances
  BY DirIsFiles DEF Types, Disturbances
<1>3. budget \in [Disturbances -> Nat] /\ clock \in 0..MaxTime
      /\ pc \in [Procs -> Steps]
      /\ job \in [Procs -> {"save", "purge", "delete", "none"}]
      /\ own \in [Procs -> SUBSET File] /\ unseen \in [Procs -> SUBSET File]
      /\ listed \in [Procs -> SUBSET File] /\ todo \in [Procs -> SUBSET File]
      /\ (\A q \in Procs : \A f \in own[q] : f.by = q)
      /\ dir \subseteq Initial \cup UNION {own[q] : q \in Procs}
  BY <1>2 DEF TypeOK
<1>4. \A d \in Disturbances : Spend(d) => budget' \in [Disturbances -> Nat]
  BY <1>3, SpendOK
<1>5. ASSUME Fails(p), UNCHANGED clock PROVE Types'
  BY <1>2, <1>4, <1>5, EndTypes DEF Fails
<1>6. ASSUME End(p, "error"), UNCHANGED <<dir, locals, budget>>, UNCHANGED clock PROVE Types'
  BY <1>3, <1>6, EndTypes
<1>7. CASE Save(p)
  <2>1. PICK now \in 0..MaxTime :
          /\ clock' = now /\ dir' = dir \cup {FileName(now, p)}
          /\ own' = [own EXCEPT ![p] = {FileName(now, p)}]
          /\ UNCHANGED budget \/ Spend("back")
    BY <1>7 DEF Save, Put
  <2>2. FileName(now, p) \in File /\ FileName(now, p).by = p
    BY ProcsAssumption DEF FileName, File
  <2>3. own[p] = {} /\ pc' = [pc EXCEPT ![p] = "list"] /\ job' = [job EXCEPT ![p] = "save"]
        /\ UNCHANGED <<unseen, listed, todo, result>>
    BY <1>7 DEF Save, Go, Put, Types, Fresh
  <2>4. dir' \subseteq Initial \cup UNION {own'[q] : q \in Procs}
    BY <1>3, <2>1, <2>3
  <2>5. IsFiniteSet(dir')
    BY <1>2, <2>1, FS_AddElement
  <2>6. budget' \in [Disturbances -> Nat]
    BY <1>2, <1>3, <1>4, <2>1
  <2>7. own' \in [Procs -> SUBSET File] /\ \A f \in own'[p] : f.by = p
    BY <1>3, <2>1, <2>2
  <2>8. /\ job' \in [Procs -> {"save", "purge", "delete", "none"}] /\ job'[p] = "save"
        /\ \A q \in Procs : q # p => job'[q] = job[q] /\ own'[q] = own[q]
    BY <1>3, <2>1, <2>3
  <2> QED
    BY <1>3, <2>1, <2>3, <2>4, <2>5, <2>6, <2>7, <2>8, GoTypes
<1>8. CASE SaveFails(p)
  BY <1>5, <1>8 DEF SaveFails
<1>9. CASE Purge(p)
  <2>1. /\ pc' = [pc EXCEPT ![p] = "list"] /\ job' = [job EXCEPT ![p] = "purge"]
        /\ UNCHANGED <<kind, result, clock, own, dir, budget, unseen, listed, todo>>
    BY <1>9 DEF Purge, Go, Put
  <2>2. /\ job' \in [Procs -> {"save", "purge", "delete", "none"}] /\ job'[p] # "none"
        /\ \A q \in Procs : q # p => job'[q] = job[q]
    BY <1>3, <2>1
  <2> QED
    BY <1>3, <2>1, <2>2, StepTypes
<1>10. CASE Delete(p)
  <2>1. PICK f \in dir : todo' = [todo EXCEPT ![p] = {f}]
    BY <1>10 DEF Delete, Put
  <2>2. todo' \in [Procs -> SUBSET File] /\ \A q \in Procs : q # p => todo'[q] = todo[q]
    BY <1>2, <1>3, <2>1
  <2> QED
    <3>1. /\ pc' = [pc EXCEPT ![p] = "lstat"] /\ job' = [job EXCEPT ![p] = "delete"]
          /\ UNCHANGED <<kind, result, clock, own, dir, budget, unseen, listed>>
      BY <1>10 DEF Delete, Go, Put
    <3>2. /\ job' \in [Procs -> {"save", "purge", "delete", "none"}]
          /\ job'[p] # "none" /\ job'[p] # "save"
          /\ \A q \in Procs : q # p => job'[q] = job[q]
      BY <1>3, <3>1
    <3> QED
      BY <1>3, <2>2, <3>1, <3>2, StepTypes
<1>11. CASE List(p)
  <2>1. CASE /\ unseen' = Put(unseen, p, dir) /\ Go(p, "inspect")
             /\ UNCHANGED <<dir, job, own, listed, todo, budget>>
    <3>1. job[p] # "none"
      BY <1>11 DEF List, Types, Busy
    <3> QED
      <4>1. /\ pc' = [pc EXCEPT ![p] = "inspect"] /\ unseen' = [unseen EXCEPT ![p] = dir]
            /\ UNCHANGED <<kind, result, clock, own, dir, budget, job, listed, todo>>
        BY <1>11, <2>1 DEF List, Go, Put
      <4>2. unseen' \in [Procs -> SUBSET File]
        BY <1>2, <1>3, <4>1
      <4> QED
        BY <1>3, <3>1, <4>1, <4>2, StepTypes
  <2> QED
    BY <1>5, <1>11, <2>1 DEF List
<1>12. CASE Inspect(p)
  <2>1. PICK f \in Oldest(unseen[p]) :
          \/ /\ f \in dir
             /\ unseen' = Put(unseen, p, unseen[p] \ {f})
             /\ listed' = Put(listed, p, listed[p] \cup {f})
             /\ UNCHANGED <<dir, pc, result, job, own, todo, budget>>
          \/ End(p, "error") /\ UNCHANGED <<dir, locals, budget>>
          \/ Fails(p)
    BY <1>12 DEF Inspect
  <2>2. CASE /\ unseen' = Put(unseen, p, unseen[p] \ {f})
             /\ listed' = Put(listed, p, listed[p] \cup {f})
             /\ UNCHANGED <<dir, pc, result, job, own, todo, budget>>
    <3>1. f \in File /\ pc[p] = "inspect" /\ job[p] # "none" /\ UNCHANGED clock
      BY <1>3, <1>12 DEF Oldest, Inspect, Types, Busy
    <3>2. unseen' \in [Procs -> SUBSET File] /\ listed' \in [Procs -> SUBSET File]
          /\ \A q \in Procs : q # p => listed'[q] = listed[q]
      BY <1>3, <2>2, <3>1 DEF Put
    <3>3. pc' = [pc EXCEPT ![p] = "inspect"]
      BY <1>3, <2>2, <3>1
    <3> QED
      BY <1>3, <2>2, <3>1, <3>2, <3>3, StepTypes
  <2> QED
    BY <1>5, <1>6, <1>12, <2>1, <2>2 DEF Inspect
<1>13. CASE Choose(p)
  <2>1. Expired(listed[p]) \in SUBSET File /\ job[p] # "none"
    BY <1>3, <1>13 DEF Expired, Choose, Types, Busy
  <2>2. CASE job[p] = "save"
    BY <1>2, <1>3, <1>13, <2>1, <2>2, GoTypes DEF Choose, Go, Put
  <2>3. CASE job[p] # "save"
    BY <1>2, <1>3, <1>13, <2>1, <2>3, GoTypes DEF Choose, Go, Put
  <2> QED
    BY <2>2, <2>3
<1>14. ASSUME NEW f, NEW step \in {"prune", "lstat", "unlink"}, pc' = [pc EXCEPT ![p] = step],
              pc[p] \in {"prune", "lstat", "unlink"},
              step \in {"lstat", "unlink"} => pc[p] \in {"lstat", "unlink"},
              todo' = Put(todo, p, todo[p] \ {f}) \/ UNCHANGED todo,
              dir' = dir \/ dir' = dir \ {f},
              UNCHANGED <<clock, result, job, own, unseen, listed, budget>>
       PROVE  Types'
  <2>1. job[p] # "none" /\ (step \in {"lstat", "unlink"} => job[p] # "save")
    BY <1>14 DEF Types, Busy
  <2>2. todo' \in [Procs -> SUBSET File] /\ \A q \in Procs : q # p => todo'[q] = todo[q]
    BY <1>3, <1>14 DEF Put
  <2>3. dir' \in SUBSET dir
    BY <1>14
  <2> QED
    BY <1>3, <1>14, <2>1, <2>2, <2>3, StepTypes
<1>15. CASE Prune(p)
  <2>1. PICK f \in Newest(todo[p]) :
          \/ /\ dir' = dir \ {f} /\ todo' = Put(todo, p, todo[p] \ {f})
             /\ UNCHANGED <<pc, result, job, own, unseen, listed, budget>>
          \/ End(p, "error") /\ UNCHANGED <<dir, locals, budget>>
          \/ Fails(p)
    BY <1>15 DEF Prune
  <2>2. pc[p] = "prune" /\ UNCHANGED clock
    BY <1>15 DEF Prune
  <2>3. UNCHANGED pc => pc' = [pc EXCEPT ![p] = "prune"]
    BY <1>3, <2>2
  <2> QED
    BY <1>5, <1>6, <1>14, <2>1, <2>2, <2>3
<1>16. CASE Lstat(p)
  <2>1. PICK f \in Newest(todo[p]) :
          \/ Go(p, "unlink") /\ UNCHANGED <<dir, locals, budget>>
          \/ /\ todo' = Put(todo, p, todo[p] \ {f})
             /\ UNCHANGED <<dir, pc, result, job, own, unseen, listed, budget>>
          \/ Fails(p)
    BY <1>16 DEF Lstat
  <2>2. pc[p] = "lstat" /\ UNCHANGED clock
    BY <1>16 DEF Lstat
  <2>3. UNCHANGED pc => pc' = [pc EXCEPT ![p] = "lstat"]
    BY <1>3, <2>2
  <2>4. CASE Go(p, "unlink") /\ UNCHANGED <<dir, locals, budget>>
    BY <1>14, <2>2, <2>4 DEF Go, Put, locals
  <2> QED
    BY <1>5, <1>14, <2>1, <2>2, <2>3, <2>4
<1>17. CASE Unlink(p)
  <2>1. PICK f \in Newest(todo[p]) :
          \/ /\ dir' = dir \ {f} /\ todo' = Put(todo, p, todo[p] \ {f})
             /\ Go(p, "lstat")
             /\ UNCHANGED <<job, own, unseen, listed, budget>>
          \/ End(p, "error") /\ UNCHANGED <<dir, locals, budget>>
          \/ Fails(p)
    BY <1>17 DEF Unlink
  <2>2. pc[p] = "unlink" /\ UNCHANGED clock
    BY <1>17 DEF Unlink
  <2> QED
    BY <1>5, <1>6, <1>14, <2>1, <2>2 DEF Go, Put
<1>18. CASE Return(p)
  BY <1>3, <1>18, EndTypes DEF Return
<1>19. CASE Crash(p)
  BY <1>2, <1>4, <1>19, EndTypes DEF Crash
<1> QED
  BY <1>7, <1>8, <1>9, <1>10, <1>11, <1>12, <1>13, <1>15, <1>16, <1>17, <1>18, <1>19

\* The types of all variables; every file of the directory is an initial one or was
\* written by the save it is named after (storage.go:48-64, diagnostics.go:142-151).
THEOREM RetentionTypes == Spec => []TypeOK
<1>1. Types => TypeOK
  BY DEF Types
<1> QED
  BY <1>1, InitTypes, NextTypes, PTL DEF Spec

--------------------------------------------------------------------------------
(* What retention removes *)

\* While only saves run: what a command has listed is still there or might go, and what
\* it wants to remove may go.
Settled ==
  OnlySaves => \A p \in Procs :
    /\ \A g \in listed[p] : g \in dir \/ Enough(g, dir)
    /\ \A f \in todo[p] : Enough(f, dir)

\* Saves alone: nobody removes by name, and the job of a running command is to save.
LEMMA SavesOnly ==
  ASSUME Types, OnlySaves, NEW p \in Procs
  PROVE  /\ pc[p] \notin {"lstat", "unlink"}
         /\ pc[p] = "inspect" => job[p] = "save"
BY DEF Types, Busy, OnlySaves

\* Once a file is removed by name, it stays so.
LEMMA OnlySavesBefore ==
  ASSUME Types, [Next]_vars, OnlySaves'
  PROVE  OnlySaves
<1>1. CASE UNCHANGED job
  BY <1>1 DEF OnlySaves
<1>2. ASSUME NEW p \in Procs, Save(p) PROVE OnlySaves
  <2>1. job[p] = "none" /\ job' = [job EXCEPT ![p] = "save"]
    BY <1>2 DEF Save, At, Put, Types, Fresh
  <2> QED
    BY <2>1 DEF OnlySaves, Types, TypeOK
<1>3. ASSUME NEW p \in Procs, Purge(p) \/ Delete(p) PROVE FALSE
  <2>1. job'[p] \in {"purge", "delete"}
    BY <1>3 DEF Purge, Delete, Put, Types, TypeOK
  <2> QED
    BY <2>1 DEF OnlySaves
<1>4. ASSUME NEW p \in Procs,
             SaveFails(p) \/ List(p) \/ Inspect(p) \/ Choose(p) \/ Prune(p) \/ Lstat(p)
               \/ Unlink(p) \/ Return(p) \/ Crash(p)
      PROVE  UNCHANGED job
  BY <1>4 DEF SaveFails, List, Inspect, Choose, Prune, Lstat, Unlink, Return, Crash, Fails,
              locals
<1> QED
  BY <1>1, <1>2, <1>3, <1>4 DEF Next, vars, locals

LEMMA NextSettled == Types /\ Settled /\ [Next]_vars => Settled'
<1> SUFFICES ASSUME Types, Settled, [Next]_vars, OnlySaves' PROVE Settled'
  BY DEF Settled
<1>1. OnlySaves
  BY OnlySavesBefore
<1>2. /\ IsFiniteSet(dir) /\ dir \in SUBSET File
      /\ listed \in [Procs -> SUBSET File] /\ todo \in [Procs -> SUBSET File]
  BY DirIsFiles DEF Types, TypeOK
<1>3. \A q \in Procs : /\ \A g \in listed[q] : g \in dir \/ Enough(g, dir)
                       /\ \A f \in todo[q] : Enough(f, dir)
  BY <1>1 DEF Settled
<1>4. CASE UNCHANGED <<dir, listed, todo>>
  BY <1>3, <1>4 DEF Settled, Enough
<1>5. CASE UNCHANGED vars
  BY <1>4, <1>5 DEF vars, locals
<1> SUFFICES ASSUME NEW p \in Procs,
                    \/ Save(p) \/ SaveFails(p) \/ Purge(p) \/ Delete(p) \/ List(p)
                    \/ Inspect(p) \/ Choose(p) \/ Prune(p) \/ Lstat(p) \/ Unlink(p)
                    \/ Return(p) \/ Crash(p)
             PROVE  Settled'
  BY <1>5 DEF Next
<1> USE DEF At
<1>6. CASE Save(p)
  <2>1. PICK file : dir' = dir \cup {file} /\ UNCHANGED <<listed, todo>>
    BY <1>6 DEF Save
  <2>2. IsFiniteSet(dir') /\ dir \in SUBSET dir'
    BY <1>2, <2>1, FS_AddElement
  <2>3. \A f : Enough(f, dir) => Enough(f, dir')
    BY <2>2, EnoughOfMore
  <2> QED
    BY <1>3, <2>1, <2>3 DEF Settled, Enough
<1>7. CASE Inspect(p)
  <2>1. CASE UNCHANGED <<dir, listed, todo>>
    BY <1>4, <2>1
  <2>2. CASE \E f \in dir : /\ listed' = [listed EXCEPT ![p] = listed[p] \cup {f}]
                            /\ UNCHANGED <<dir, todo>>
    BY <1>2, <1>3, <2>2 DEF Settled, Enough
  <2> QED
    BY <1>7, <2>1, <2>2 DEF Inspect, Fails, Put, locals
<1>8. CASE Choose(p)
  <2>1. job[p] = "save"
    BY <1>1, <1>8, SavesOnly DEF Choose
  <2>2. todo' = [todo EXCEPT ![p] = Expired(listed[p])] /\ UNCHANGED <<dir, listed>>
    BY <1>8, <2>1 DEF Choose, Put
  <2>3. \A f \in Expired(listed[p]) : Enough(f, dir)
    BY <1>2, <1>3, ExpiredMayGo
  <2> QED
    BY <1>2, <1>3, <2>2, <2>3 DEF Settled, Enough
<1>9. CASE Prune(p)
  <2>1. CASE UNCHANGED <<dir, listed, todo>>
    BY <1>4, <2>1
  <2>2. CASE \E f \in todo[p] : /\ dir' = dir \ {f}
                                /\ todo' = [todo EXCEPT ![p] = todo[p] \ {f}]
                                /\ UNCHANGED listed
    <3>1. PICK x \in todo[p] : /\ dir' = dir \ {x}
                               /\ todo' = [todo EXCEPT ![p] = todo[p] \ {x}]
                               /\ UNCHANGED listed
      BY <2>2
    <3>2. x \in File /\ Enough(x, dir)
      BY <1>2, <1>3, <3>1
    <3>3. \A f \in File : Enough(f, dir) => Enough(f, dir')
      BY <1>2, <3>1, <3>2, RemovalLeavesEnough
    <3>4. \A q \in Procs : todo'[q] \subseteq todo[q]
      BY <1>2, <3>1
    <3>5. \A q \in Procs : \A g \in listed[q] : g \in dir' \/ Enough(g, dir')
      BY <1>2, <1>3, <3>1, <3>2, <3>3
    <3>6. \A q \in Procs : \A f \in todo'[q] : Enough(f, dir')
      BY <1>2, <1>3, <3>3, <3>4
    <3> QED
      BY <3>1, <3>5, <3>6 DEF Settled, Enough
  <2> QED
    BY <1>9, <2>1, <2>2 DEF Prune, Newest, Fails, Put, locals
<1>10. CASE Lstat(p) \/ Unlink(p)
  BY <1>1, <1>10, SavesOnly DEF Lstat, Unlink
<1>11. CASE Purge(p) \/ Delete(p)
  <2>1. job'[p] \in {"purge", "delete"}
    BY <1>11 DEF Purge, Delete, Put, Types, TypeOK
  <2> QED
    BY <2>1 DEF OnlySaves
<1>12. CASE SaveFails(p) \/ List(p) \/ Return(p) \/ Crash(p)
  BY <1>4, <1>12 DEF SaveFails, List, Return, Crash, Fails, locals
<1> QED
  BY <1>6, <1>7, <1>8, <1>9, <1>10, <1>11, <1>12

\* A file that retention removes has Limit newer ones in the directory at that moment
\* (storage.go:66-81, diagnostics.go:153-178): with any number of saves side by side,
\* a clock that is set back, failures and kills.
THEOREM OnlyExpiredIsRemoved == Spec => NewestAreKept
<1>1. Init => Settled
  BY DEF Init, Settled
<1>2. Types /\ Settled /\ [Next]_vars =>
        [OnlySaves =>
           \A f \in dir \ dir' : Cardinality({g \in dir' : Newer(g, f)}) >= Limit]_vars
  <2> SUFFICES ASSUME Types, Settled, Next, OnlySaves, NEW x \in dir \ dir'
               PROVE  Enough(x, dir')
    BY DEF vars, locals, Enough
  <2>1. /\ IsFiniteSet(dir) /\ dir \in SUBSET File /\ todo \in [Procs -> SUBSET File]
    BY DirIsFiles DEF Types, TypeOK
  <2>2. PICK p \in Procs :
               \/ Save(p) \/ SaveFails(p) \/ Purge(p) \/ Delete(p) \/ List(p)
               \/ Inspect(p) \/ Choose(p) \/ Prune(p) \/ Lstat(p) \/ Unlink(p)
               \/ Return(p) \/ Crash(p)
    BY DEF Next
  <2>3. ~Lstat(p) /\ ~Unlink(p)
    BY SavesOnly DEF Lstat, Unlink, At
  <2>4. dir' # dir /\ ~(dir \subseteq dir')
    OBVIOUS
  <2>5. Prune(p)
    BY <2>2, <2>3, <2>4 DEF Save, SaveFails, Purge, Delete, List, Inspect, Choose, Return,
                            Crash, Fails
  <2>6. x \in todo[p] /\ dir' = dir \ {x}
    BY <2>4, <2>5 DEF Prune, Newest, Fails
  <2>7. x \in File /\ Enough(x, dir)
    BY <2>1, <2>6 DEF Settled
  <2> QED
    BY <2>1, <2>6, <2>7, RemovalLeavesEnough
<1> QED
  BY <1>1, <1>2, InitTypes, NextTypes, NextSettled, PTL DEF Spec, NewestAreKept

--------------------------------------------------------------------------------
(* What retention leaves *)

\* Of any two files one is the newer.
LEMMA NewerIsTotal ==
  ASSUME NEW f \in File, NEW g \in File, f # g
  PROVE  Newer(f, g) \/ Newer(g, f)
<1>1. f = [at |-> f.at, by |-> f.by] /\ g = [at |-> g.at, by |-> g.by]
  BY DEF File
<1>2. f.at # g.at \/ f.by # g.by
  BY <1>1
<1>3. f.at \in Int /\ g.at \in Int /\ f.by \in Int /\ g.by \in Int
  BY DEF File
<1> QED
  BY <1>2, <1>3 DEF Newer

\* What has not expired fits under the limit: each such file has its own number of newer ones,
\* less than Limit.
LEMMA KeptAreFew ==
  ASSUME NEW D \in SUBSET File, IsFiniteSet(D)
  PROVE  /\ IsFiniteSet(D \ Expired(D))
         /\ Cardinality(D \ Expired(D)) <= Limit
<1> DEFINE Above(f) == {g \in D : Newer(g, f)}
           Kept == D \ Expired(D)
           Rank == [f \in Kept |-> Cardinality(Above(f))]
<1>1. \A f \in D : IsFiniteSet(Above(f)) /\ Cardinality(Above(f)) \in Nat
  BY FS_Subset, FS_CardinalityType
<1>2. \A f \in Kept : f \in D /\ Cardinality(Above(f)) \in 0..Limit-1
  <2> SUFFICES ASSUME NEW f \in Kept PROVE f \in D /\ Cardinality(Above(f)) \in 0..Limit-1
    OBVIOUS
  <2>1. f \in D /\ ~(Cardinality(Above(f)) >= Limit)
    BY DEF Expired
  <2>2. Cardinality(Above(f)) \in Nat
    BY <1>1, <2>1
  <2> HIDE DEF Above
  <2> QED
    BY <2>1, <2>2, LimitAssumption
<1>3. \A f, g \in D : Newer(f, g) => Cardinality(Above(f)) # Cardinality(Above(g))
  <2> SUFFICES ASSUME NEW f \in D, NEW g \in D, Newer(f, g)
               PROVE  Cardinality(Above(f)) # Cardinality(Above(g))
    OBVIOUS
  <2>1. Above(f) \in SUBSET Above(g)
    BY NewerIsOrder
  <2>2. f \in Above(g) /\ f \notin Above(f)
    BY NewerIsOrder
  <2>3. Cardinality(Above(g)) = Cardinality(Above(f)) => Above(g) = Above(f)
    BY <1>1, <2>1, FS_Subset
  <2> QED
    BY <2>2, <2>3
<1>4. \A f, g \in Kept : f # g => Rank[f] # Rank[g]
  BY <1>2, <1>3, NewerIsTotal
<1>5. Rank \in [Kept -> 0..Limit-1]
  BY <1>2
<1>6. Rank \in Injection(Kept, 0..Limit-1)
  BY <1>4, <1>5 DEF Injection, IsInjective
<1>7. IsFiniteSet(0..Limit-1) /\ Cardinality(0..Limit-1) = Limit
  BY LimitAssumption, FS_Interval
<1> HIDE DEF Kept, Rank
<1>8. IsFiniteSet(Kept) /\ Cardinality(Kept) <= Limit
  BY <1>6, <1>7, FS_Injection
<1> QED
  BY <1>8 DEF Kept

\* Commands that wrote one file each have no more files than they are.
FilesOf(W) == UNION {own[p] : p \in W}

LEMMA FilesAreFew ==
  ASSUME Types, NEW W \in SUBSET Procs, IsFiniteSet(W),
         \A p \in W : \E f \in own[p] : own[p] = {f}
  PROVE  /\ IsFiniteSet(FilesOf(W))
         /\ Cardinality(FilesOf(W)) <= Cardinality(W)
<1> DEFINE F == FilesOf(W)
           Writer == [f \in F |-> f.by]
<1>1. \A p \in W : \A f \in own[p] : f.by = p
  BY DEF Types, TypeOK
<1>2. \A f \in F : f.by \in W /\ f \in own[f.by]
  BY <1>1 DEF FilesOf
<1>3. \A f, g \in F : f.by = g.by => f = g
  BY <1>2
<1>4. Writer \in Injection(F, W)
  BY <1>2, <1>3 DEF Injection, IsInjective
<1> HIDE DEF F, Writer
<1>5. IsFiniteSet(F) /\ Cardinality(F) <= Cardinality(W)
  BY <1>4, FS_Injection
<1> QED
  BY <1>5 DEF F

--------------------------------------------------------------------------------
(* What listings know *)

\* The files there have ever been.
Files == Initial \cup UNION {own[p] : p \in Procs}

\* A listing, read or yet to be read.
View(p) == unseen[p] \cup listed[p]

\* The saves that have their listing and go by it, or went by it to their end.
Listers ==
  {p \in Procs : job[p] = "save" /\ (pc[p] \in {"inspect", "prune"} \/ result[p] = "ok")}

Writers == {p \in Procs : Wrote(p)}

\* Only saves write, one file each; a command chooses what to remove when its listing is
\* complete; its result comes with its return.
Shaped(p) ==
  /\ job[p] = "save" => \E f \in own[p] : own[p] = {f}
  /\ job[p] # "save" => own[p] = {} /\ pc[p] # "prune"
  /\ pc[p] \in {"start", "list", "inspect"} => todo[p] = {}
  /\ pc[p] = "done" <=> result[p] # "none"

Known(p) == IsFiniteSet(View(p)) /\ View(p) \subseteq Files

\* A save removes what has expired in its listing, and is done when that is gone.
Pruned(p) ==
  job[p] = "save" =>
    /\ todo[p] \subseteq Expired(listed[p])
    /\ pc[p] = "prune" => unseen[p] = {} /\ Expired(listed[p]) \cap dir \subseteq todo[p]
    /\ result[p] = "ok" => unseen[p] = {} /\ Expired(listed[p]) \cap dir = {}

\* A save's listing shows its own file and the initial ones, if they are still there.
Complete(p) == p \in Listers => (own[p] \cup Initial) \cap dir \subseteq View(p)

Fits(p) == Shaped(p) /\ Known(p) /\ Pruned(p) /\ Complete(p)

\* Of any saves one has listed last, and sees what is still there of the others' listings.
Latest ==
  \A S \in SUBSET Listers : S # {} =>
    \E q \in S : \A p \in S : View(p) \cap dir \subseteq View(q)

IInv == IsFiniteSet(Writers) /\ (\A p \in Procs : Fits(p)) /\ Latest

\* A command that does not move.
Still(q) ==
  /\ pc'[q] = pc[q] /\ job'[q] = job[q] /\ own'[q] = own[q] /\ unseen'[q] = unseen[q]
  /\ listed'[q] = listed[q] /\ todo'[q] = todo[q] /\ result'[q] = result[q]

LEMMA InitIInv == Init => IInv
<1> SUFFICES ASSUME Init PROVE IInv
  OBVIOUS
<1>1. \A p \in Procs : /\ pc[p] = "start" /\ job[p] = "none" /\ own[p] = {} /\ unseen[p] = {}
                       /\ listed[p] = {} /\ todo[p] = {} /\ result[p] = "none"
  BY DEF Init
<1>2. IsFiniteSet(Writers)
  <2>1. Writers = {}
    BY <1>1 DEF Writers, Wrote
  <2> QED
    BY <2>1, FS_EmptySet
<1>3. Listers = {}
  BY <1>1 DEF Listers
<1>4. \A p \in Procs : Fits(p)
  BY <1>1, <1>3, FS_EmptySet DEF Fits, Shaped, Known, Pruned, Complete, View
<1> QED
  BY <1>2, <1>3, <1>4 DEF IInv, Latest

\* What the others know stays true: files only go, but for one nobody has listed.
LEMMA OthersFit ==
  ASSUME NEW p \in Procs, \A q \in Procs \ {p} : Still(q),
         Files \subseteq Files', dir' \cap Files \subseteq dir,
         NEW q \in Procs, q # p, Fits(q)
  PROVE  Fits(q)'
<1>1. Still(q)
  OBVIOUS
<1>2. View(q)' = View(q) /\ View(q) \subseteq Files
  BY <1>1 DEF Still, View, Fits, Known
<1>3. Shaped(q)'
  BY <1>1 DEF Fits, Shaped, Still
<1>4. Known(q)'
  BY <1>2 DEF Fits, Known
<1>5. Pruned(q)'
  <2>1. Expired(listed[q])' = Expired(listed[q])
    BY <1>1 DEF Still, Expired, Newer
  <2>2. Expired(listed[q]) \subseteq Files
    BY <1>2 DEF Expired, View
  <2>3. Expired(listed[q]) \cap dir' \subseteq dir
    BY <2>2
  <2> QED
    BY <1>1, <2>1, <2>3 DEF Fits, Pruned, Still
<1>6. Complete(q)'
  <2>1. q \in Listers' <=> q \in Listers
    BY <1>1 DEF Still, Listers
  <2>2. (own[q] \cup Initial) \subseteq Files
    BY DEF Files
  <2> QED
    BY <1>1, <1>2, <2>1, <2>2 DEF Fits, Complete, Still
<1> QED
  BY <1>3, <1>4, <1>5, <1>6 DEF Fits

\* A step of p keeps the invariant when p fits, and has listed either as before or just now.
LEMMA StepKeeps ==
  ASSUME IInv, NEW p \in Procs, \A q \in Procs \ {p} : Still(q),
         Files \subseteq Files', dir' \cap Files \subseteq dir, Fits(p)',
         p \in Listers' => (p \in Listers /\ View(p)' = View(p)) \/ dir' \subseteq View(p)'
  PROVE  IInv'
<1>1. IsFiniteSet(Writers')
  <2>1. Writers' \in SUBSET (Writers \cup {p})
    BY DEF Writers, Wrote, Still
  <2>2. IsFiniteSet(Writers \cup {p})
    BY FS_AddElement DEF IInv
  <2> QED
    BY <2>1, <2>2, FS_Subset
<1>2. \A q \in Procs : Fits(q)'
  <2> SUFFICES ASSUME NEW q \in Procs PROVE Fits(q)'
    OBVIOUS
  <2>1. Fits(q)
    BY DEF IInv
  <2> QED
    BY <2>1, OthersFit
<1>3. Latest'
  <2> SUFFICES ASSUME NEW S \in SUBSET Listers', S # {}
               PROVE  \E q \in S : \A r \in S : View(r)' \cap dir' \subseteq View(q)'
    BY DEF Latest
  <2>1. CASE p \in S /\ dir' \subseteq View(p)'
    BY <2>1
  <2>2. CASE ~(p \in S /\ dir' \subseteq View(p)')
    <3>1. \A r \in S : r \in Listers /\ View(r)' = View(r) /\ View(r) \subseteq Files
      <4> SUFFICES ASSUME NEW r \in S
                   PROVE  r \in Listers /\ View(r)' = View(r) /\ View(r) \subseteq Files
        OBVIOUS
      <4>1. r \in Procs
        BY DEF Listers
      <4>2. View(r) \subseteq Files
        BY <4>1 DEF IInv, Fits, Known
      <4>3. CASE r = p
        BY <2>2, <4>2, <4>3
      <4>4. CASE r # p
        BY <4>1, <4>2, <4>4 DEF Still, Listers, View
      <4> QED
        BY <4>3, <4>4
    <3>2. PICK q \in S : \A r \in S : View(r) \cap dir \subseteq View(q)
      BY <3>1 DEF IInv, Latest
    <3> QED
      BY <3>1, <3>2
  <2> QED
    BY <2>1, <2>2
<1> QED
  BY <1>1, <1>2, <1>3 DEF IInv

\* A command that saves nothing only reads, removes and returns.
LEMMA ReadersKeep ==
  ASSUME Types, IInv, NEW p \in Procs, \A q \in Procs \ {p} : Still(q),
         own' = own, dir' \subseteq dir, job[p] # "save", job'[p] # "save",
         IsFiniteSet(View(p)'), View(p)' \subseteq Files, Shaped(p)'
  PROVE  IInv'
<1>1. Files' = Files
  BY DEF Files
<1>2. p \notin Listers'
  BY DEF Listers
<1>3. Fits(p)'
  BY <1>1, <1>2 DEF Fits, Known, Pruned, Complete
<1>4. dir' \cap Files \subseteq dir
  OBVIOUS
<1> QED
  BY <1>1, <1>2, <1>3, <1>4, StepKeeps

\* A command returns with an error, or is killed.
LEMMA LeavingKeeps ==
  ASSUME Types, IInv, NEW p \in Procs, NEW res \in {"error", "killed"}, End(p, res),
         UNCHANGED <<dir, locals>>
  PROVE  IInv'
<1>1. /\ pc' = [pc EXCEPT ![p] = "done"] /\ result' = [result EXCEPT ![p] = res]
      /\ pc \in [Procs -> Steps] /\ result \in [Procs -> {"none", "ok", "error", "killed"}]
  BY DEF End, Put, Types, TypeOK
<1>2. pc'[p] = "done" /\ result'[p] = res /\ \A q \in Procs \ {p} : Still(q)
  BY <1>1 DEF Still, locals
<1>3. Files' = Files /\ View(p)' = View(p) /\ dir' = dir /\ own' = own /\ job' = job
      /\ unseen' = unseen /\ listed' = listed /\ todo' = todo
  BY DEF Files, View, locals
<1>4. p \notin Listers'
  BY <1>2 DEF Listers
<1>5. Fits(p)'
  <2>1. Fits(p)
    BY DEF IInv
  <2>2. Shaped(p)'
    BY <1>2, <1>3, <2>1 DEF Fits, Shaped
  <2>3. Known(p)'
    BY <1>3, <2>1 DEF Fits, Known
  <2>4. Pruned(p)'
    BY <1>2, <1>3, <2>1 DEF Fits, Pruned, Expired, Newer
  <2> QED
    BY <1>4, <2>2, <2>3, <2>4 DEF Fits, Complete
<1> QED
  BY <1>2, <1>3, <1>4, <1>5, StepKeeps

LEMMA FailingKeeps ==
  ASSUME Types, IInv, NEW p \in Procs, Fails(p)
  PROVE  IInv'
BY LeavingKeeps DEF Fails

\* A save's file is new to everybody, and it has no listing yet.
LEMMA SaveKeeps ==
  ASSUME Types, IInv, NEW p \in Procs, Save(p)
  PROVE  IInv'
<1>1. PICK now \in 0..MaxTime :
        dir' = dir \cup {FileName(now, p)} /\ own' = [own EXCEPT ![p] = {FileName(now, p)}]
  BY DEF Save, Put
<1> DEFINE file == FileName(now, p)
<1>2. file.by = p
  BY DEF FileName
<1> HIDE DEF file
<1>3. /\ dir' = dir \cup {file} /\ own' = [own EXCEPT ![p] = {file}]
      /\ pc' = [pc EXCEPT ![p] = "list"] /\ job' = [job EXCEPT ![p] = "save"]
      /\ pc[p] = "start" /\ UNCHANGED <<unseen, listed, todo, result>>
  BY <1>1 DEF Save, Put, Go, At, file
<1>4. /\ pc \in [Procs -> Steps] /\ own \in [Procs -> SUBSET File]
      /\ job \in [Procs -> {"save", "purge", "delete", "none"}]
      /\ own[p] = {} /\ todo[p] = {}
      /\ \A q \in Procs : \A f \in own[q] : f.by = q
  BY <1>3 DEF Types, TypeOK, Fresh
<1>5. pc'[p] = "list" /\ job'[p] = "save" /\ own'[p] = {file}
      /\ \A q \in Procs \ {p} : Still(q)
  BY <1>3, <1>4 DEF Still
<1>6. file \notin Files
  BY <1>2, <1>4, InitialAssumption DEF Files
<1>7. Files \subseteq Files'
  <2>1. \A q \in Procs : own[q] \subseteq own'[q]
    BY <1>4, <1>5 DEF Still
  <2> QED
    BY <2>1 DEF Files
<1>8. result[p] = "none" /\ View(p)' = View(p)
  BY <1>3 DEF IInv, Fits, Shaped, View
<1>9. p \notin Listers'
  BY <1>3, <1>5, <1>8 DEF Listers
<1>10. Fits(p)'
  <2>1. Known(p)'
    BY <1>7, <1>8 DEF IInv, Fits, Known
  <2>2. Shaped(p)'
    BY <1>3, <1>4, <1>5, <1>8 DEF Shaped
  <2>3. Pruned(p)'
    BY <1>3, <1>4, <1>5, <1>8 DEF Pruned
  <2> QED
    BY <1>9, <2>1, <2>2, <2>3 DEF Fits, Complete
<1>11. dir' \cap Files \subseteq dir
  BY <1>3, <1>6
<1> QED
  BY <1>5, <1>7, <1>9, <1>10, <1>11, StepKeeps

LEMMA ListKeeps ==
  ASSUME Types, IInv, NEW p \in Procs, List(p)
  PROVE  IInv'
<1>1. CASE Fails(p)
  BY <1>1, FailingKeeps
<1>2. CASE /\ unseen' = Put(unseen, p, dir) /\ Go(p, "inspect")
           /\ UNCHANGED <<dir, job, own, listed, todo, budget>>
  <2>1. /\ unseen' = [unseen EXCEPT ![p] = dir] /\ pc' = [pc EXCEPT ![p] = "inspect"]
        /\ UNCHANGED <<dir, job, own, listed, todo, result>> /\ pc[p] = "list"
        /\ pc \in [Procs -> Steps] /\ unseen \in [Procs -> SUBSET File]
    BY <1>2 DEF List, Put, Go, At, Types, TypeOK
  <2>2. unseen'[p] = dir /\ pc'[p] = "inspect" /\ \A q \in Procs \ {p} : Still(q)
    BY <2>1 DEF Still
  <2>3. Files' = Files /\ View(p)' = dir \cup listed[p] /\ dir \subseteq Files
    BY <2>1, <2>2 DEF Files, View, Types, TypeOK
  <2>4. Fits(p)
    BY DEF IInv
  <2>5. IsFiniteSet(dir \cup listed[p]) /\ listed[p] \subseteq Files
    <3>1. IsFiniteSet(View(p)) /\ View(p) \subseteq Files /\ IsFiniteSet(dir)
      BY <2>4 DEF Fits, Known, Types
    <3>2. IsFiniteSet(listed[p]) /\ listed[p] \subseteq Files
      BY <3>1, FS_Subset DEF View
    <3> QED
      BY <3>1, <3>2, FS_Union
  <2>6. result[p] = "none" /\ todo[p] = {}
    BY <2>1, <2>4 DEF Fits, Shaped
  <2>7. Fits(p)'
    <3>1. Shaped(p)'
      BY <2>1, <2>2, <2>4, <2>6 DEF Fits, Shaped
    <3>2. Known(p)'
      BY <2>3, <2>5 DEF Known
    <3>3. Pruned(p)'
      BY <2>1, <2>2, <2>6 DEF Pruned
    <3>4. Complete(p)'
      BY <2>1, <2>3 DEF Complete
    <3> QED
      BY <3>1, <3>2, <3>3, <3>4 DEF Fits
  <2>8. dir' \cap Files \subseteq dir /\ dir' \subseteq View(p)'
    BY <2>1, <2>3
  <2> QED
    BY <2>2, <2>3, <2>7, <2>8, StepKeeps
<1> QED
  BY <1>1, <1>2 DEF List

LEMMA InspectKeeps ==
  ASSUME Types, IInv, NEW p \in Procs, Inspect(p)
  PROVE  IInv'
<1>1. CASE Fails(p) \/ (End(p, "error") /\ UNCHANGED <<dir, locals, budget>>)
  BY <1>1, FailingKeeps, LeavingKeeps
<1>2. ASSUME NEW f \in unseen[p],
             /\ unseen' = Put(unseen, p, unseen[p] \ {f})
             /\ listed' = Put(listed, p, listed[p] \cup {f})
             /\ UNCHANGED <<dir, pc, result, job, own, todo, budget>>
      PROVE  IInv'
  <2>1. /\ pc[p] = "inspect" /\ unseen \in [Procs -> SUBSET File]
        /\ listed \in [Procs -> SUBSET File]
    BY DEF Inspect, At, Types, TypeOK
  <2>2. /\ unseen'[p] = unseen[p] \ {f} /\ listed'[p] = listed[p] \cup {f}
        /\ \A q \in Procs \ {p} : Still(q)
    BY <1>2, <2>1 DEF Put, Still
  <2>3. Files' = Files /\ View(p)' = View(p) /\ dir' = dir
    BY <1>2, <2>2 DEF Files, View
  <2>4. Fits(p)
    BY DEF IInv
  <2>5. result[p] # "ok" /\ todo[p] = {} /\ (p \in Listers' <=> p \in Listers)
    BY <1>2, <2>1, <2>4 DEF Fits, Shaped, Listers
  <2>6. Fits(p)'
    <3>1. Shaped(p)'
      BY <1>2, <2>4 DEF Fits, Shaped
    <3>2. Known(p)'
      BY <2>3, <2>4 DEF Fits, Known
    <3>3. Pruned(p)'
      BY <1>2, <2>1, <2>5 DEF Pruned
    <3>4. Complete(p)'
      BY <1>2, <2>3, <2>4, <2>5 DEF Fits, Complete
    <3> QED
      BY <3>1, <3>2, <3>3, <3>4 DEF Fits
  <2> QED
    BY <2>2, <2>3, <2>5, <2>6, StepKeeps
<1> QED
  BY <1>1, <1>2 DEF Inspect, Oldest

LEMMA ChooseKeeps ==
  ASSUME Types, IInv, NEW p \in Procs, Choose(p)
  PROVE  IInv'
<1>1. /\ pc[p] = "inspect" /\ unseen[p] = {} /\ UNCHANGED <<dir, job, own, unseen, listed, result>>
      /\ pc \in [Procs -> Steps] /\ todo \in [Procs -> SUBSET File]
  BY DEF Choose, At, Go, Types, TypeOK
<1>2. Fits(p)
  BY DEF IInv
<1>3. result[p] = "none"
  BY <1>1, <1>2 DEF Fits, Shaped
<1>4. Files' = Files /\ View(p)' = View(p)
  BY <1>1 DEF Files, View
<1>5. CASE job[p] = "save"
  <2>1. /\ pc' = [pc EXCEPT ![p] = "prune"] /\ todo' = [todo EXCEPT ![p] = Expired(listed[p])]
    BY <1>5 DEF Choose, Go, Put
  <2>2. pc'[p] = "prune" /\ todo'[p] = Expired(listed[p]) /\ \A q \in Procs \ {p} : Still(q)
    BY <1>1, <2>1 DEF Still
  <2>3. p \in Listers /\ p \in Listers'
    BY <1>1, <1>5, <2>2 DEF Listers
  <2>4. Fits(p)'
    <3>1. Shaped(p)'
      BY <1>1, <1>2, <1>5, <2>2, <1>3 DEF Fits, Shaped
    <3>2. Known(p)'
      BY <1>2, <1>4 DEF Fits, Known
    <3>3. Pruned(p)'
      <4>1. Expired(listed[p])' = Expired(listed[p])
        BY <1>1 DEF Expired, Newer
      <4> QED
        BY <1>1, <1>3, <2>2, <4>1 DEF Pruned
    <3>4. Complete(p)'
      BY <1>1, <1>2, <1>4, <2>3 DEF Fits, Complete
    <3> QED
      BY <3>1, <3>2, <3>3, <3>4 DEF Fits
  <2> QED
    BY <1>1, <1>4, <2>2, <2>3, <2>4, StepKeeps
<1>6. CASE job[p] # "save"
  <2>1. pc' = [pc EXCEPT ![p] = "lstat"] /\ todo' = [todo EXCEPT ![p] = listed[p]]
    BY <1>6 DEF Choose, Go, Put
  <2>2. pc'[p] = "lstat" /\ \A q \in Procs \ {p} : Still(q)
    BY <1>1, <2>1 DEF Still
  <2>3. Shaped(p)'
    BY <1>1, <1>2, <1>3, <1>6, <2>2 DEF Fits, Shaped
  <2>4. IsFiniteSet(View(p)') /\ View(p)' \subseteq Files
    BY <1>2, <1>4 DEF Fits, Known
  <2> QED
    BY <1>1, <1>6, <2>2, <2>3, <2>4, ReadersKeep
<1> QED
  BY <1>5, <1>6

\* A save at its pruning saves, and goes by its listing.
LEMMA PrunerSaves ==
  ASSUME IInv, NEW p \in Procs, pc[p] = "prune"
  PROVE  job[p] = "save" /\ p \in Listers
BY DEF IInv, Fits, Shaped, Listers

LEMMA PruneKeeps ==
  ASSUME Types, IInv, NEW p \in Procs, Prune(p)
  PROVE  IInv'
<1>1. CASE Fails(p) \/ (End(p, "error") /\ UNCHANGED <<dir, locals, budget>>)
  BY <1>1, FailingKeeps, LeavingKeeps
<1>2. ASSUME NEW f, dir' = dir \ {f}, todo' = Put(todo, p, todo[p] \ {f}),
             UNCHANGED <<pc, result, job, own, unseen, listed, budget>>
      PROVE  IInv'
  <2>1. pc[p] = "prune" /\ todo \in [Procs -> SUBSET File] /\ job[p] = "save" /\ p \in Listers
    BY PrunerSaves DEF Prune, At, Types, TypeOK
  <2>2. todo'[p] = todo[p] \ {f} /\ \A q \in Procs \ {p} : Still(q)
    BY <1>2, <2>1 DEF Put, Still
  <2>3. Files' = Files /\ View(p)' = View(p)
    BY <1>2 DEF Files, View
  <2>4. Fits(p)
    BY DEF IInv
  <2>5. Fits(p)'
    <3>1. Shaped(p)'
      BY <1>2, <2>1, <2>4 DEF Fits, Shaped
    <3>2. Known(p)'
      BY <2>3, <2>4 DEF Fits, Known
    <3>3. Pruned(p)'
      <4>1. Expired(listed[p])' = Expired(listed[p])
        BY <1>2 DEF Expired, Newer
      <4> QED
        BY <1>2, <2>1, <2>2, <2>4, <4>1 DEF Fits, Pruned
    <3>4. Complete(p)'
      BY <1>2, <2>1, <2>3, <2>4 DEF Fits, Complete
    <3> QED
      BY <3>1, <3>2, <3>3, <3>4 DEF Fits
  <2>6. dir' \cap Files \subseteq dir
    BY <1>2
  <2> QED
    BY <2>1, <2>2, <2>3, <2>5, <2>6, StepKeeps
<1> QED
  BY <1>1, <1>2 DEF Prune

LEMMA ReturnKeeps ==
  ASSUME Types, IInv, NEW p \in Procs, Return(p)
  PROVE  IInv'
<1>1. /\ pc[p] \in {"prune", "lstat"} /\ todo[p] = {} /\ UNCHANGED <<dir, locals>>
      /\ pc' = [pc EXCEPT ![p] = "done"] /\ result' = [result EXCEPT ![p] = "ok"]
      /\ pc \in [Procs -> Steps] /\ result \in [Procs -> {"none", "ok", "error", "killed"}]
  BY DEF Return, End, Put, Types, TypeOK
<1>2. /\ pc'[p] = "done" /\ result'[p] = "ok" /\ \A q \in Procs \ {p} : Still(q)
      /\ own' = own /\ job' = job /\ unseen' = unseen /\ listed' = listed /\ todo' = todo
  BY <1>1 DEF Still, locals
<1>3. Files' = Files /\ View(p)' = View(p)
  BY <1>2 DEF Files, View
<1>4. Fits(p)
  BY DEF IInv
<1>5. Shaped(p)' /\ Known(p)'
  BY <1>2, <1>3, <1>4 DEF Fits, Shaped, Known
<1>6. CASE job[p] = "save"
  <2>1. pc[p] = "prune" /\ p \in Listers
    BY <1>1, <1>6 DEF Types, Busy, Listers
  <2>2. Pruned(p)'
    <3>1. Expired(listed[p])' = Expired(listed[p])
      BY <1>2 DEF Expired, Newer
    <3> QED
      BY <1>1, <1>2, <1>4, <1>6, <2>1, <3>1 DEF Fits, Pruned
  <2>3. Complete(p)'
    BY <1>1, <1>2, <1>3, <1>4, <2>1 DEF Fits, Complete
  <2>4. Fits(p)'
    BY <1>5, <2>2, <2>3 DEF Fits
  <2> QED
    BY <1>1, <1>2, <1>3, <2>1, <2>4, StepKeeps
<1>7. CASE job[p] # "save"
  <2>1. IsFiniteSet(View(p)') /\ View(p)' \subseteq Files
    BY <1>3, <1>4 DEF Fits, Known
  <2> QED
    BY <1>1, <1>2, <1>5, <1>7, <2>1, ReadersKeep
<1> QED
  BY <1>6, <1>7

\* Removal by name is nobody's save.
LEMMA ByHandKeeps ==
  ASSUME Types, IInv, NEW p \in Procs, Purge(p) \/ Delete(p) \/ Lstat(p) \/ Unlink(p)
  PROVE  IInv'
<1>1. CASE Fails(p) \/ (End(p, "error") /\ UNCHANGED <<dir, locals, budget>>)
  BY <1>1, FailingKeeps, LeavingKeeps
<1>2. /\ Fits(p) /\ (pc[p] = "start" => job[p] = "none")
      /\ pc[p] \in {"lstat", "unlink"} => job[p] # "save"
  BY DEF IInv, Types, Fresh, Busy
<1>3. /\ pc \in [Procs -> Steps] /\ todo \in [Procs -> SUBSET File]
      /\ job \in [Procs -> {"save", "purge", "delete", "none"}]
  BY DEF Types, TypeOK
<1>4. ASSUME NEW step \in {"list", "lstat", "unlink"}, pc' = [pc EXCEPT ![p] = step],
             pc[p] \in {"start", "lstat", "unlink"},
             job[p] # "save", job'[p] # "save", \A q \in Procs \ {p} : job'[q] = job[q],
             step = "list" => todo'[p] = {}, \A q \in Procs \ {p} : todo'[q] = todo[q],
             dir' \subseteq dir, UNCHANGED <<own, unseen, listed, result>>
      PROVE  IInv'
  <2>1. pc'[p] = step /\ \A q \in Procs \ {p} : Still(q)
    BY <1>3, <1>4 DEF Still
  <2>2. View(p)' = View(p)
    BY <1>4 DEF View
  <2>3. IsFiniteSet(View(p)') /\ View(p)' \subseteq Files
    BY <1>2, <2>2 DEF Fits, Known
  <2>4. Shaped(p)'
    BY <1>2, <1>4, <2>1 DEF Fits, Shaped
  <2> QED
    BY <1>4, <2>1, <2>3, <2>4, ReadersKeep
<1>5. CASE Purge(p)
  <2>1. /\ pc' = [pc EXCEPT ![p] = "list"] /\ job' = [job EXCEPT ![p] = "purge"]
        /\ UNCHANGED <<dir, own, unseen, listed, todo, result>> /\ pc[p] = "start"
    BY <1>5 DEF Purge, Go, Put, At
  <2>2. todo[p] = {}
    BY <1>2, <2>1 DEF Fits, Shaped
  <2> QED
    BY <1>2, <1>3, <1>4, <2>1, <2>2
<1>6. CASE Delete(p)
  <2>1. /\ pc' = [pc EXCEPT ![p] = "lstat"] /\ job' = [job EXCEPT ![p] = "delete"]
        /\ \E f : todo' = [todo EXCEPT ![p] = {f}]
        /\ UNCHANGED <<dir, own, unseen, listed, result>> /\ pc[p] = "start"
    BY <1>6 DEF Delete, Go, Put, At
  <2> QED
    BY <1>2, <1>3, <1>4, <2>1
<1>7. ASSUME pc[p] \in {"lstat", "unlink"}, NEW f, NEW step \in {"lstat", "unlink"},
             pc' = [pc EXCEPT ![p] = step], dir' \subseteq dir,
             todo' = Put(todo, p, todo[p] \ {f}) \/ UNCHANGED todo,
             UNCHANGED <<job, own, unseen, listed, result>>
      PROVE  IInv'
  <2>1. \A q \in Procs \ {p} : todo'[q] = todo[q]
    BY <1>3, <1>7 DEF Put
  <2> QED
    BY <1>2, <1>4, <1>7, <2>1
<1>8. CASE Lstat(p)
  <2>1. pc[p] = "lstat"
    BY <1>8 DEF Lstat, At
  <2>2. CASE Go(p, "unlink") /\ UNCHANGED <<dir, locals, budget>>
    BY <1>7, <2>1, <2>2 DEF Go, Put, locals
  <2>3. ASSUME NEW f, todo' = Put(todo, p, todo[p] \ {f}),
               UNCHANGED <<dir, pc, result, job, own, unseen, listed, budget>>
        PROVE  IInv'
    <3>1. pc' = [pc EXCEPT ![p] = "lstat"]
      BY <1>3, <2>1, <2>3
    <3> QED
      BY <1>7, <2>1, <2>3, <3>1
  <2> QED
    BY <1>1, <1>8, <2>2, <2>3 DEF Lstat
<1>9. CASE Unlink(p)
  <2>1. pc[p] = "unlink"
    BY <1>9 DEF Unlink, At
  <2>2. ASSUME NEW f, dir' = dir \ {f}, todo' = Put(todo, p, todo[p] \ {f}), Go(p, "lstat"),
               UNCHANGED <<job, own, unseen, listed, budget>>
        PROVE  IInv'
    <3>1. pc' = [pc EXCEPT ![p] = "lstat"] /\ UNCHANGED result /\ dir' \subseteq dir
      BY <2>2 DEF Go, Put
    <3> QED
      BY <1>7, <2>1, <2>2, <3>1
  <2> QED
    BY <1>1, <1>9, <2>2 DEF Unlink
<1> QED
  BY <1>5, <1>6, <1>8, <1>9

LEMMA NextIInv == Types /\ IInv /\ [Next]_vars => IInv'
<1> SUFFICES ASSUME Types, IInv, [Next]_vars PROVE IInv'
  OBVIOUS
<1>1. CASE UNCHANGED vars
  <2>1. /\ pc' = pc /\ job' = job /\ own' = own /\ unseen' = unseen /\ listed' = listed
        /\ todo' = todo /\ result' = result /\ dir' = dir
    BY <1>1 DEF vars, locals
  <2>2. Files' = Files /\ Listers' = Listers /\ Writers' = Writers
    BY <2>1 DEF Files, Listers, Writers, Wrote
  <2>3. \A p \in Procs : View(p)' = View(p) /\ Fits(p)'
    BY <2>1, <2>2 DEF IInv, Fits, Shaped, Known, Pruned, Complete, View, Expired, Newer
  <2>4. Latest'
    <3> SUFFICES ASSUME NEW S \in SUBSET Listers, S # {}
                 PROVE  \E q \in S : \A r \in S : View(r)' \cap dir \subseteq View(q)'
      BY <2>1, <2>2 DEF Latest
    <3>1. S \subseteq Procs
      BY DEF Listers
    <3> QED
      BY <2>3, <3>1 DEF IInv, Latest
  <2> QED
    BY <2>2, <2>3, <2>4 DEF IInv
<1>2. ASSUME NEW p \in Procs, SaveFails(p) \/ Crash(p) PROVE IInv'
  BY <1>2, FailingKeeps, LeavingKeeps DEF SaveFails, Crash
<1> QED
  BY <1>1, <1>2, SaveKeeps, ListKeeps, InspectKeeps, ChooseKeeps, PruneKeeps, ReturnKeeps,
     ByHandKeeps DEF Next

\* While no save is under way, the directory is what the last complete listing keeps, or what
\* was there, and the files of failed saves.
LEMMA QuietIsBounded ==
  ASSUME Types, IInv, Quiet
  PROVE  Cardinality(dir) <= Limit + Cardinality(Failed)
<1> DEFINE Ok == {p \in Procs : Wrote(p) /\ result[p] = "ok"}
<1>1. \A p \in Procs : Fits(p)
  BY DEF IInv
<1>2. Ok \subseteq Listers
  BY <1>1 DEF Listers, Fits, Shaped, Wrote
<1>3. IsFiniteSet(Failed) /\ Failed \in SUBSET Procs
  <2>1. Failed \in SUBSET Writers
    BY DEF Failed, Writers
  <2> QED
    BY <2>1, FS_Subset DEF IInv, Failed
<1>4. \A p \in Failed : \E f \in own[p] : own[p] = {f}
  BY <1>1 DEF Failed, Wrote, Fits, Shaped
<1>5. IsFiniteSet(FilesOf(Failed)) /\ Cardinality(FilesOf(Failed)) <= Cardinality(Failed)
  BY <1>3, <1>4, FilesAreFew
<1>6. dir \subseteq Initial \cup FilesOf(Failed) \cup FilesOf(Ok)
  <2> SUFFICES ASSUME NEW f \in dir, f \notin Initial PROVE f \in FilesOf(Failed) \cup FilesOf(Ok)
    OBVIOUS
  <2>1. PICK p \in Procs : f \in own[p]
    BY DEF Types, TypeOK
  <2>2. p \in Failed \/ p \in Ok
    BY <2>1 DEF Failed, Wrote
  <2> QED
    BY <2>1, <2>2 DEF FilesOf
<1>7. \E K : /\ IsFiniteSet(K) /\ Cardinality(K) <= Limit
             /\ dir \subseteq K \cup FilesOf(Failed)
  <2>1. CASE Ok = {}
    <3>1. FilesOf(Ok) = {}
      BY <2>1 DEF FilesOf
    <3> QED
      BY <1>6, <3>1, InitialAssumption
  <2>2. CASE Ok # {}
    <3>1. PICK q \in Ok : \A p \in Ok : View(p) \cap dir \subseteq View(q)
      BY <1>2, <2>2 DEF IInv, Latest
    <3>2. \A p \in Ok : (own[p] \cup Initial) \cap dir \subseteq View(p)
      BY <1>1, <1>2 DEF Fits, Complete
    <3>3. dir \subseteq View(q) \cup FilesOf(Failed)
      BY <1>6, <3>1, <3>2 DEF FilesOf
    <3>4. /\ unseen[q] = {} /\ Expired(listed[q]) \cap dir = {}
          /\ IsFiniteSet(View(q)) /\ listed[q] \in SUBSET File
      BY <1>1, <1>2, <3>1 DEF Fits, Pruned, Known, Listers, Types, TypeOK
    <3>5. View(q) = listed[q]
      BY <3>4 DEF View
    <3>6. dir \subseteq (listed[q] \ Expired(listed[q])) \cup FilesOf(Failed)
      BY <3>3, <3>4, <3>5
    <3> QED
      BY <3>4, <3>5, <3>6, KeptAreFew
  <2> QED
    BY <2>1, <2>2
<1>8. PICK K : /\ IsFiniteSet(K) /\ Cardinality(K) <= Limit
               /\ dir \in SUBSET (K \cup FilesOf(Failed))
  BY <1>7
<1> DEFINE F == FilesOf(Failed)
<1>9. /\ IsFiniteSet(K \cup F)
      /\ Cardinality(K \cup F) = Cardinality(K) + Cardinality(F) - Cardinality(K \cap F)
  BY <1>5, <1>8, FS_Union
<1>10. Cardinality(dir) <= Cardinality(K \cup F)
  BY <1>8, <1>9, FS_Subset
<1>11. /\ Cardinality(K) \in Nat /\ Cardinality(F) \in Nat /\ Cardinality(K \cap F) \in Nat
       /\ Cardinality(dir) \in Nat /\ Cardinality(Failed) \in Nat /\ Cardinality(K \cup F) \in Nat
  <2>1. IsFiniteSet(K \cap F)
    BY <1>8, FS_Intersection
  <2> QED
    BY <1>3, <1>5, <1>8, <1>9, <2>1, FS_CardinalityType DEF Types
<1>12. Cardinality(F) <= Cardinality(Failed)
  BY <1>5
<1> HIDE DEF F
<1> QED
  BY <1>8, <1>9, <1>10, <1>11, <1>12, LimitAssumption

\* The directory is bounded however listings and removals of any number of saves, purges and
\* deletions mix, whatever the clock does: only a save that reported an error or was killed may
\* leave one file over the limit (storage.go:48-81, diagnostics.go:142-178).
THEOREM DirectoryIsBounded == Spec => []Bounded
<1>1. Types /\ IInv => Bounded
  BY QuietIsBounded DEF Bounded
<1> QED
  BY <1>1, InitTypes, NextTypes, InitIInv, NextIInv, PTL DEF Spec

--------------------------------------------------------------------------------
(* Whose file survives *)

\* Nobody writes more than Limit files, and what is written is newer than what was there.
FewAndNewer ==
  /\ OnlySaves /\ Cardinality(Writers) <= Limit
  /\ \A p \in Procs : \A g \in own[p], f \in Initial : Newer(g, f)

\* Then everybody's file is there, also while others prune.
OwnKept == FewAndNewer => \A p \in Procs : own[p] \subseteq dir

\* Files are never taken back from who wrote them.
LEMMA OwnGrows ==
  ASSUME Types, [Next]_vars
  PROVE  /\ \A p \in Procs : own[p] \subseteq own'[p]
         /\ \A p \in Procs : own'[p] \subseteq own[p] \cup dir'
<1>1. own \in [Procs -> SUBSET File] /\ \A p \in Procs : pc[p] = "start" => own[p] = {}
  BY DEF Types, TypeOK, Fresh
<1>2. CASE UNCHANGED own
  BY <1>2
<1>3. ASSUME NEW p \in Procs, Save(p)
      PROVE  /\ \A q \in Procs : own[q] \subseteq own'[q]
             /\ \A q \in Procs : own'[q] \subseteq own[q] \cup dir'
  <2>1. PICK file : own' = [own EXCEPT ![p] = {file}] /\ file \in dir' /\ pc[p] = "start"
    BY <1>3 DEF Save, Put, At
  <2> QED
    BY <1>1, <2>1
<1>4. ASSUME NEW p \in Procs,
             SaveFails(p) \/ Purge(p) \/ Delete(p) \/ List(p) \/ Inspect(p) \/ Choose(p)
               \/ Prune(p) \/ Lstat(p) \/ Unlink(p) \/ Return(p) \/ Crash(p)
      PROVE  UNCHANGED own
  BY <1>4 DEF SaveFails, Purge, Delete, List, Inspect, Choose, Prune, Lstat, Unlink, Return,
              Crash, Fails, locals
<1> QED
  BY <1>2, <1>3, <1>4 DEF Next, vars, locals

LEMMA FewAndNewerBefore ==
  ASSUME Types, IInv, IInv', [Next]_vars, FewAndNewer'
  PROVE  FewAndNewer
<1>1. OnlySaves
  BY OnlySavesBefore DEF FewAndNewer
<1>2. \A p \in Procs : own[p] \subseteq own'[p]
  BY OwnGrows
<1>3. Cardinality(Writers) <= Limit
  <2>1. Writers \in SUBSET Writers' /\ IsFiniteSet(Writers') /\ Cardinality(Writers') <= Limit
    BY <1>2 DEF Writers, Wrote, IInv, FewAndNewer
  <2>2. Cardinality(Writers) <= Cardinality(Writers') /\ IsFiniteSet(Writers)
    BY <2>1, FS_Subset
  <2>3. Cardinality(Writers) \in Nat /\ Cardinality(Writers') \in Nat
    BY <2>1, <2>2, FS_CardinalityType
  <2> QED
    BY <2>1, <2>2, <2>3, LimitAssumption
<1>4. \A p \in Procs : \A g \in own[p], f \in Initial : Newer(g, f)
  BY <1>2 DEF FewAndNewer, Newer
<1> QED
  BY <1>1, <1>3, <1>4 DEF FewAndNewer

\* What a save prunes is nobody's new file: Limit newer ones would be new as well, and of
\* other saves.
LEMMA NewAreNotExpired ==
  ASSUME Types, IInv, FewAndNewer, NEW p \in Procs, NEW q \in Procs, NEW f \in own[p],
         job[q] = "save", f \in todo[q]
  PROVE  FALSE
<1> DEFINE Above == {g \in listed[q] : Newer(g, f)}
           Others == Writers \ {p}
<1>1. Fits(p) /\ Fits(q) /\ IsFiniteSet(Writers) /\ Others \in SUBSET Procs
  BY DEF IInv, Writers
<1>2. f \in listed[q] /\ Cardinality(Above) >= Limit
  BY <1>1 DEF Fits, Pruned, Expired
<1>3. own[p] = {f} /\ f \in File /\ listed[q] \in SUBSET File /\ Initial \in SUBSET File
      /\ own \in [Procs -> SUBSET File]
  BY <1>1, InitialAssumption DEF Fits, Shaped, Types, TypeOK
<1>4. Above \subseteq FilesOf(Others)
  <2> SUFFICES ASSUME NEW g \in listed[q], Newer(g, f) PROVE g \in FilesOf(Others)
    OBVIOUS
  <2>1. g \in Files /\ g \in File
    BY <1>1, <1>3 DEF Fits, Known, View
  <2>2. g \notin Initial
    <3>1. g \in Initial => Newer(f, g)
      BY DEF FewAndNewer
    <3> QED
      BY <1>3, <2>1, <3>1, NewerIsOrder
  <2>3. PICK r \in Procs : g \in own[r]
    BY <2>1, <2>2 DEF Files
  <2>4. r # p
    BY <1>3, <2>1, <2>3, NewerIsOrder
  <2> QED
    BY <2>3, <2>4 DEF FilesOf, Writers, Wrote
<1>5. IsFiniteSet(Others) /\ Cardinality(Others) = Cardinality(Writers) - 1
  <2>1. p \in Writers
    BY DEF Writers, Wrote
  <2> QED
    BY <1>1, <2>1, FS_RemoveElement
<1>6. IsFiniteSet(FilesOf(Others)) /\ Cardinality(FilesOf(Others)) <= Cardinality(Others)
  <2>1. \A r \in Others : \E g \in own[r] : own[r] = {g}
    BY DEF IInv, Fits, Shaped, Writers, Wrote
  <2> QED
    BY <1>1, <1>5, <2>1, FilesAreFew
<1>7. IsFiniteSet(Above) /\ Cardinality(Above) <= Cardinality(FilesOf(Others))
  BY <1>4, <1>6, FS_Subset
<1>8. /\ Cardinality(Above) \in Nat /\ Cardinality(Others) \in Nat
      /\ Cardinality(FilesOf(Others)) \in Nat /\ Cardinality(Writers) \in Nat
  BY <1>1, <1>5, <1>6, <1>7, FS_CardinalityType
<1>9. Cardinality(Writers) <= Limit
  BY DEF FewAndNewer
<1> HIDE DEF Above, Others
<1> QED
  BY <1>2, <1>5, <1>6, <1>7, <1>8, <1>9, LimitAssumption

LEMMA NextOwnKept == Types /\ IInv /\ IInv' /\ OwnKept /\ [Next]_vars => OwnKept'
<1> SUFFICES ASSUME Types, IInv, IInv', OwnKept, [Next]_vars, FewAndNewer'
             PROVE  (\A p \in Procs : own[p] \subseteq dir)'
  BY DEF OwnKept
<1>1. FewAndNewer /\ \A p \in Procs : own[p] \subseteq dir
  BY FewAndNewerBefore DEF OwnKept
<1>2. \A p \in Procs : own'[p] \subseteq own[p] \cup dir'
  BY OwnGrows
<1>3. CASE dir \subseteq dir'
  BY <1>1, <1>2, <1>3
<1>4. CASE ~(dir \subseteq dir')
  <2>1. PICK q \in Procs :
               \/ Save(q) \/ SaveFails(q) \/ Purge(q) \/ Delete(q) \/ List(q)
               \/ Inspect(q) \/ Choose(q) \/ Prune(q) \/ Lstat(q) \/ Unlink(q)
               \/ Return(q) \/ Crash(q)
    BY <1>4 DEF Next, vars
  <2>2. ~Lstat(q) /\ ~Unlink(q)
    BY <1>1, SavesOnly DEF Lstat, Unlink, At, FewAndNewer
  <2>3. Prune(q)
    BY <1>4, <2>1, <2>2 DEF Save, SaveFails, Purge, Delete, List, Inspect, Choose, Return,
                            Crash, Fails
  <2>4. PICK x \in todo[q] : dir' = dir \ {x}
    BY <1>4, <2>3 DEF Prune, Newest, Fails
  <2>5. job[q] = "save"
    BY <2>3, PrunerSaves DEF Prune, At
  <2>6. \A p \in Procs : x \notin own[p]
    BY <1>1, <2>4, <2>5, NewAreNotExpired
  <2> QED
    BY <1>1, <1>2, <2>4, <2>6
<1> QED
  BY <1>3, <1>4

\* A save that reports success has left its file behind, with any number of saves of which at
\* most Limit write, whatever fails or dies: a transaction that goes on after its backup has
\* one (storage.go:48-81).
THEOREM SavesKeepTheirFile == Spec => []OwnFileSurvives
<1>1. Init => OwnKept
  BY DEF Init, OwnKept
<1>2. OwnKept => OwnFileSurvives
  BY DEF OwnKept, OwnFileSurvives, FewAndNewer, Writers
<1> QED
  BY <1>1, <1>2, InitTypes, NextTypes, InitIInv, NextIInv, NextOwnKept, PTL DEF Spec
================================================================================
