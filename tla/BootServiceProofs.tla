--------------------------- MODULE BootServiceProofs ---------------------------
(***************************************************************************)
(* Enabling and disabling the boot service, for any number of disturbances *)
(* of each kind: what a rollback has restored so far is a relation between *)
(* the unit, the state Check saw and the state the call began in, one      *)
(* relation for each step of the call.                                     *)
(***************************************************************************)
EXTENDS BootService, TLAPS

\* Past the reading of the file it is PMM's own or absent: a foreign one ends the call.
Looking == {"idle", "check enabled", "check active", "read"}
OwnDuringCall == pc \notin Looking => OwnText(unit.file)

IInv == TypeOK /\ OwnDuringCall

LEMMA Records ==
  ASSUME NEW u \in Unit, NEW text \in Texts
  PROVE  /\ WithFile(u, text) \in Unit /\ WithFile(u, text).file = text
         /\ WithFile(u, text).enabled = u.enabled /\ WithFile(u, text).active = u.active
         /\ \A v \in {Enabled(u), Started(u), Disabled(u), Stopped(u), DisabledNow(u)} :
              v \in Unit /\ v.file = u.file
BY DEF Unit, WithFile, Enabled, Started, Disabled, Stopped, DisabledNow

LEMMA Units == NoUnit \in Unit /\ NoUnit.file = "none"
BY DEF NoUnit, Unit, Texts

LEMMA SpendOK ==
  ASSUME budget \in [Disturbances -> Nat], NEW d \in Disturbances, Spend(d)
  PROVE  budget' \in [Disturbances -> Nat]
BY DEF Spend

LEMMA CalmOrFail ==
  ASSUME TypeOK, Calm \/ Fail
  PROVE  failures' \in Nat /\ budget' \in [Disturbances -> Nat]
<1>1. failures \in Nat /\ budget \in [Disturbances -> Nat] /\ "fail" \in Disturbances
  BY DEF TypeOK, Disturbances
<1>2. CASE Calm
  BY <1>1, <1>2 DEF Calm
<1>3. CASE Fail
  BY <1>1, <1>3, SpendOK DEF Fail
<1> QED
  BY <1>2, <1>3

LEMMA NextIInv == IInv /\ [Next]_vars => IInv'
<1> SUFFICES ASSUME IInv, [Next]_vars PROVE IInv'
  OBVIOUS
<1> USE DEF IInv, TypeOK, OwnDuringCall, Looking, OwnText, At
<1>1. "none" \in Texts /\ "v6" \in Texts
  BY DEF Texts
<1>2. Calm \/ Fail => failures' \in Nat /\ budget' \in [Disturbances -> Nat]
  BY CalmOrFail
<1>3. \A u \in {Enabled(unit), Started(unit), Disabled(unit), Stopped(unit), DisabledNow(unit)} :
        u \in Unit /\ u.file = unit.file
  BY Records, <1>1
<1>4. \A text \in Texts : WithFile(unit, text) \in Unit /\ WithFile(unit, text).file = text
  BY Records
<1>5. CASE Enable \/ Disable
  <2>1. CASE Enable
    BY <2>1, 0 \in Nat DEF Enable
  <2>2. CASE Disable
    <3>1. "fail" \in Disturbances
      BY DEF Disturbances
    <3>2. budget' \in [Disturbances -> Nat]
      BY <2>2, <3>1, SpendOK DEF Disable
    <3> QED
      BY <2>2, <3>2, 0 \in Nat, 1 \in Nat DEF Disable
  <2> QED
    BY <1>5, <2>1, <2>2
<1>6. CASE CheckEnabled \/ CheckActive
  <2>1. /\ pc' \in {"check active", "read"} /\ (Calm \/ Fail)
        /\ UNCHANGED <<unit, cancelled, start, result>>
    BY <1>6 DEF CheckEnabled, CheckActive, Query
  <2>2. \/ \E answer \in BOOLEAN : before' = [before EXCEPT !.enabled = answer]
        \/ \E answer \in BOOLEAN : before' = [before EXCEPT !.active = answer]
    BY <1>6 DEF CheckEnabled, CheckActive
  <2>3. before' \in Unit /\ before'.file = before.file
    BY <2>2 DEF Unit
  <2> QED
    BY <1>2, <2>1, <2>3
<1>6a. CASE ReadFile
  <2>1. WithFile(before, unit.file) \in Unit /\ WithFile(before, unit.file).file = unit.file
    <3>1. unit.file \in Texts
      BY DEF Unit
    <3> QED
      BY <3>1, Records
  <2> QED
    BY <1>1, <1>2, <1>6a, <2>1, Units DEF ReadFile, OwnFile, End
<1>7. CASE Write
  BY <1>1, <1>2, <1>4, <1>7, Units DEF Write, FileOperation, Go, End
<1>8. CASE Reload
  BY <1>2, <1>8 DEF Reload, Systemctl, Go
<1>9. CASE SetEnabled
  BY <1>2, <1>3, <1>9 DEF SetEnabled, Systemctl, Go
<1>10. CASE SetActive
  BY <1>2, <1>3, <1>10, Units DEF SetActive, Systemctl, Go, End
<1>11. CASE UndoFile
  BY <1>1, <1>2, <1>4, <1>11 DEF UndoFile, FileOperation, Go
<1>12. CASE UndoReload
  BY <1>2, <1>12 DEF UndoReload, Systemctl, AfterReload, Go
<1>13. CASE UndoEnable
  BY <1>2, <1>3, <1>13 DEF UndoEnable, Systemctl, Go
<1>14. CASE UndoActive
  BY <1>2, <1>3, <1>14, Units DEF UndoActive, Systemctl, End
<1>15. CASE Drop
  BY <1>2, <1>3, <1>15, Units DEF Drop, Systemctl, Go, End
<1>16. CASE Remove
  BY <1>1, <1>2, <1>4, <1>16, Units DEF Remove, FileOperation, Go, End
<1>17. CASE Forget
  BY <1>2, <1>17, Units DEF Forget, Systemctl, End
<1>18. CASE Cancel
  <2>1. Spend("cancel") /\ "cancel" \in Disturbances
    BY <1>18 DEF Cancel, Disturbances
  <2>2. budget' \in [Disturbances -> Nat]
    BY <2>1, SpendOK
  <2> QED
    BY <1>18, <2>2 DEF Cancel
<1>19. CASE UNCHANGED vars
  BY <1>19 DEF vars
<1> QED
  BY <1>5, <1>6, <1>6a, <1>7, <1>8, <1>9, <1>10, <1>11, <1>12, <1>13, <1>14, <1>15, <1>16,
     <1>17, <1>18, <1>19 DEF Next

LEMMA InitIInv == Init => IInv
<1> SUFFICES ASSUME Init PROVE IInv
  OBVIOUS
<1>1. unit \in Unit /\ budget \in [Disturbances -> Nat]
  BY BudgetAssumption DEF Init
<1>2. before = NoUnit /\ start = NoUnit /\ pc = "idle" /\ cancelled = FALSE
      /\ failures = 0 /\ result = "none"
  BY DEF Init
<1> QED
  BY <1>1, <1>2, Units DEF IInv, TypeOK, OwnDuringCall, Looking, OwnText

\* The types of all variables; what a rollback writes back is PMM's own text or none.
THEOREM BootServiceTypes == Spec => []TypeOK
<1>1. IInv => TypeOK
  BY DEF IInv
<1> QED
  BY <1>1, InitIInv, NextIInv, PTL DEF Spec

\* A unit file of somebody else is never written, enabled, stopped or removed
\* (persistence.go:77-79, 95-99), whatever earlier calls left.
THEOREM ForeignUntouched == Spec => ForeignUnitIsUntouched
<1>1. IInv /\ [Next]_vars => [unit.file = "other" => unit' = unit]_vars
  <2> SUFFICES ASSUME IInv, Next, unit.file = "other" PROVE unit' = unit
    BY DEF vars
  <2>1. pc \in Looking
    BY DEF IInv, OwnDuringCall, OwnText
  <2>2. Enable \/ CheckEnabled \/ CheckActive \/ ReadFile \/ Disable \/ Cancel
    BY <2>1 DEF Next, At, Looking, Write, Reload, SetEnabled, SetActive, UndoFile, UndoReload,
                UndoEnable, UndoActive, Drop, Remove, Forget
  <2> QED
    BY <2>2 DEF Enable, CheckEnabled, CheckActive, ReadFile, Disable, Cancel
<1> QED
  BY <1>1, InitIInv, NextIInv, PTL DEF Spec, ForeignUnitIsUntouched
--------------------------------------------------------------------------------
(* The rollback of Enable *)

\* One failing command at most so far, and no interrupt.
AlmostCalm == failures <= 1 /\ ~cancelled
CalmSoFar == failures = 0 /\ ~cancelled

\* Enabling adds to the enablement the call began with, and touches nothing else of it.
Reached(text) ==
  /\ unit.file = text /\ unit.active = start.active
  /\ unit.enabled \in {start.enabled, TRUE}

\* Step by step: what the call has changed and, in the rollback, not restored yet.
Progress ==
  /\ pc \in {"check enabled", "check active", "read", "write"} => unit = start
  /\ pc \in {"check active", "read"} /\ CalmSoFar => before.enabled = start.enabled
  /\ pc = "read" /\ CalmSoFar => before.active = start.active
  /\ pc \in {"reload", "enable", "start"} => Reached("v6")
  /\ pc \in {"write", "reload", "enable", "start"} /\ CalmSoFar => before = start
  /\ pc \in {"undo file", "undo reload", "undo enable", "undo active"} /\ AlmostCalm =>
       /\ failures = 1 /\ before = start
       /\ pc = "undo file" => Reached("v6")
       /\ pc # "undo file" => Reached(start.file)
       /\ pc = "undo enable" => ~start.enabled
       /\ pc = "undo active" => unit = start

\* A unit is its three parts.
LEMMA Parts ==
  ASSUME NEW u \in Unit, NEW v \in Unit,
         u.file = v.file, u.enabled = v.enabled, u.active = v.active
  PROVE  u = v
BY DEF Unit

LEMMA Effects ==
  ASSUME NEW u \in Unit, NEW text \in Texts
  PROVE  /\ WithFile(u, text).file = text
         /\ WithFile(u, text).enabled = u.enabled /\ WithFile(u, text).active = u.active
         /\ Enabled(u).file = u.file /\ Enabled(u).enabled = TRUE
         /\ Enabled(u).active = u.active
         /\ Disabled(u).file = u.file /\ Disabled(u).enabled = FALSE
         /\ Disabled(u).active = u.active
         /\ Started(u).file = u.file /\ Started(u).enabled = u.enabled
         /\ Started(u).active = TRUE
         /\ Stopped(u).file = u.file /\ Stopped(u).enabled = u.enabled
         /\ Stopped(u).active = FALSE
BY DEF Unit, WithFile, Enabled, Started, Disabled, Stopped

\* What remains of the budget of mistakes after a command that worked, or failed.
LEMMA Counting ==
  ASSUME TypeOK
  PROVE  /\ Calm => failures' = failures
         /\ Fail /\ failures' <= 1 => failures = 0 /\ failures' = 1
<1>1. failures \in Nat
  BY DEF TypeOK
<1>2. ASSUME Calm PROVE failures' = failures
  BY <1>2 DEF Calm
<1>3. ASSUME Fail, failures' <= 1 PROVE failures = 0 /\ failures' = 1
  <2>1. failures' = failures + 1
    BY <1>3 DEF Fail
  <2> QED
    BY <1>1, <1>3, <2>1
<1> QED
  BY <1>2, <1>3

LEMMA FailCounts ==
  ASSUME TypeOK, Fail
  PROVE  failures' # 0
<1>1. failures \in Nat /\ failures' = failures + 1
  BY DEF TypeOK, Fail
<1> QED
  BY <1>1

LEMMA NoneIsAtMostOne == failures = 0 => failures <= 1
OBVIOUS

\* An error of a command of Enable is the first one, unless the call is past AlmostCalm.
LEMMA FirstError ==
  ASSUME TypeOK, Progress, pc \in {"reload", "enable", "start"}, AlmostCalm',
         UNCHANGED <<unit, before, cancelled, start>>,
         (Calm /\ (cancelled \/ ~Startable(unit))) \/ Fail
  PROVE  failures' = 1 /\ before' = start' /\ Reached("v6")'
<1>1. Reached("v6") /\ (CalmSoFar => before = start)
  BY DEF Progress
<1>2. ~cancelled /\ Startable(unit)
  BY <1>1 DEF AlmostCalm, Reached, Startable
<1>3. Fail
  BY <1>2
<1>4. failures = 0 /\ failures' = 1
  BY <1>3, Counting DEF AlmostCalm
<1> QED
  BY <1>1, <1>2, <1>4 DEF CalmSoFar, Reached

Undoing == pc \in {"undo file", "undo reload", "undo enable", "undo active"}

\* A second error is past AlmostCalm.
LEMMA SecondError ==
  ASSUME TypeOK, Progress, Undoing, Fail,
         UNCHANGED <<cancelled, start>>
  PROVE  ~AlmostCalm'
<1> SUFFICES ASSUME AlmostCalm' PROVE FALSE
  OBVIOUS
<1>1. failures' <= 1 /\ ~cancelled
  BY DEF AlmostCalm
<1>2. failures = 0
  BY <1>1, Counting
<1>3. AlmostCalm
  BY <1>1, <1>2 DEF AlmostCalm
<1>4. failures = 1
  BY <1>3 DEF Progress, Undoing
<1> QED
  BY <1>2, <1>4

LEMMA NextProgress == IInv /\ Progress /\ [Next]_vars => Progress'
<1> SUFFICES ASSUME IInv, Progress, [Next]_vars PROVE Progress'
  OBVIOUS
<1>0. TypeOK /\ unit \in Unit /\ start \in Unit /\ before \in Unit
  BY DEF IInv, TypeOK
<1>1. /\ Calm => failures' = failures
      /\ Fail /\ failures' <= 1 => failures = 0 /\ failures' = 1
  BY <1>0, Counting
<1>2. "none" \in Texts /\ "v6" \in Texts /\ before.file \in Texts
  BY <1>0 DEF Texts, Unit
<1>2a. \A text \in Texts :
         /\ WithFile(unit, text).file = text
         /\ WithFile(unit, text).enabled = unit.enabled
         /\ WithFile(unit, text).active = unit.active
  BY <1>0, Records
<1> USE DEF At, Progress
<1>3. CASE pc' = "idle"
  BY <1>3
<1>4. CASE Enable \/ Disable
  BY <1>4 DEF Enable, Disable
<1>5. CASE CheckEnabled \/ CheckActive \/ ReadFile
  <2>1. CalmSoFar' => CalmSoFar \/ pc' = "idle"
    <3>1. (Calm \/ Fail) /\ (UNCHANGED cancelled \/ pc' = "idle")
      BY <1>5 DEF CheckEnabled, CheckActive, ReadFile, Query, End
    <3>2. Fail => failures' # 0
      BY <1>0, FailCounts
    <3> QED
      BY <1>1, <3>1, <3>2 DEF CalmSoFar
  <2>2. CASE CheckEnabled
    <3>1. PICK answer \in BOOLEAN :
            Query(unit.enabled, answer) /\ before' = [before EXCEPT !.enabled = answer]
      BY <2>2 DEF CheckEnabled
    <3>2. before'.enabled = answer
      BY <1>0, <3>1 DEF Unit
    <3>3. CalmSoFar' => answer = unit.enabled
      <4>1. Fail => failures' # 0
        BY <1>0, FailCounts
      <4> QED
        BY <2>2, <3>1, <4>1 DEF Query, CheckEnabled, CalmSoFar
    <3> QED
      BY <2>2, <3>2, <3>3 DEF CheckEnabled
  <2>3. CASE CheckActive
    <3>1. PICK answer \in BOOLEAN :
            Query(unit.active, answer) /\ before' = [before EXCEPT !.active = answer]
      BY <2>3 DEF CheckActive
    <3>2. before'.active = answer /\ before'.enabled = before.enabled
      BY <1>0, <3>1 DEF Unit
    <3>3. CalmSoFar' => answer = unit.active
      <4>1. Fail => failures' # 0
        BY <1>0, FailCounts
      <4> QED
        BY <2>3, <3>1, <4>1 DEF Query, CheckActive, CalmSoFar
    <3> QED
      BY <2>1, <2>3, <3>2, <3>3 DEF CheckActive
  <2>4. CASE ReadFile /\ pc' # "idle"
    <3>1. /\ before' = WithFile(before, unit.file) /\ pc = "read" /\ pc' = "write"
          /\ UNCHANGED <<unit, start, cancelled>>
      BY <2>4 DEF ReadFile, End
    <3>2. /\ before' \in Unit /\ before'.file = unit.file
          /\ before'.enabled = before.enabled /\ before'.active = before.active
      <4>1. unit.file \in Texts
        BY <1>0 DEF Unit
      <4> QED
        BY <1>0, <3>1, <4>1, Records
    <3>3. CalmSoFar => before' = start
      BY <1>0, <3>1, <3>2, Parts
    <3> QED
      BY <2>1, <3>1, <3>3
  <2> QED
    BY <1>3, <1>5, <2>2, <2>3, <2>4
<1>6. CASE Write
  <2>1. CASE unit' = WithFile(unit, "v6") /\ Go("reload") /\ Calm
    <3>1. /\ unit'.file = "v6" /\ unit'.enabled = unit.enabled
          /\ unit'.active = unit.active
      BY <1>2, <1>2a, <2>1
    <3>2. unit = start /\ (CalmSoFar => before = start)
      BY <1>6 DEF Write
    <3>3. CalmSoFar' => CalmSoFar
      BY <1>1, <2>1 DEF Go, CalmSoFar
    <3> QED
      BY <2>1, <3>1, <3>2, <3>3 DEF Go, Reached
  <2>2. CASE End("error")
    BY <2>2, <1>3 DEF End
  <2> QED
    BY <1>6, <2>1, <2>2 DEF Write, FileOperation
<1>7. CASE Reload
  <2>1. CASE Go("enable") /\ UNCHANGED unit /\ Calm
    BY <1>1, <1>7, <2>1 DEF Reload, Go, Reached, CalmSoFar
  <2>2. CASE /\ Go("undo file") /\ UNCHANGED unit
             /\ (Calm /\ (cancelled \/ ~Startable(unit))) \/ Fail
    BY <1>0, <1>7, <2>2, FirstError DEF Reload, Go
  <2> QED
    BY <1>7, <2>1, <2>2 DEF Reload, Systemctl
<1>8. CASE SetEnabled
  <2>1. CASE Go("start") /\ unit' = Enabled(unit) /\ Calm
    BY <1>0, <1>1, <1>2, <1>8, <2>1, Effects DEF SetEnabled, Go, Reached, CalmSoFar
  <2>2. CASE /\ Go("undo file") /\ UNCHANGED unit
             /\ (Calm /\ (cancelled \/ ~Startable(unit))) \/ Fail
    BY <1>0, <1>8, <2>2, FirstError DEF SetEnabled, Go
  <2> QED
    BY <1>8, <2>1, <2>2 DEF SetEnabled, Systemctl
<1>9. CASE SetActive
  <2>1. CASE /\ Go("undo file") /\ UNCHANGED unit
             /\ (Calm /\ (cancelled \/ ~Startable(unit))) \/ Fail
    BY <1>0, <1>9, <2>1, FirstError DEF SetActive, Go
  <2> QED
    BY <1>3, <1>9, <2>1 DEF SetActive, Systemctl, End
<1>10. CASE UndoFile
  <2>1. CASE Calm /\ unit' = WithFile(unit, before.file) /\ Go("undo reload")
    <3>1. /\ unit'.file = before.file /\ unit'.enabled = unit.enabled
          /\ unit'.active = unit.active
      BY <1>2, <1>2a, <2>1
    <3>2. AlmostCalm' => AlmostCalm
      BY <1>1, <2>1 DEF Go, AlmostCalm
    <3>3. AlmostCalm => failures = 1 /\ before = start /\ Reached("v6")
      BY <1>10 DEF UndoFile
    <3> QED
      BY <1>1, <2>1, <3>1, <3>2, <3>3 DEF Go, Reached
  <2>2. CASE Fail /\ Go("undo reload")
    BY <1>0, <1>10, <2>2, SecondError DEF Undoing, UndoFile, Go
  <2> QED
    BY <1>10, <2>1, <2>2 DEF UndoFile, FileOperation
<1>11. CASE UndoReload
  <2>1. CASE Calm /\ UNCHANGED unit /\ Go(AfterReload)
    <3>1. CASE before.enabled
      BY <1>0, <1>1, <1>11, <2>1, <3>1, Parts
      DEF UndoReload, Go, AfterReload, Reached, AlmostCalm
    <3>2. CASE ~before.enabled
      BY <1>1, <1>11, <2>1, <3>2 DEF UndoReload, Go, AfterReload, Reached, AlmostCalm
    <3> QED
      BY <3>1, <3>2
  <2>2. CASE Fail /\ Go(AfterReload)
    BY <1>0, <1>11, <2>2, SecondError DEF Undoing, UndoReload, Go, AfterReload
  <2> QED
    BY <1>11, <2>1, <2>2 DEF UndoReload, Systemctl
<1>12. CASE UndoEnable
  <2>1. CASE Calm /\ ~cancelled /\ unit' = Disabled(unit) /\ Go("undo active")
    <3> SUFFICES ASSUME AlmostCalm'
                 PROVE  /\ failures' = 1 /\ before' = start' /\ Reached(start.file)'
                        /\ unit' = start'
      BY <2>1 DEF Go
    <3>1. AlmostCalm /\ failures = 1 /\ before = start /\ Reached(start.file) /\ ~start.enabled
      BY <1>1, <1>12, <2>1 DEF UndoEnable, Go, AlmostCalm
    <3>2. /\ Disabled(unit).file = start.file /\ Disabled(unit).enabled = FALSE
          /\ Disabled(unit).active = start.active
      BY <1>0, <1>2, <3>1, Effects DEF Reached
    <3>3. Disabled(unit) \in Unit
      BY <1>0, <1>2, Records
    <3>4. start.enabled = FALSE
      BY <1>0, <3>1 DEF Unit
    <3>5. Disabled(unit) = start
      BY <1>0, <3>2, <3>3, <3>4, Parts
    <3> QED
      BY <1>1, <2>1, <3>1, <3>2, <3>5 DEF Go, Reached
  <2>2. CASE cancelled /\ Go("undo active")
    BY <1>12, <2>2 DEF Go, AlmostCalm
  <2>3. CASE Fail /\ Go("undo active")
    BY <1>0, <1>12, <2>3, SecondError DEF Undoing, UndoEnable, Go
  <2> QED
    BY <1>12, <2>1, <2>2, <2>3 DEF UndoEnable, Systemctl
<1>13. CASE UndoActive
  BY <1>3, <1>13 DEF UndoActive, Systemctl, End
<1>14. CASE Drop \/ Remove \/ Forget
  BY <1>3, <1>14 DEF Drop, Remove, Forget, Systemctl, FileOperation, Go, End
<1>15. CASE Cancel
  BY <1>15 DEF Cancel, AlmostCalm, CalmSoFar, Reached
<1>16. CASE UNCHANGED vars
  BY <1>16 DEF vars, AlmostCalm, CalmSoFar, Reached
<1> QED
  BY <1>4, <1>5, <1>6, <1>7, <1>8, <1>9, <1>10, <1>11, <1>12, <1>13, <1>14, <1>15, <1>16
  DEF Next

\* Enable that reports an error after one failing command and no interrupt leaves the
\* unit as it found it (persistence.go:70-93, 110-137), for every state it may be found
\* in and whatever earlier calls left behind.
THEOREM EnableRollsBack == Spec => FailedEnableRestores
<1>1. Init => Progress
  BY DEF Init, Progress
<1>2. IInv /\ Progress /\ [Next]_vars =>
        [/\ pc' = "idle" /\ pc \in {"write", "undo active"}
         /\ failures' <= 1 /\ ~cancelled
         => unit' = start]_vars
  <2> SUFFICES ASSUME IInv, Progress, Next, pc' = "idle", pc \in {"write", "undo active"},
                      failures' <= 1, ~cancelled
               PROVE  unit' = start
    BY DEF vars
  <2>0. TypeOK /\ unit \in Unit /\ start \in Unit
    BY DEF IInv, TypeOK
  <2>1. /\ Calm => failures' = failures
        /\ Fail /\ failures' <= 1 => failures = 0 /\ failures' = 1
    BY <2>0, Counting
  <2>2. CASE pc = "write"
    BY <2>2 DEF Next, At, Enable, CheckEnabled, CheckActive, ReadFile, Write, Reload, SetEnabled, SetActive, UndoFile,
                UndoReload, UndoEnable, UndoActive, Disable, Drop, Remove, Forget, Cancel,
                FileOperation, Go, Progress
  <2>3. CASE pc = "undo active"
    <3>1. UndoActive
      BY <2>3 DEF Next, At, Enable, CheckEnabled, CheckActive, ReadFile, Write, Reload, SetEnabled, SetActive, UndoFile,
                  UndoReload, UndoEnable, Disable, Drop, Remove, Forget, Cancel
    <3>2. /\ Calm \/ Fail
          /\ unit' = unit \/ (before.active /\ unit' = Started(unit))
                          \/ (~before.active /\ unit' = Stopped(unit))
      BY <3>1 DEF UndoActive, Systemctl
    <3>3. AlmostCalm => failures = 1 /\ before = start /\ unit = start
      BY <2>3 DEF Progress
    <3>4. CASE AlmostCalm
      <4>1. before = start /\ unit = start
        BY <3>3, <3>4
      <4>2. start.active => Started(start) = start
        BY <2>0 DEF Started, Unit
      <4>3. ~start.active => Stopped(start) = start
        BY <2>0 DEF Stopped, Unit
      <4> QED
        BY <3>2, <4>1, <4>2, <4>3
    <3>5. CASE ~AlmostCalm
      <4>1. ~(failures <= 1)
        BY <3>5 DEF AlmostCalm
      <4>2. failures # 0
        BY <4>1, NoneIsAtMostOne
      <4>3. ~Fail
        BY <2>1, <4>2
      <4>4. failures' = failures
        BY <2>1, <3>2, <4>3
      <4> QED
        BY <4>1, <4>4
    <3> QED
      BY <3>4, <3>5
  <2> QED
    BY <2>2, <2>3
<1> QED
  BY <1>1, <1>2, InitIInv, NextIInv, NextProgress, PTL DEF Spec, FailedEnableRestores
================================================================================
