----------------------------- MODULE SessionProofs -----------------------------
(***************************************************************************)
(* Theorems about a session at the menus and the monitor beside it, for    *)
(* any rules, backups, sizes of packets and commands of others.  The rates *)
(* the monitor shows are true because the line it reads has counted what   *)
(* arrived since its last sample, and every other line is younger; nothing *)
(* is lost unasked because a dialog past its word is confirmed.            *)
(***************************************************************************)
EXTENDS Session, SequenceTheorems, TLAPS

--------------------------------------------------------------------------------
(* What the sampler reports *)

Counter == [packets : Nat, bytes : Nat]

\* A size no packet exceeds, small enough for the counters.
Most == CHOOSE most \in Nat : MaxPackets * most < Word /\ \A size \in Sizes : size <= most

\* Such a size exists, whatever the sizes are.
LEMMA MostFits ==
  Most \in Nat /\ MaxPackets * Most < Word /\ \A size \in Sizes : size <= Most
<1>1. \E most \in Nat : MaxPackets * most < Word /\ \A size \in Sizes : size <= most
  BY WordAssumption
<1> QED
  BY <1>1 DEF Most

\* Generations are numbered as they are made, and a candidate is newer than what is active.
Generations ==
  /\ newest \in Nat /\ active \in 0..newest /\ seen \in 0..active
  /\ work = "filled" => active # newest

\* The lines count within the bounds.
LinesCount ==
  /\ lines \in [DOMAIN lines -> Counter] /\ DOMAIN lines \subseteq 1..newest
  /\ \A g \in DOMAIN lines :
       lines[g].packets <= MaxPackets /\ lines[g].bytes <= lines[g].packets * Most

\* What the line the last sample read has counted since is what has arrived, as long as it is
\* the active generation's; every other line is younger than that sample.
Followed ==
  /\ arrived \in Counter
  /\ seen # 0 =>
       /\ last \in Counter
       /\ seen = active /\ seen \in DOMAIN lines =>
            /\ lines[seen].packets = last.packets + arrived.packets
            /\ lines[seen].bytes = last.bytes + arrived.bytes
       /\ \A g \in DOMAIN lines \ {seen} :
            lines[g].packets <= arrived.packets /\ lines[g].bytes <= arrived.bytes

Watching == Generations /\ LinesCount /\ Followed

\* So the rates the monitor shows are what has arrived, or zero.
LEMMA WatchingHonest == Watching => RatesAreHonest
<1> SUFFICES ASSUME Watching, seen # 0, DOMAIN lines = {active}
             PROVE  Honest(Rate(lines[active]))
  BY DEF RatesAreHonest, Rates, OnlyActive
<1> DEFINE c == lines[active]
<1>1. /\ c \in Counter /\ c.packets <= MaxPackets /\ c.bytes <= c.packets * Most
      /\ last \in Counter /\ arrived \in Counter
  BY DEF Watching, LinesCount, Followed
<1>2. c.packets < Word /\ c.bytes < Word
  <2>1. c.packets * Most <= MaxPackets * Most
    BY <1>1, MostFits, WordAssumption DEF Counter
  <2>2. c.packets * Most \in Nat /\ MaxPackets * Most \in Nat /\ MaxPackets * Most < Word
    BY <1>1, MostFits, WordAssumption DEF Counter
  <2> QED
    BY <1>1, <2>1, <2>2, WordAssumption DEF Counter
<1>3. last # NoLine
  BY <1>1 DEF Counter, NoLine
<1>4. CASE seen = active
  <2>1. c.packets = last.packets + arrived.packets /\ c.bytes = last.bytes + arrived.bytes
    BY <1>4 DEF Watching, Followed
  <2>2. /\ ~(c.packets < last.packets) /\ ~(c.bytes < last.bytes)
        /\ (c.packets - last.packets) % Word = arrived.packets
        /\ (c.bytes - last.bytes) % Word = arrived.bytes
    BY <1>1, <1>2, <2>1, WordAssumption DEF Counter
  <2>3. Rate(c) = [kind |-> "rate", packets |-> arrived.packets, bytes |-> arrived.bytes]
    BY <1>3, <2>2 DEF Rate, IsReset
  <2>4. arrived = [packets |-> arrived.packets, bytes |-> arrived.bytes]
    BY <1>1 DEF Counter
  <2> QED
    BY <1>4, <2>3, <2>4 DEF Honest
<1>5. CASE seen # active
  <2>1. c.packets <= arrived.packets /\ c.bytes <= arrived.bytes
    BY <1>5 DEF Watching, Followed
  <2>2. CASE IsReset(c)
    <3>1. Rate(c).kind = "reset"
      BY <1>3, <2>2 DEF Rate
    <3> QED
      BY <1>5, <3>1 DEF Honest
  <2>3. CASE ~IsReset(c)
    <3>1. /\ (c.packets - last.packets) % Word <= arrived.packets
          /\ (c.bytes - last.bytes) % Word <= arrived.bytes
      BY <1>1, <1>2, <2>1, <2>3, WordAssumption DEF Counter, IsReset
    <3>2. Rate(c) = [kind |-> "rate", packets |-> (c.packets - last.packets) % Word,
                     bytes |-> (c.bytes - last.bytes) % Word]
      BY <1>3, <2>3 DEF Rate
    <3> QED
      BY <1>5, <3>1, <3>2 DEF Honest
  <2> QED
    BY <2>2, <2>3
<1> QED
  BY <1>4, <1>5

\* One more packet.
LEMMA OneMore ==
  ASSUME NEW c \in Counter, NEW size \in Sizes, c.bytes <= c.packets * Most
  PROVE  /\ Plus(c, size) \in Counter
         /\ Plus(c, size).packets = c.packets + 1 /\ Plus(c, size).bytes = c.bytes + size
         /\ c.bytes + size <= (c.packets + 1) * Most
<1>1. /\ c.packets \in Nat /\ c.bytes \in Nat /\ size \in Nat /\ size <= Most /\ Most \in Nat
  BY MostFits, WordAssumption DEF Counter
<1>2. (c.packets + 1) * Most = c.packets * Most + Most /\ c.packets * Most \in Nat
  BY <1>1
<1> QED
  BY <1>1, <1>2 DEF Plus, Counter

\* A packet counts in the active line and in what has arrived, or in neither.
LEMMA PacketWatched == Watching /\ Packet => Watching'
<1> SUFFICES ASSUME Watching, Packet PROVE Watching'
  OBVIOUS
<1> USE DEF Watching, Generations
<1>1. PICK size \in Sizes :
        /\ lines' = [lines EXCEPT ![active] = Plus(lines[active], size)]
        /\ arrived' = (IF seen = 0 THEN arrived ELSE Plus(arrived, size))
  BY DEF Packet
<1>2. /\ active \in DOMAIN lines /\ lines[active].packets < MaxPackets
      /\ UNCHANGED <<active, newest, work, last, seen>>
  BY DEF Packet, samplerVars
<1>3. Generations'
  BY <1>2
<1>4. /\ lines[active] \in Counter /\ lines[active].bytes <= lines[active].packets * Most
      /\ Plus(lines[active], size) \in Counter
      /\ Plus(lines[active], size).packets = lines[active].packets + 1
      /\ Plus(lines[active], size).bytes = lines[active].bytes + size
      /\ Plus(lines[active], size).bytes <= Plus(lines[active], size).packets * Most
  BY <1>2, OneMore DEF LinesCount
<1>5. /\ DOMAIN lines' = DOMAIN lines /\ lines'[active] = Plus(lines[active], size)
      /\ \A g \in DOMAIN lines \ {active} : lines'[g] = lines[g]
  BY <1>1, <1>2 DEF LinesCount
<1>6. LinesCount'
  <2>1. lines' \in [DOMAIN lines' -> Counter] /\ DOMAIN lines' \subseteq 1..newest'
    BY <1>1, <1>2, <1>4, <1>5 DEF LinesCount
  <2>2. lines[active].packets + 1 <= MaxPackets
    BY <1>2, <1>4, WordAssumption DEF Counter
  <2> QED
    BY <1>4, <1>5, <2>1, <2>2 DEF LinesCount
<1>7. Followed'
  <2>1. CASE seen = 0
    BY <1>1, <1>2, <2>1 DEF Followed
  <2>2. CASE seen # 0
    <3>1. /\ arrived' = Plus(arrived, size) /\ arrived \in Counter /\ size \in Nat
          /\ last \in Counter /\ last' = last
      BY <1>1, <1>2, <2>2, WordAssumption DEF Followed
    <3>2. /\ arrived' \in Counter /\ arrived'.packets = arrived.packets + 1
          /\ arrived'.bytes = arrived.bytes + size
      BY <3>1 DEF Plus, Counter
    <3>3. ASSUME NEW g \in DOMAIN lines \ {seen}
          PROVE  lines'[g].packets <= arrived'.packets /\ lines'[g].bytes <= arrived'.bytes
      <4>1. /\ lines[g] \in Counter /\ lines[g].packets <= arrived.packets
            /\ lines[g].bytes <= arrived.bytes
        BY <2>2 DEF Followed, LinesCount
      <4> QED
        BY <1>4, <1>5, <3>1, <3>2, <4>1 DEF Counter
    <3>4. ASSUME seen = active
          PROVE  /\ lines'[seen].packets = last.packets + arrived'.packets
                 /\ lines'[seen].bytes = last.bytes + arrived'.bytes
      <4>1. /\ lines[seen].packets = last.packets + arrived.packets
            /\ lines[seen].bytes = last.bytes + arrived.bytes
        BY <1>2, <2>2, <3>4 DEF Followed
      <4> QED
        BY <1>4, <1>5, <3>1, <3>2, <3>4, <4>1 DEF Counter
    <3> QED
      BY <1>2, <1>5, <3>1, <3>2, <3>3, <3>4 DEF Followed
  <2> QED
    BY <2>1, <2>2
<1> QED
  BY <1>3, <1>6, <1>7

\* Without some lines.
LEMMA FewerLines ==
  ASSUME Watching, NEW gens, lines' = Without(gens),
         UNCHANGED <<active, newest, seen, last, arrived>>
  PROVE  LinesCount' /\ Followed'
<1>1. /\ DOMAIN lines' \subseteq DOMAIN lines /\ lines' = [g \in DOMAIN lines' |-> lines[g]]
  BY DEF Without, Restrict
<1> QED
  BY <1>1 DEF Watching, LinesCount, Followed

\* A command of someone else starts a line afresh, takes lines away or leaves them.
LEMMA CommandsWatched == Watching /\ Commands => Watching'
<1> SUFFICES ASSUME Watching, Commands PROVE Watching'
  OBVIOUS
<1> USE DEF Watching, Generations
<1>1. UNCHANGED <<seen, last, arrived>>
  BY DEF Commands, samplerVars, judgeVars
<1>2. CASE Fill
  <2>1. newest' = newest + 1 /\ active' = active /\ work' = "filled"
    BY <1>2 DEF Fill
  <2>2. CASE lines' = lines
    BY <1>1, <2>1, <2>2 DEF LinesCount, Followed
  <2>3. CASE lines' = [g \in DOMAIN lines \cup {newest'} |-> IF g = newest' THEN Zero ELSE lines[g]]
    <3>1. /\ DOMAIN lines' = DOMAIN lines \cup {newest'} /\ lines'[newest'] = Zero
          /\ newest' \notin DOMAIN lines /\ \A g \in DOMAIN lines : lines'[g] = lines[g]
      BY <2>1, <2>3 DEF LinesCount
    <3>2. Zero \in Counter /\ Zero.packets = 0 /\ Zero.bytes = 0 /\ 0 <= 0 * Most /\ 0 <= MaxPackets
      BY MostFits, WordAssumption DEF Zero, Counter
    <3>3. LinesCount'
      <4>1. lines' \in [DOMAIN lines' -> Counter]
        BY <2>3, <3>1, <3>2 DEF LinesCount
      <4>2. DOMAIN lines' \subseteq 1..newest'
        BY <2>1, <3>1 DEF LinesCount
      <4> QED
        BY <3>1, <3>2, <4>1, <4>2 DEF LinesCount
    <3>4. Followed'
      <4>1. seen # newest'
        BY <2>1
      <4>2. arrived \in Counter => 0 <= arrived.packets /\ 0 <= arrived.bytes
        BY DEF Counter
      <4> QED
        BY <1>1, <2>1, <3>1, <3>2, <4>1, <4>2 DEF Followed
    <3> QED
      BY <1>1, <2>1, <3>3, <3>4
  <2> QED
    BY <1>2, <2>2, <2>3 DEF Fill
<1>3. CASE Switch
  BY <1>1, <1>3 DEF Switch, LinesCount, Followed
<1>4. CASE DeleteObsolete
  <2>1. UNCHANGED <<active, newest>> /\ work' # "filled"
    BY <1>4 DEF DeleteObsolete
  <2>2. lines' = lines \/ \E g : lines' = Without({g})
    BY <1>4 DEF DeleteObsolete
  <2>3. LinesCount' /\ Followed'
    BY <1>1, <2>1, <2>2, FewerLines DEF LinesCount, Followed
  <2> QED
    BY <1>1, <2>1, <2>3
<1>5. CASE GiveUp
  BY <1>1, <1>5, FewerLines DEF GiveUp
<1>6. CASE Stop
  BY <1>1, <1>6 DEF Stop, LinesCount, Followed
<1> QED
  BY <1>2, <1>3, <1>4, <1>5, <1>6 DEF Commands

\* So does the sampler when nothing is active.
LEMMA NoLinesWatched ==
  ASSUME Watching,
         \/ UNCHANGED kernelVars
         \/ lines' = NoLines /\ active' = 0 /\ newest' = 0 /\ work' = "none",
         arrived' = Zero, seen' = 0
  PROVE  Watching'
<1>1. Zero \in Counter
  BY DEF Zero, Counter
<1>2. NoLines \in [{} -> Counter] /\ DOMAIN NoLines = {}
  BY DEF NoLines
<1>3. Followed'
  BY <1>1 DEF Followed
<1>4. CASE UNCHANGED kernelVars
  BY <1>3, <1>4 DEF Watching, Generations, LinesCount, kernelVars
<1>5. CASE lines' = NoLines /\ active' = 0 /\ newest' = 0 /\ work' = "none"
  <2>1. Generations'
    BY <1>5 DEF Generations
  <2>2. LinesCount'
    BY <1>2, <1>5 DEF LinesCount
  <2> QED
    BY <1>3, <2>1, <2>2 DEF Watching
<1> QED
  BY <1>4, <1>5

\* A sample reads the active line and starts counting anew.
LEMMA SampleWatched ==
  ASSUME Watching, Sample, UNCHANGED kernelVars
  PROVE  Watching'
<1> USE DEF Watching, Generations
<1>1. UNCHANGED <<lines, active, newest, work>> /\ arrived' = Zero /\ Zero \in Counter
      /\ Zero.packets = 0 /\ Zero.bytes = 0
  BY DEF Sample, kernelVars, Zero, Counter
<1>2. CASE OnlyActive
  <2>1. seen' = active /\ DOMAIN lines = {active} /\ last' \in Range(lines)
    BY <1>2 DEF Sample, OnlyActive
  <2>2. last' = lines[active] /\ lines[active] \in Counter
    BY <2>1 DEF Range, LinesCount
  <2> QED
    BY <1>1, <2>1, <2>2 DEF LinesCount, Followed, Counter
<1>3. CASE ~OnlyActive
  BY <1>1, <1>3 DEF Sample, LinesCount, Followed
<1> QED
  BY <1>2, <1>3

\* Every step of the session keeps this.
LEMMA WatchingStep == Watching /\ [Next]_vars => Watching'
<1> SUFFICES ASSUME Watching, [Next]_vars PROVE Watching'
  OBVIOUS
<1>1. CASE UNCHANGED monitorVars
  BY <1>1 DEF monitorVars, kernelVars, samplerVars, judgeVars, Watching, Generations, LinesCount,
              Followed
<1>2. CASE Monitor
  BY <1>2, NoLinesWatched DEF Monitor, StartMonitor
<1>3. CASE Watch
  <2>1. CASE EndMonitor
    BY <1>3, <2>1, NoLinesWatched DEF Watch, EndMonitor
  <2>2. CASE Sample /\ UNCHANGED monitoring
    BY <1>3, <2>2, SampleWatched DEF Watch, MonitorStep
  <2> QED
    BY <1>3, <2>1, <2>2 DEF Watch, MonitorStep
<1>4. CASE Kernel
  BY <1>4, PacketWatched, CommandsWatched DEF Kernel
<1> QED
  BY <1>1, <1>2, <1>3, <1>4 DEF Next, Program, EndInput, Interrupt, Others, vars

\* Two samples in a row of the active generation tell what arrived in between, for any
\* sizes of packets and any commands beside the monitor (monitor.go:44-51).
THEOREM RatesAreTrue == Spec => []RatesAreHonest
<1>1. Init => Watching
  BY DEF Init, MonitorInit, Watching, Generations, LinesCount, Followed, NoLines, Zero, Counter
<1> QED
  BY <1>1, WatchingStep, WatchingHonest, PTL DEF Spec

--------------------------------------------------------------------------------
(* What a session changes *)

\* The commands of the menus.
CommandNames ==
  {"addCustom", "addPreset", "edit", "toggle", "delete", "clear", "merge", "replace", "export",
   "sample", "create", "restore", "deleteBackup", "check", "enable", "disable", "test",
   "reconcile", "doctor", "monitor", "migrate", "uninstall", "list", "address", "update"}

\* Every command a menu selects has its steps.
LEMMA MenusHaveCommands ==
  ASSUME NEW name \in Dialogs
  PROVE  /\ 1 \in DOMAIN CommandsOf[name]
         /\ \A i \in DOMAIN CommandsOf[name] : CommandsOf[name][i] \in CommandNames
<1>1. name \in {"list", "add", "manage", "monitor", "doctor", "batch", "backup", "persistence",
               "address", "migration", "update", "uninstall"}
  BY DEF Dialogs, CommandsOf
<1>2. CASE name = "list"
  BY <1>2 DEF CommandsOf, CommandNames
<1>3. CASE name = "add"
  BY <1>3 DEF CommandsOf, CommandNames
<1>4. CASE name = "manage"
  BY <1>4 DEF CommandsOf, CommandNames
<1>5. CASE name = "monitor"
  BY <1>5 DEF CommandsOf, CommandNames
<1>6. CASE name = "doctor"
  BY <1>6 DEF CommandsOf, CommandNames
<1>7. CASE name = "batch"
  BY <1>7 DEF CommandsOf, CommandNames
<1>8. CASE name = "backup"
  BY <1>8 DEF CommandsOf, CommandNames
<1>9. CASE name = "persistence"
  BY <1>9 DEF CommandsOf, CommandNames
<1>10. CASE name = "address"
  BY <1>10 DEF CommandsOf, CommandNames
<1>11. CASE name = "migration"
  BY <1>11 DEF CommandsOf, CommandNames
<1>12. CASE name = "update"
  BY <1>12 DEF CommandsOf, CommandNames
<1>13. CASE name = "uninstall"
  BY <1>13 DEF CommandsOf, CommandNames
<1> QED
  BY <1>1, <1>2, <1>3, <1>4, <1>5, <1>6, <1>7, <1>8, <1>9, <1>10, <1>11, <1>12, <1>13

\* Which group of steps a command is in.
LEMMA StepDomains ==
  /\ DOMAIN AddSteps = {"addCustom", "addPreset"}
  /\ DOMAIN ManageSteps = {"edit", "toggle", "delete", "clear"}
  /\ DOMAIN BatchSteps = {"merge", "replace", "export", "sample"}
  /\ DOMAIN BackupSteps = {"create", "restore", "deleteBackup"}
  /\ DOMAIN PersistenceSteps = {"check", "enable", "disable", "test", "reconcile"}
  /\ DOMAIN WatchSteps = {"doctor", "monitor"}
  /\ DOMAIN MoveSteps = {"migrate", "uninstall"}
  /\ DOMAIN OtherSteps = {"list", "address", "update"}
BY DEF AddSteps, ManageSteps, BatchSteps, BackupSteps, PersistenceSteps, WatchSteps,
       MoveSteps, OtherSteps

\* The steps of the commands that need no list first.
Scripts == {<<"value", "required", "value", "required", "label">>, <<"value", "label">>,
  <<>>, <<"word">>, <<"required", "value">>, <<"required", "value", "word">>, <<"required">>,
  <<"look", "word">>, <<"value">>, <<"value", "look", "word">>, <<"look", "word", "value">>}

\* Each command follows one of the scripts, or lists the backups first.
LEMMA StepsAre ==
  ASSUME NEW c \in CommandNames
  PROVE  \/ c = "restore" /\ Steps(c) = <<"list", "backup">>
         \/ c = "deleteBackup" /\ Steps(c) = <<"list", "backup", "word">>
         \/ Steps(c) \in Scripts
<1> USE StepDomains DEF Steps, Scripts
<1>1. CASE c \in {"addCustom", "addPreset"}
  BY <1>1 DEF AddSteps
<1>2. CASE c \in {"edit", "toggle", "delete", "clear"}
  BY <1>2 DEF ManageSteps
<1>3. CASE c \in {"merge", "replace", "export", "sample"}
  BY <1>3 DEF BatchSteps
<1>4. CASE c \in {"create", "restore", "deleteBackup"}
  BY <1>4 DEF BackupSteps
<1>5. CASE c \in {"check", "enable", "disable", "test", "reconcile"}
  BY <1>5 DEF PersistenceSteps
<1>6. CASE c \in {"doctor", "monitor"}
  BY <1>6 DEF WatchSteps
<1>7. CASE c \in {"migrate", "uninstall"}
  BY <1>7 DEF MoveSteps
<1>8. CASE c \in {"list", "address", "update"}
  BY <1>8 DEF OtherSteps
<1> QED
  BY <1>1, <1>2, <1>3, <1>4, <1>5, <1>6, <1>7, <1>8 DEF CommandNames

\* Only these two choose a backup, right after the list.
LEMMA BackupComesSecond ==
  ASSUME NEW c \in CommandNames, NEW i \in 1..Len(Steps(c)), Steps(c)[i] = "backup"
  PROVE  c \in {"restore", "deleteBackup"} /\ i = 2
<1>1. CASE Steps(c) \in Scripts
  BY <1>1 DEF Scripts
<1> QED
  BY <1>1, StepsAre

\* How many steps of a command that takes rules away lead to its word and past it.
WordAt == [delete |-> 1, clear |-> 1, replace |-> 3, migrate |-> 3, uninstall |-> 2]

DialogType ==
  [name : Dialogs \cup {"main", "left"}, command : CommandNames \cup {"none"}, passed : Nat,
   shown : SUBSET RuleIds, listed : Seq(SUBSET RuleIds), confirmed : BOOLEAN]

\* The stages of a command, and what it keeps through them.
Stages == {"idle", "loaded", "begun", "backed", "verified"}
TaskType == [stage : Stages, base : SUBSET RuleIds, want : SUBSET RuleIds, caught : Stages]

\* The rules, the backups, where a dialog is and how far its command.
SessionTypes ==
  /\ rules \in SUBSET RuleIds /\ backups \in Seq(SUBSET RuleIds)
  /\ dialog \in DialogType
  /\ task \in TaskType

\* Past its word a dialog is confirmed, and past its list there is something to choose.
Scripted ==
  /\ dialog.command \in DOMAIN WordAt /\ dialog.passed >= WordAt[dialog.command] =>
       dialog.confirmed
  /\ dialog.command \in {"restore", "deleteBackup"} /\ dialog.passed >= 1 =>
       dialog.listed # <<>>

Courses == SessionTypes /\ Scripted

\* Each of them has its word there.
LEMMA WordsCome ==
  /\ DOMAIN WordAt = {"delete", "clear", "replace", "migrate", "uninstall"}
  /\ \A c \in DOMAIN WordAt :
       /\ Steps(c)[WordAt[c]] = "word" /\ WordAt[c] \in 1..Len(Steps(c)) /\ Len(Steps(c)) \in Nat
<1>1. DOMAIN WordAt = {"delete", "clear", "replace", "migrate", "uninstall"}
  BY DEF WordAt
<1>2. /\ Steps("delete") = <<"word">> /\ Steps("clear") = <<"word">>
      /\ Steps("replace") = <<"required", "value", "word">>
      /\ Steps("migrate") = <<"value", "look", "word">>
      /\ Steps("uninstall") = <<"look", "word", "value">>
  BY StepDomains DEF Steps, ManageSteps, MoveSteps, BatchSteps
<1>3. /\ WordAt["delete"] = 1 /\ WordAt["clear"] = 1 /\ WordAt["replace"] = 3
      /\ WordAt["migrate"] = 3 /\ WordAt["uninstall"] = 2
  BY DEF WordAt
<1>4. ASSUME NEW c \in DOMAIN WordAt
      PROVE  /\ Steps(c)[WordAt[c]] = "word"
             /\ WordAt[c] \in 1..Len(Steps(c)) /\ Len(Steps(c)) \in Nat
  <2>1. CASE c = "delete"
    BY <1>2, <1>3, <2>1
  <2>5. CASE c = "clear"
    BY <1>2, <1>3, <2>5
  <2>2. CASE c = "replace"
    BY <1>2, <1>3, <2>2
  <2>3. CASE c = "migrate"
    BY <1>2, <1>3, <2>3
  <2>4. CASE c = "uninstall"
    BY <1>2, <1>3, <2>4
  <2> QED
    BY <1>1, <1>4, <2>1, <2>2, <2>3, <2>4, <2>5
<1> QED
  BY <1>1, <1>4

\* Beginnings of dialogs have passed nothing.
LEMMA AtStart ==
  ASSUME dialog' \in DialogType, dialog'.passed = 0
  PROVE  Scripted'
BY WordsCome DEF Scripted, WordAt

\* The main menu, the end and the beginning of a dialog are dialogs.
LEMMA MainTyped == AtMain \in DialogType /\ AtMain.passed = 0
<1>1. <<>> \in Seq(SUBSET RuleIds) /\ {} \in SUBSET RuleIds
  OBVIOUS
<1>2. "none" \in CommandNames \cup {"none"}
  OBVIOUS
<1> QED
  BY <1>1, <1>2 DEF AtMain, DialogType

LEMMA LeftTyped == Left \in DialogType /\ Left.passed = 0
BY MainTyped DEF Left, DialogType

LEMMA EnteringTyped ==
  ASSUME NEW name \in Dialogs
  PROVE  Entering(name) \in DialogType /\ Entering(name).passed = 0
<1>1. CommandsOf[name][1] \in CommandNames
  BY MenusHaveCommands
<1> QED
  BY <1>1, MainTyped DEF Entering, DialogType

\* A prompt that is answered, or gives up, keeps a dialog on its course.
LEMMA AskCourse ==
  ASSUME Courses, Ask
  PROVE  dialog' \in DialogType /\ Scripted'
<1> USE DEF Courses, SessionTypes
<1> DEFINE kind == Part[dialog.passed + 1]
<1>1. CASE dialog' = AtMain
  BY <1>1, MainTyped, AtStart
<1>2. ASSUME NEW answer \in {"end", "good", "empty", "wrong"}, NEW hasDefault \in HasDefault(kind),
             Prompt(answer, hasDefault) \in Accepted(kind),
             \/ kind = "id" /\ \E id \in dialog.shown : dialog' = [Passed EXCEPT !.shown = {id}]
             \/ /\ kind = "backup"
                /\ \E set \in Meant(Prompt(answer, hasDefault)) :
                     dialog' = [Passed EXCEPT !.listed = <<set>>]
             \/ kind = "word" /\ dialog' = [Passed EXCEPT !.confirmed = (answer = "good")]
             \/ kind \notin {"id", "backup", "word"} /\ dialog' = Passed
      PROVE  dialog' \in DialogType /\ Scripted'
  <2>1. /\ dialog.passed \in Nat /\ dialog.passed < Len(Part)
        /\ dialog.command \in CommandNames \cup {"none"}
        /\ dialog.listed \in Seq(SUBSET RuleIds) /\ dialog.shown \in SUBSET RuleIds
    BY DEF Ask, AtStep, DialogType
  <2>2. kind = "backup" => dialog.command \in {"restore", "deleteBackup"} /\ dialog.passed = 1
    <3>1. CASE dialog.command = "none"
      BY <2>1, <3>1 DEF Part, Before
    <3>2. CASE dialog.command \in CommandNames
      <4>1. Part = Steps(dialog.command)
        BY <3>2 DEF Part, CommandNames
      <4>2. Len(Steps(dialog.command)) \in Nat
        BY <3>2, StepsAre DEF Scripts
      <4> QED
        BY <2>1, <3>2, <4>1, <4>2, BackupComesSecond
    <3> QED
      BY <2>1, <3>1, <3>2
  <2>3. kind = "backup" => dialog.listed # <<>>
    BY <2>2 DEF Scripted
  <2>4. kind = "backup" => Meant(Prompt(answer, hasDefault)) \subseteq SUBSET RuleIds
    BY <2>1, <2>3 DEF Meant, Range
  <2>5. dialog' \in DialogType
    <3> HIDE DEF kind
    <3>1. Passed \in DialogType
      BY DEF Passed, DialogType
    <3>2. CASE \E id \in dialog.shown : dialog' = [Passed EXCEPT !.shown = {id}]
      BY <2>1, <3>1, <3>2 DEF DialogType
    <3>3. CASE /\ kind = "backup"
               /\ \E set \in Meant(Prompt(answer, hasDefault)) :
                    dialog' = [Passed EXCEPT !.listed = <<set>>]
      <4>1. PICK set \in SUBSET RuleIds : dialog' = [Passed EXCEPT !.listed = <<set>>]
        BY <2>4, <3>3
      <4>2. <<set>> \in Seq(SUBSET RuleIds)
        OBVIOUS
      <4> QED
        BY <3>1, <4>1, <4>2 DEF DialogType
    <3>4. CASE dialog' = [Passed EXCEPT !.confirmed = (answer = "good")]
      BY <3>1, <3>4 DEF DialogType
    <3> QED
      BY <1>2, <3>1, <3>2, <3>3, <3>4
  <2>6. /\ dialog'.passed = dialog.passed + 1 /\ dialog'.command = dialog.command
    BY <1>2, <2>1 DEF Passed, DialogType
  <2>7. kind = "word" => dialog'.confirmed = TRUE
    <3>1. kind = "word" => answer = "good"
      BY <1>2 DEF Prompt, Accepted, HasDefault
    <3> QED
      BY <1>2, <3>1 DEF Passed, DialogType
  <2>8. kind # "word" => dialog'.confirmed = dialog.confirmed
    BY <1>2 DEF Passed, DialogType
  <2>9. kind # "backup" => dialog'.listed = dialog.listed
    BY <1>2 DEF Passed, DialogType
  <2>10. ASSUME kind = "backup" PROVE dialog'.listed # <<>>
    <3>1. PICK set : dialog' = [Passed EXCEPT !.listed = <<set>>]
      BY <1>2, <2>10
    <3>2. dialog'.listed = <<set>>
      BY <3>1 DEF Passed, DialogType
    <3> QED
      BY <3>2
  <2>11. ASSUME dialog.command \in DOMAIN WordAt, dialog.passed + 1 >= WordAt[dialog.command]
         PROVE  dialog'.confirmed
    <3>1. /\ WordAt[dialog.command] \in Nat /\ Steps(dialog.command)[WordAt[dialog.command]] = "word"
          /\ Part = Steps(dialog.command)
      BY <2>11, WordsCome DEF Part
    <3>2. CASE dialog.passed + 1 = WordAt[dialog.command]
      BY <2>7, <3>1, <3>2
    <3>3. CASE dialog.passed >= WordAt[dialog.command]
      BY <2>7, <2>8, <2>11, <3>3 DEF Scripted
    <3> QED
      BY <2>1, <2>11, <3>1, <3>2, <3>3
  <2>12. ASSUME dialog.command \in {"restore", "deleteBackup"} PROVE dialog'.listed # <<>>
    <3>1. Part[1] = "list"
      BY <2>12, StepDomains DEF Part, Steps, BackupSteps
    <3>2. kind # "list"
      BY DEF Ask, AtStep
    <3>3. dialog.passed # 0
      BY <2>1, <3>1, <3>2
    <3>4. dialog.listed # <<>>
      BY <2>1, <2>12, <3>3 DEF Scripted
    <3> QED
      BY <2>9, <2>10, <3>4
  <2> QED
    BY <2>5, <2>6, <2>9, <2>10, <2>11, <2>12 DEF Scripted
<1> QED
  BY <1>1, <1>2 DEF Ask, Answers

\* Selecting a command begins its steps.
LEMMA SelectCourse ==
  ASSUME Courses, Select
  PROVE  dialog' \in DialogType /\ Scripted'
<1> USE DEF Courses, SessionTypes
<1>1. CASE dialog' = AtMain
  BY <1>1, MainTyped, AtStart
<1>2. ASSUME NEW i \in DOMAIN CommandsOf[dialog.name],
             dialog' = [dialog EXCEPT !.command = CommandsOf[dialog.name][i], !.passed = 0]
      PROVE  dialog' \in DialogType /\ Scripted'
  <2>1. dialog.name \in Dialogs
    BY DEF Select, InDialog
  <2>2. CommandsOf[dialog.name][i] \in CommandNames
    BY <2>1, MenusHaveCommands
  <2>3. dialog' \in DialogType /\ dialog'.passed = 0
    BY <1>2, <2>2 DEF DialogType
  <2> QED
    BY <2>3, AtStart
<1>3. 1 \in DOMAIN CommandsOf[dialog.name]
  BY MenusHaveCommands DEF Select, InDialog
<1> QED
  BY <1>1, <1>2, <1>3 DEF Select

\* The main menu leads into a dialog, or ends the session.
LEMMA ChooseCourse ==
  ASSUME Courses, Choose
  PROVE  dialog' \in DialogType /\ Scripted'
<1>1. \/ dialog' = dialog \/ dialog' = Left \/ \E name \in Dialogs : dialog' = Entering(name)
  BY DEF Choose
<1>2. CASE dialog' = dialog
  BY <1>2 DEF Courses, SessionTypes, Scripted
<1> QED
  BY <1>1, <1>2, LeftTyped, EnteringTyped, AtStart

\* A look or a list that fails leaves the dialog; one that succeeds goes on.
LEMMA LookCourse ==
  ASSUME Courses, Look \/ List
  PROVE  dialog' \in DialogType /\ Scripted'
<1> USE DEF Courses, SessionTypes
<1>1. CASE dialog' = AtMain
  BY <1>1, MainTyped, AtStart
<1>2. ASSUME \/ Look /\ (dialog' = Passed \/ dialog' = [Passed EXCEPT !.shown = rules])
             \/ List /\ backups # <<>> /\ dialog' = [Passed EXCEPT !.listed = backups]
      PROVE  dialog' \in DialogType /\ Scripted'
  <2>1. dialog' \in DialogType
    <3>1. Passed \in DialogType
      BY DEF Passed, DialogType
    <3>2. CASE dialog' = [Passed EXCEPT !.shown = rules]
      BY <3>1, <3>2 DEF DialogType
    <3>3. CASE dialog' = [Passed EXCEPT !.listed = backups]
      BY <3>1, <3>3 DEF DialogType
    <3> QED
      BY <1>2, <3>1, <3>2, <3>3
  <2>2. /\ dialog.passed \in Nat /\ dialog'.passed = dialog.passed + 1
        /\ dialog'.command = dialog.command /\ dialog'.confirmed = dialog.confirmed
        /\ Part[dialog.passed + 1] \in {"look", "list"}
        /\ Look => Part[dialog.passed + 1] = "look"
        /\ dialog'.listed = dialog.listed \/ dialog'.listed # <<>>
        /\ List => dialog'.listed # <<>>
    BY <1>2 DEF Passed, DialogType, Look, List, AtStep
  <2>3. ASSUME dialog.command \in DOMAIN WordAt, dialog.passed + 1 >= WordAt[dialog.command]
        PROVE  dialog.confirmed
    <3>1. /\ WordAt[dialog.command] \in Nat /\ Part[WordAt[dialog.command]] = "word"
      BY <2>3, WordsCome DEF Part
    <3>2. dialog.passed + 1 # WordAt[dialog.command]
      BY <2>2, <3>1
    <3> QED
      BY <2>2, <2>3, <3>1, <3>2 DEF Scripted
  <2>4. ASSUME dialog.command \in {"restore", "deleteBackup"} PROVE dialog'.listed # <<>>
    <3>1. Part[1] = "list"
      BY <2>4, StepDomains DEF Part, Steps, BackupSteps
    <3>2. Look => dialog.passed # 0
      BY <2>2, <3>1
    <3> QED
      BY <1>2, <2>2, <2>4, <3>2 DEF Scripted
  <2> QED
    BY <2>1, <2>2, <2>3, <2>4 DEF Scripted
<1> QED
  BY <1>1, <1>2 DEF Look, List

\* What a backup adds, and what retention leaves, are backups.
LEMMA BackupsTyped ==
  ASSUME SessionTypes, NEW set \in SUBSET RuleIds
  PROVE  BackedUp(set) \in Seq(SUBSET RuleIds)
<1> DEFINE more == <<set>> \o backups
<1>1. more \in Seq(SUBSET RuleIds) /\ Len(more) \in Nat
  BY DEF SessionTypes
<1> HIDE DEF more
<1>2. CASE Len(more) > MaxBackups
  <2>1. 1 \in 1..(Len(more)+1) /\ MaxBackups \in 0..Len(more)
    BY <1>1, <1>2, MaxBackupsAssumption
  <2>2. SubSeq(more, 1, MaxBackups) \in Seq(SUBSET RuleIds)
    BY <1>1, <2>1, SubSeqProperties
  <2> QED
    BY <1>2, <2>2 DEF BackedUp, more
<1>3. CASE ~(Len(more) > MaxBackups)
  <2>1. SubSeq(more, 1, Len(more)) \in Seq(SUBSET RuleIds)
    BY <1>1, SubSeqProperties
  <2> QED
    BY <1>3, <2>1 DEF BackedUp, more
<1> QED
  BY <1>2, <1>3

\* Taking a backup away leaves backups, one fewer.
LEMMA FewerBackups ==
  ASSUME SessionTypes, NEW i \in DOMAIN backups, backups' = RemoveAt(backups, i)
  PROVE  backups' \in Seq(SUBSET RuleIds) /\ Len(backups') < Len(backups)
<1>1. backups' = SubSeq(backups, 1, i - 1) \o SubSeq(backups, i + 1, Len(backups))
  BY DEF RemoveAt
<1>2. backups \in Seq(SUBSET RuleIds) /\ i \in 1..Len(backups) /\ Len(backups) \in Nat
  BY DEF SessionTypes
<1>3. /\ SubSeq(backups, 1, i - 1) \in Seq(SUBSET RuleIds)
      /\ Len(SubSeq(backups, 1, i - 1)) = i - 1
  BY <1>2, SubSeqProperties
<1>4. /\ SubSeq(backups, i + 1, Len(backups)) \in Seq(SUBSET RuleIds)
      /\ Len(SubSeq(backups, i + 1, Len(backups))) = Len(backups) - i
  BY <1>2, SubSeqProperties
<1>5. /\ backups' \in Seq(SUBSET RuleIds)
      /\ Len(backups') = Len(SubSeq(backups, 1, i - 1)) + Len(SubSeq(backups, i + 1, Len(backups)))
  BY <1>1, <1>3, <1>4, ConcatProperties
<1> QED
  BY <1>2, <1>3, <1>4, <1>5

--------------------------------------------------------------------------------
(* The command a session runs *)

\* The dialog waits for its command.
Waiting ==
  dialog.name \in Dialogs /\ dialog.command # "none" /\ dialog.passed = Len(Part)

\* What a command is to commit keeps what it found, unless it may take rules away.
MayTake(want) ==
  task.base \subseteq want \/ dialog.confirmed \/ dialog.command = "restore"

\* A running command has its dialog waiting; and no program runs to its end after Ctrl+C, so
\* that an interrupted command is past its first runs, or its verification, only if it was
\* when it was caught.
OnTask ==
  /\ task.stage # "idle" =>
       /\ Waiting /\ dialog.command # "monitor"
       /\ dialog.command = "uninstall" => dialog.confirmed
       /\ MayTake(task.want)
  /\ interrupted =>
       /\ task.stage = "begun" => task.caught = "begun"
       /\ task.stage = "verified" => task.caught = "verified"

SessionInv == Courses /\ OnTask

\* What a step of the session never does.
Kept ==
  Acts =>
    /\ rules \cap task.base \subseteq rules' \/ dialog.confirmed \/ dialog.command = "restore"
    /\ interrupted =>
         /\ rules' = rules \/ task.caught = "verified"
         /\ backups' = backups \/ Len(backups') < Len(backups) \/ task.caught = "begun"

LEMMA IdleTyped == Idle \in TaskType /\ Idle.stage = "idle" /\ Idle.base = {}
BY DEF Idle, TaskType, Stages

\* A dialog whose command takes rules away has its word when it is done.
LEMMA DoneIsConfirmed ==
  ASSUME Courses, Done, dialog.command \in DOMAIN WordAt
  PROVE  dialog.confirmed
<1> DEFINE at == WordAt[dialog.command]
           steps == Len(Steps(dialog.command))
<1>1. at \in 1..steps /\ steps \in Nat
  BY WordsCome
<1>2. dialog.passed = steps
  BY DEF Done, Part
<1> HIDE DEF at, steps
<1>3. dialog.passed >= at
  BY <1>1, <1>2
<1>4. dialog.passed >= WordAt[dialog.command]
  BY <1>3 DEF at
<1> QED
  BY <1>4 DEF Courses, Scripted

\* A command begins with a set that keeps what it found, or is confirmed or a restore.
LEMMA LoadKeeps == SessionInv /\ Load => SessionInv' /\ Kept
<1> SUFFICES ASSUME SessionInv, Load PROVE SessionInv' /\ Kept
  OBVIOUS
<1> USE DEF SessionInv, Courses
<1>1. PICK want \in SUBSET RuleIds :
        Wanted(want) /\ task' = [Idle EXCEPT !.stage = "loaded", !.base = rules, !.want = want]
  BY DEF Load
<1>2. Done /\ UNCHANGED <<rules, backups, dialog>>
  BY DEF Load
<1>3. /\ task' \in TaskType /\ task'.stage = "loaded" /\ task'.base = rules /\ task'.want = want
  BY <1>1 DEF Idle, TaskType, Stages, SessionTypes
<1>4. dialog.command \in DOMAIN WordAt => dialog.confirmed
  BY <1>2, DoneIsConfirmed
<1>5. rules \subseteq want \/ dialog.confirmed \/ dialog.command = "restore"
  BY <1>1, <1>4, WordsCome DEF Wanted
<1>6. dialog.command # "monitor"
  BY <1>1 DEF Wanted
<1>7. SessionTypes' /\ Scripted'
  BY <1>2, <1>3 DEF SessionTypes, Scripted
<1>8. OnTask'
  BY <1>2, <1>3, <1>4, <1>5, <1>6, WordsCome DEF OnTask, Waiting, MayTake, Done, InDialog, Part
<1> QED
  BY <1>2, <1>7, <1>8 DEF Kept

\* It goes on only under a context that is alive.
LEMMA StagesKeep ==
  ASSUME SessionInv, Begin \/ Enforce, UNCHANGED interrupted
  PROVE  SessionInv' /\ Kept
<1> USE DEF SessionInv, Courses
<1>1. /\ UNCHANGED <<rules, backups, dialog>> /\ ~interrupted /\ task.stage # "idle"
      /\ \E stage \in Stages : task' = [task EXCEPT !.stage = stage]
  BY DEF Begin, Enforce, Alive, Stages
<1>2. /\ task' \in TaskType /\ task'.base = task.base /\ task'.want = task.want
  BY <1>1 DEF SessionTypes, TaskType
<1>3. SessionTypes' /\ Scripted'
  BY <1>1, <1>2 DEF SessionTypes, Scripted
<1>4. OnTask'
  BY <1>1, <1>2 DEF OnTask, Waiting, MayTake, Part
<1> QED
  BY <1>1, <1>3, <1>4 DEF Kept

\* A command that ends leaves the dialog, and no trace.
LEMMA EndsKeep ==
  ASSUME SessionInv, EndTask, rules' \in SUBSET RuleIds, backups' \in Seq(SUBSET RuleIds)
  PROVE  SessionInv'
<1>1. dialog' \in DialogType /\ Scripted'
  BY MainTyped, AtStart DEF EndTask
<1>2. task' \in TaskType /\ task'.stage = "idle"
  BY IdleTyped DEF EndTask
<1> QED
  BY <1>1, <1>2 DEF SessionInv, Courses, SessionTypes, OnTask

\* The backup is of the rules there are, or of those `backup create` loaded.
LEMMA BackUpKeeps == SessionInv /\ BackUp /\ UNCHANGED interrupted => SessionInv' /\ Kept
<1> SUFFICES ASSUME SessionInv, BackUp, UNCHANGED interrupted PROVE SessionInv' /\ Kept
  OBVIOUS
<1> USE DEF SessionInv, Courses
<1>1. /\ task.stage = "begun" /\ rules' = rules /\ rules \in SUBSET RuleIds
      /\ backups \in Seq(SUBSET RuleIds) /\ task \in TaskType
  BY DEF BackUp, SessionTypes
<1>2. BackedUp(rules) \in Seq(SUBSET RuleIds) /\ BackedUp(task.base) \in Seq(SUBSET RuleIds)
  BY <1>1, BackupsTyped DEF TaskType
<1>3. Kept
  BY <1>1 DEF Kept, OnTask
<1>4. CASE /\ backups' \in {backups, BackedUp(rules)}
           /\ task' = [task EXCEPT !.stage = "backed"] /\ UNCHANGED dialog
  <2>1. /\ task' \in TaskType /\ task'.stage = "backed" /\ task'.base = task.base
        /\ task'.want = task.want
    BY <1>1, <1>4 DEF TaskType, Stages
  <2>2. SessionTypes' /\ Scripted'
    BY <1>1, <1>2, <1>4, <2>1 DEF SessionTypes, Scripted
  <2>3. OnTask'
    BY <1>1, <1>4, <2>1 DEF OnTask, Waiting, MayTake, Part
  <2> QED
    BY <1>3, <2>2, <2>3
<1>5. CASE backups' = BackedUp(task.base) /\ EndTask
  BY <1>1, <1>2, <1>3, <1>5, EndsKeep
<1> QED
  BY <1>4, <1>5 DEF BackUp

\* The commit is of what the command was to leave.
LEMMA FinishKeeps == SessionInv /\ Finish => SessionInv' /\ Kept
<1> SUFFICES ASSUME SessionInv, Finish PROVE SessionInv' /\ Kept
  OBVIOUS
<1> USE DEF SessionInv, Courses
<1>1. /\ task.stage = "verified" /\ EndTask /\ rules \in SUBSET RuleIds
      /\ backups \in Seq(SUBSET RuleIds) /\ task \in TaskType
  BY DEF Finish, SessionTypes
<1>2. CASE dialog.command = "uninstall"
  <2>1. rules' \in {rules, {}} /\ backups' \in {backups, <<>>} /\ dialog.confirmed
    BY <1>1, <1>2 DEF Finish, OnTask
  <2>2. Len(backups) \in Nat /\ (backups # <<>> => Len(<<>>) < Len(backups))
    BY <1>1
  <2>3. Kept
    BY <1>1, <2>1, <2>2 DEF Kept, OnTask
  <2>4. <<>> \in Seq(SUBSET RuleIds) /\ {} \in SUBSET RuleIds
    OBVIOUS
  <2> QED
    BY <1>1, <2>1, <2>3, <2>4, EndsKeep
<1>3. CASE dialog.command # "uninstall"
  <2>1. rules' = task.want /\ backups' = backups /\ task.want \in SUBSET RuleIds
    BY <1>1, <1>3 DEF Finish, TaskType
  <2>2. Kept
    BY <1>1, <2>1 DEF Kept, OnTask, MayTake
  <2> QED
    BY <1>1, <2>1, <2>2, EndsKeep
<1> QED
  BY <1>2, <1>3

\* Whatever the session's command does, it keeps all this.
LEMMA RunKeeps == SessionInv /\ Run /\ UNCHANGED interrupted => SessionInv' /\ Kept
<1> SUFFICES ASSUME SessionInv, Run, UNCHANGED interrupted PROVE SessionInv' /\ Kept
  OBVIOUS
<1>1. backups \in Seq(SUBSET RuleIds) /\ rules \in SUBSET RuleIds /\ SessionTypes
  BY DEF SessionInv, Courses, SessionTypes
<1>2. CASE Load
  BY <1>2, LoadKeeps
<1>3. CASE Begin \/ Enforce
  BY <1>3, StagesKeep
<1>4. CASE BackUp
  BY <1>4, BackUpKeeps
<1>5. CASE Finish
  BY <1>5, FinishKeeps
<1>6. CASE GiveUpTask
  BY <1>1, <1>6, EndsKeep DEF GiveUpTask, Kept
<1>7. CASE DeleteBackup
  <2>1. PICK i \in DOMAIN backups : backups' = RemoveAt(backups, i)
    BY <1>7 DEF DeleteBackup
  <2>2. backups' \in Seq(SUBSET RuleIds) /\ Len(backups') < Len(backups)
    BY <1>1, <2>1, FewerBackups
  <2> QED
    BY <1>1, <1>7, <2>2, EndsKeep DEF DeleteBackup, Kept
<1> QED
  BY <1>2, <1>3, <1>4, <1>5, <1>6, <1>7 DEF Run

\* A dialog that goes on has no command yet.
LEMMA DialogsRunNothing ==
  ASSUME SessionInv, Choose \/ Select \/ Ask \/ Look \/ List
  PROVE  task.stage = "idle"
<1>1. ASSUME Waiting PROVE FALSE
  <2>1. ~Choose
    BY <1>1 DEF Waiting, Choose, Dialogs, CommandsOf
  <2>2. ~Select /\ ~AtStep({"look"}) /\ ~AtStep({"list"})
        /\ ~AtStep({"value", "required", "label", "id", "backup", "word"})
    <3>1. dialog.passed \in Nat /\ ~(dialog.passed < Len(Part))
      BY <1>1 DEF Waiting, SessionInv, Courses, SessionTypes, DialogType
    <3> QED
      BY <1>1, <3>1 DEF Waiting, Select, AtStep
  <2> QED
    BY <2>1, <2>2 DEF Ask, Look, List
<1> QED
  BY <1>1 DEF SessionInv, OnTask

\* And so does every step.
LEMMA SessionStep == SessionInv /\ [Next]_vars => SessionInv' /\ Kept
<1> SUFFICES ASSUME SessionInv, [Next]_vars PROVE SessionInv' /\ Kept
  OBVIOUS
<1> USE DEF SessionInv, Courses
<1>1. CASE UNCHANGED <<rules, backups, dialog, task, interrupted>>
  BY <1>1 DEF SessionTypes, Scripted, Kept, Acts, OnTask, Waiting, MayTake, Part
<1>2. CASE (Choose \/ Select \/ Ask \/ Look \/ List) /\ UNCHANGED <<rules, backups, task>>
  <2>1. dialog' \in DialogType /\ Scripted'
    BY <1>2, ChooseCourse, SelectCourse, AskCourse, LookCourse
  <2>2. task.stage = "idle"
    BY <1>2, DialogsRunNothing
  <2> QED
    BY <1>2, <2>1, <2>2 DEF SessionTypes, Kept, OnTask
<1>3. CASE Run /\ UNCHANGED interrupted
  BY <1>3, RunKeeps
<1>4. CASE Monitor /\ UNCHANGED <<rules, backups>>
  <2>1. dialog' \in DialogType /\ Scripted'
    BY <1>4, MainTyped, AtStart DEF Monitor
  <2>2. task.stage = "idle" /\ task' = task
    BY <1>4 DEF Monitor, OnTask
  <2> QED
    BY <1>4, <2>1, <2>2 DEF SessionTypes, Kept, OnTask
<1>5. CASE Interrupt
  <2>1. task' = [task EXCEPT !.caught = task.stage] /\ UNCHANGED <<rules, backups, dialog>>
    BY <1>5 DEF Interrupt
  <2>2. /\ task' \in TaskType /\ task'.caught = task.stage /\ task'.stage = task.stage
        /\ task'.base = task.base /\ task'.want = task.want
    BY <2>1 DEF SessionTypes, TaskType
  <2> QED
    BY <1>5, <2>1, <2>2
    DEF Interrupt, SessionTypes, Scripted, OnTask, Waiting, MayTake, Part, Kept
<1>6. CASE Others
  <2>1. /\ rules' \in SUBSET RuleIds /\ UNCHANGED <<dialog, task, interrupted>>
        /\ backups' = BackedUp(rules) \/ \E i \in DOMAIN backups : backups' = RemoveAt(backups, i)
    BY <1>6 DEF Others, SessionTypes
  <2>2. backups' \in Seq(SUBSET RuleIds)
    BY <2>1, BackupsTyped, FewerBackups DEF SessionTypes
  <2> QED
    BY <2>1, <2>2 DEF SessionTypes, Scripted, Kept, Acts, OnTask, Waiting, MayTake, Part
<1> QED
  BY <1>1, <1>2, <1>3, <1>4, <1>5, <1>6 DEF Next, Program, Watch, EndInput, Kernel, vars

\* A session begins on course.
LEMMA SessionBegins == Init => SessionInv
<1> SUFFICES ASSUME Init PROVE SessionInv
  OBVIOUS
<1>1. dialog \in DialogType /\ dialog.passed = 0
  BY MainTyped DEF Init
<1>2. Scripted
  BY <1>1, WordsCome DEF Scripted, WordAt
<1>3. {} \in SUBSET RuleIds /\ <<>> \in Seq(SUBSET RuleIds)
  OBVIOUS
<1>4. task \in TaskType /\ task.stage = "idle"
  BY IdleTyped DEF Init
<1> QED
  BY <1>1, <1>2, <1>3, <1>4 DEF SessionInv, Courses, SessionTypes, OnTask, Init

\* Types: what a session shows, lists and is to commit are rules and backups, and its
\* commands are those of its menus.
THEOREM SessionIsTyped == Spec => []SessionTypes
<1>1. SessionInv => SessionTypes
  BY DEF SessionInv, Courses
<1> QED
  BY <1>1, SessionBegins, SessionStep, PTL DEF Spec

\* No command of a session takes away a rule it found before the user has typed its word, but
\* for the restore of a backup, whatever commits between its load and its own commit
\* (menu.go:147-181, 204-216, 331-371, app.go:52-121).
THEOREM WordsComeFirst == Spec => LossIsConfirmed
<1>1. SessionInv /\ [Next]_vars =>
        [Acts => rules \cap task.base \subseteq rules' \/ dialog.confirmed
                   \/ dialog.command = "restore"]_vars
  BY SessionStep DEF Kept
<1> QED
  BY <1>1, SessionBegins, SessionStep, PTL DEF Spec, LossIsConfirmed

\* An interrupt is for the rest of the session: only the command it catches still changes
\* rules, past its verification, or backups, past its first runs (main.go:69-71,
\* transaction.go:128, 151-155).
THEOREM InterruptsAreFinal == Spec => InterruptedOnlyFinishes
<1>1. SessionInv /\ [Next]_vars =>
        [interrupted /\ Acts =>
           /\ rules' = rules \/ task.caught = "verified"
           /\ backups' = backups \/ Len(backups') < Len(backups) \/ task.caught = "begun"]_vars
  BY SessionStep DEF Kept
<1> QED
  BY <1>1, SessionBegins, SessionStep, PTL DEF Spec, InterruptedOnlyFinishes
================================================================================
