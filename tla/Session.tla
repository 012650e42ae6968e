-------------------------------- MODULE Session --------------------------------
(***************************************************************************)
(* An interactive session: the menu of cmd/pmm/menu.go and the commands it *)
(* starts, a monitor among them, all under one context that the first      *)
(* Ctrl+C cancels for good (main.go run).  Other commands change rules     *)
(* meanwhile, and standard input may end at any question.                  *)
(*                                                                         *)
(* A dialog is a sequence of steps, each of a kind:                        *)
(*   "value"    a question with a default                                  *)
(*   "required" a question without one, whose empty answer is refused      *)
(*   "label"    a question whose answer may be empty, with a default if    *)
(*              the rule at hand has a label                               *)
(*   "id"       the id of a rule, or a prefix that fits one rule only      *)
(*   "backup"   the number of a listed backup, by default the first        *)
(*   "word"     a question that wants a certain word to go on              *)
(*   "look"     the state or the plan is read and shown                    *)
(*   "list"     the backups are listed and shown                           *)
(* with a question in between that selects the command, where there is     *)
(* more than one.  Questions of one kind in a row are one step.            *)
(*                                                                         *)
(* A command that changes rules (by id) or backups goes through stages, as *)
(* far as they tell apart what other commands and the interrupt may come   *)
(* between; how the firewall and a failing step fare is Transaction's      *)
(* subject.                                                                *)
(***************************************************************************)
EXTENDS Monitor, SequencesExt

CONSTANTS
  RuleIds,     \* rules there may be
  MaxBackups   \* backups that are kept

ASSUME MaxBackupsAssumption == MaxBackups \in Nat \ {0}

VARIABLES
  rules,    \* ids in the database
  backups,  \* the rule sets that are backed up, newest first
  dialog,   \* where the session is
  task,     \* the command it runs: its stage, the rules it loaded, those it is to commit,
            \*   and the stage at which the interrupt caught it
  ended     \* standard input has ended

vars == <<monitorVars, interrupted, rules, backups, dialog, task, ended>>

--------------------------------------------------------------------------------
(* The dialogs *)

\* The commands of each; the first is the default of the question that selects one.
CommandsOf ==
  [list |-> <<"list">>, add |-> <<"addCustom", "addPreset">>,
   manage |-> <<"edit", "toggle", "delete", "clear">>, monitor |-> <<"monitor">>,
   doctor |-> <<"doctor">>, batch |-> <<"merge", "replace", "export", "sample">>,
   backup |-> <<"create", "restore", "deleteBackup">>,
   persistence |-> <<"check", "enable", "disable", "test", "reconcile">>,
   address |-> <<"address">>, migration |-> <<"migrate">>, update |-> <<"update">>,
   uninstall |-> <<"uninstall">>]

Dialogs == DOMAIN CommandsOf

\* Steps before the command is selected.
Before(name) == IF name = "manage" THEN <<"look", "id">> ELSE <<>>

\* Steps after it is.
AddSteps ==
  [addCustom |-> <<"value", "required", "value", "required", "label">>,
   addPreset |-> <<"value", "label">>]
ManageSteps ==
  [edit |-> <<"value", "label">>, toggle |-> <<>>, delete |-> <<"word">>, clear |-> <<"word">>]
BatchSteps ==
  [merge |-> <<"required", "value">>, replace |-> <<"required", "value", "word">>,
   export |-> <<"required">>, sample |-> <<"required">>]
BackupSteps ==
  [create |-> <<>>, restore |-> <<"list", "backup">>, deleteBackup |-> <<"list", "backup", "word">>]
PersistenceSteps ==
  [check |-> <<>>, enable |-> <<"word">>, disable |-> <<"word">>, test |-> <<>>,
   reconcile |-> <<"look", "word">>]
WatchSteps == [doctor |-> <<"value">>, monitor |-> <<"value">>]
MoveSteps == [migrate |-> <<"value", "look", "word">>, uninstall |-> <<"look", "word", "value">>]

OtherSteps == [list |-> <<>>, address |-> <<"value">>, update |-> <<>>]

Steps(command) ==
  CASE command \in DOMAIN AddSteps         -> AddSteps[command]
    [] command \in DOMAIN ManageSteps      -> ManageSteps[command]
    [] command \in DOMAIN BatchSteps       -> BatchSteps[command]
    [] command \in DOMAIN BackupSteps      -> BackupSteps[command]
    [] command \in DOMAIN PersistenceSteps -> PersistenceSteps[command]
    [] command \in DOMAIN WatchSteps       -> WatchSteps[command]
    [] command \in DOMAIN MoveSteps        -> MoveSteps[command]
    [] command \in DOMAIN OtherSteps       -> OtherSteps[command]

\* Between dialogs, at the end, and at the start of one.
AtMain ==
  [name |-> "main", command |-> "none", passed |-> 0, shown |-> {}, listed |-> <<>>,
   confirmed |-> FALSE]
Left == [AtMain EXCEPT !.name = "left"]
Entering(name) ==
  [AtMain EXCEPT !.name = name,
                 !.command = IF Len(CommandsOf[name]) = 1 THEN CommandsOf[name][1] ELSE "none"]

\* In a dialog, the steps of the part it is in, and the next of them.
Part == IF dialog.command = "none" THEN Before(dialog.name) ELSE Steps(dialog.command)
InDialog == dialog.name \in Dialogs /\ ~monitoring
AtStep(kinds) == InDialog /\ dialog.passed < Len(Part) /\ Part[dialog.passed + 1] \in kinds
Passed == [dialog EXCEPT !.passed = @ + 1]

--------------------------------------------------------------------------------
(* Questions *)

\* A line that suits the question, an empty one, another one, or the end of input.
Answers == IF ended THEN {"end"} ELSE {"good", "empty", "wrong"}

\* Mutant: the end of input is read as an empty line.
PromptNoEOF(answer, hasDefault) ==
  IF answer \in {"good", "wrong"} THEN answer
  ELSE IF hasDefault THEN "default" ELSE "empty"

\* menuInput.prompt: the answer, the default, an empty string, or io.EOF.
Prompt(answer, hasDefault) ==
  IF answer \in {"good", "wrong"} THEN answer
  ELSE IF hasDefault THEN "default"
  ELSE IF answer = "end" THEN "EOF" ELSE "empty"

\* Mutant: a dialog that wants a word takes an empty line as well.
AcceptedUnsaid(kind) ==
  CASE kind \in {"value", "backup"} -> {"good", "default"}
    [] kind \in {"label", "word"}    -> {"good", "default", "empty"}
    [] OTHER                        -> {"good"}

\* Results with which the dialog goes on.
Accepted(kind) ==
  CASE kind \in {"value", "backup"} -> {"good", "default"}
    [] kind = "label"               -> {"good", "default", "empty"}
    [] kind = "id"                  -> IF Cardinality(dialog.shown) = 1 THEN {"good", "empty"}
                                       ELSE {"good"}
    [] OTHER                        -> {"good"}

HasDefault(kind) ==
  CASE kind \in {"value", "backup"} -> {TRUE}
    [] kind = "label"               -> BOOLEAN
    [] OTHER                        -> {FALSE}

\* The backups that an answer to "backup" may mean.
Meant(result) ==
  IF result = "default" THEN {dialog.listed[1]} ELSE Range(dialog.listed)

Ask ==
  /\ AtStep({"value", "required", "label", "id", "backup", "word"})
  /\ LET kind == Part[dialog.passed + 1]
     IN \E answer \in Answers, hasDefault \in HasDefault(kind) :
          LET result == Prompt(answer, hasDefault)
          IN \/ result \notin Accepted(kind) /\ dialog' = AtMain
             \/ /\ result \in Accepted(kind)
                /\ CASE kind = "id"     -> \E id \in dialog.shown :
                                             dialog' = [Passed EXCEPT !.shown = {id}]
                     [] kind = "backup" -> \E set \in Meant(result) :
                                             dialog' = [Passed EXCEPT !.listed = <<set>>]
                     [] kind = "word"   -> dialog' = [Passed EXCEPT !.confirmed = (answer = "good")]
                     [] OTHER           -> dialog' = Passed

\* The question that selects the command.
Select ==
  /\ InDialog /\ dialog.command = "none" /\ dialog.passed = Len(Part)
  /\ \E answer \in Answers :
       LET result == Prompt(answer, TRUE)
           Go(command) == dialog' = [dialog EXCEPT !.command = command, !.passed = 0]
       IN CASE result = "good"    -> \E i \in DOMAIN CommandsOf[dialog.name] :
                                       Go(CommandsOf[dialog.name][i])
            [] result = "default" -> Go(CommandsOf[dialog.name][1])
            [] OTHER              -> dialog' = AtMain

\* The main menu's question: what is no choice is asked again.
Choose ==
  /\ dialog.name = "main"
  /\ \E answer \in Answers :
       CASE Prompt(answer, FALSE) = "good" -> \/ dialog' = Left
                                              \/ \E name \in Dialogs : dialog' = Entering(name)
         [] Prompt(answer, FALSE) = "EOF"  -> dialog' = Left
         [] OTHER                          -> dialog' = dialog

--------------------------------------------------------------------------------
(* Reading what is shown *)

Look ==
  /\ AtStep({"look"})
  /\ \/ dialog' = AtMain
     \/ /\ ~interrupted
        /\ IF dialog.name = "manage" THEN rules # {} /\ dialog' = [Passed EXCEPT !.shown = rules]
           ELSE dialog' = Passed

List ==
  /\ AtStep({"list"})
  /\ dialog' = IF backups = <<>> THEN AtMain ELSE [Passed EXCEPT !.listed = backups]

--------------------------------------------------------------------------------
(* Commands *)

Transactions ==
  {"addCustom", "addPreset", "edit", "toggle", "delete", "clear", "merge", "replace", "restore"}

Idle == [stage |-> "idle", base |-> {}, want |-> {}, caught |-> "idle"]

Done == InDialog /\ dialog.command # "none" /\ dialog.passed = Len(Part)
EndTask == task' = Idle /\ dialog' = AtMain

\* Mutant: commands are given a context of their own.
AliveAlways == TRUE

\* A program runs to its end only under a context that is not cancelled.
Alive == ~interrupted

Chosen == CHOOSE id \in dialog.shown : TRUE

\* A rule set the command may be to leave, of the rules it finds when it is called.
Wanted(want) ==
  \/ /\ dialog.command \in {"addCustom", "addPreset"}
     /\ \E id \in RuleIds \ rules : want = rules \cup {id}
  \/ dialog.command \in {"edit", "toggle"} /\ Chosen \in rules /\ want = rules
  \/ dialog.command = "delete" /\ Chosen \in rules /\ want = rules \ {Chosen}
  \/ dialog.command \in {"clear", "uninstall"} /\ want = {}
  \/ dialog.command = "merge" /\ rules \subseteq want
  \/ dialog.command = "restore" /\ want = dialog.listed[1] /\ \E i \in DOMAIN backups : backups[i] = want
  \/ dialog.command = "create" /\ want = rules
  \/ dialog.command \in {"replace", "migrate"}

\* The database, backup or plan a command starts from is read before it waits for the lock.
Load ==
  /\ Done /\ task = Idle
  /\ \E want \in SUBSET RuleIds :
       Wanted(want) /\ task' = [Idle EXCEPT !.stage = "loaded", !.base = rules, !.want = want]
  /\ UNCHANGED <<rules, backups, dialog>>

\* The lock, if the command takes it, and what it runs before it writes anything.
Begin ==
  /\ task.stage = "loaded" /\ Alive
  /\ task' = [task EXCEPT !.stage = "begun"]
  /\ UNCHANGED <<rules, backups, dialog>>

\* The newest backups with one more.
BackedUp(set) == LET more == <<set>> \o backups
                 IN SubSeq(more, 1, IF Len(more) > MaxBackups THEN MaxBackups ELSE Len(more))

\* The automatic backup, if it is not switched off, of the database as it is now; `backup
\* create` writes what it loaded.  Nothing is run for either.
BackUp ==
  /\ task.stage = "begun"
  /\ \/ /\ dialog.command \in Transactions
        /\ backups' \in {backups, BackedUp(rules)}
        /\ task' = [task EXCEPT !.stage = "backed"] /\ UNCHANGED dialog
     \/ dialog.command = "create" /\ backups' = BackedUp(task.base) /\ EndTask
  /\ UNCHANGED rules

\* What it changes and verifies by running iptables.
Enforce ==
  /\ \/ task.stage = "backed"
     \/ task.stage = "begun" /\ dialog.command \in {"migrate", "uninstall"}
  /\ Alive
  /\ task' = [task EXCEPT !.stage = "verified"]
  /\ UNCHANGED <<rules, backups, dialog>>

\* Store.Save, or the removal of PMM's directories, which may keep the data: no run either.
Finish ==
  /\ task.stage = "verified"
  /\ IF dialog.command = "uninstall" THEN rules' \in {rules, {}} /\ backups' \in {backups, <<>>}
     ELSE rules' = task.want /\ UNCHANGED backups
  /\ EndTask

\* A command that fails at any stage, or changes neither rules nor backups.
GiveUpTask ==
  /\ Done /\ dialog.command # "monitor"
  /\ EndTask
  /\ UNCHANGED <<rules, backups>>

\* `backup delete` runs nothing.
DeleteBackup ==
  /\ Done /\ dialog.command = "deleteBackup"
  /\ \E i \in DOMAIN backups : backups[i] = dialog.listed[1] /\ backups' = RemoveAt(backups, i)
  /\ EndTask
  /\ UNCHANGED rules

\* The command of a dialog whose questions are answered.
Run == Load \/ Begin \/ BackUp \/ Enforce \/ Finish \/ GiveUpTask \/ DeleteBackup

\* The default of 10 samples is finite; only a typed 0 is not.
Monitor ==
  /\ Done /\ dialog.command = "monitor"
  /\ \E count \in 1..MaxCount \cup (IF ended THEN {} ELSE {Endless}) : StartMonitor(count)
  /\ dialog' = AtMain
  /\ UNCHANGED <<kernelVars, task>>

--------------------------------------------------------------------------------
(* The session, and what goes on around it *)

\* The session waits for its monitor, and is back at the menu when it ends.  The followed
\* rule's chains are of no more interest then, and the next monitor follows a rule from
\* its first chain again: before its first sample it has seen nothing of their history.
Watch ==
  /\ MonitorStep
  /\ IF monitoring' THEN UNCHANGED kernelVars
     ELSE lines' = NoLines /\ active' = 0 /\ newest' = 0 /\ work' = "none"
  /\ UNCHANGED <<rules, backups, dialog, task>>

Program ==
  /\ \/ /\ ~monitoring /\ (Choose \/ Select \/ Ask \/ Look \/ List)
        /\ UNCHANGED <<monitorVars, rules, backups, task>>
     \/ Run /\ UNCHANGED monitorVars
     \/ Monitor /\ UNCHANGED <<rules, backups>>
     \/ Watch
  /\ UNCHANGED <<interrupted, ended>>

EndInput ==
  /\ ~ended /\ ended' = TRUE
  /\ UNCHANGED <<monitorVars, interrupted, rules, backups, dialog, task>>

\* Ctrl+C: the signal is taken from the terminal, and only cancels the context.
Interrupt ==
  /\ ~interrupted /\ interrupted' = TRUE
  /\ task' = [task EXCEPT !.caught = task.stage]
  /\ UNCHANGED <<monitorVars, rules, backups, dialog, ended>>

\* The session's command has the lock; `backup create` takes none.
Locked == task.stage \in {"begun", "backed", "verified"} /\ dialog.command # "create"

\* Another PMM command commits, with its backup, or makes or removes a backup without the
\* lock.
Others ==
  /\ \/ ~Locked /\ rules' \in SUBSET RuleIds /\ backups' = BackedUp(rules)
     \/ /\ backups' = BackedUp(rules) \/ \E i \in DOMAIN backups : backups' = RemoveAt(backups, i)
        /\ UNCHANGED rules
  /\ UNCHANGED <<monitorVars, interrupted, dialog, task, ended>>

Kernel ==
  /\ monitoring /\ (Packet \/ Commands)
  /\ UNCHANGED <<interrupted, rules, backups, dialog, task, ended>>

Init ==
  /\ MonitorInit
  /\ rules = {} /\ backups = <<>>
  /\ dialog = AtMain /\ task = Idle
  /\ ended = FALSE

Next == Program \/ EndInput \/ Interrupt \/ Others \/ Kernel

\* Questions are answered at once when there is no more input, and commands end.
Fairness == WF_vars(ended /\ Program)

Spec == Init /\ [][Next]_vars /\ Fairness

--------------------------------------------------------------------------------

\* When input ends the session does too, whatever question it is at and whatever it is
\* doing; a monitor without a count must be interrupted (menu.go:421-438, main.go:738-748).
SessionEnds ==
  (ended /\ (interrupted \/ remaining # Endless)) ~> dialog.name = "left"

\* A step of the session itself.
Acts == dialog' # dialog \/ task' # task

\* A command of the session takes no rule away that it found in the database, unless the
\* user has typed the word its dialog asks for: not on an empty line, and not because input
\* ended.  The one exception is the restore of a backup, for which no word is asked
\* (menu.go:244-251).
LossIsConfirmed ==
  [][Acts =>
       rules \cap task.base \subseteq rules' \/ dialog.confirmed \/ dialog.command = "restore"]_vars

\* The same of every rule that is there when the command commits, also one another command
\* has added since.
UnseenIsKept ==
  [][Acts => rules \subseteq rules' \/ dialog.confirmed \/ dialog.command = "restore"]_vars

\* Without the exception, as README.md:15 has it: changes must be confirmed explicitly.
EveryLossIsConfirmed ==
  [][Acts => rules \cap task.base \subseteq rules' \/ dialog.confirmed]_vars

\* After Ctrl+C the session changes rules only by finishing the command it was caught in,
\* if that was past its verification, and adds or replaces a backup only if it was caught
\* between its first runs and its backup; whatever is started later changes neither, but
\* for `backup delete` (main.go:69-71, transaction.go:128, 151-155).
InterruptedOnlyFinishes ==
  [][interrupted /\ Acts =>
       /\ rules' = rules \/ task.caught = "verified"
       /\ backups' = backups \/ Len(backups') < Len(backups) \/ task.caught = "begun"]_vars

\* As if Ctrl+C stopped the command it catches at once.
InterruptedChangesNothing == [][interrupted /\ Acts => UNCHANGED <<rules, backups>>]_vars
================================================================================
