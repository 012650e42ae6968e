# Port Mapping Manager: TLA+ models, model checks and proofs

`pmm` is a command line program in Go that redirects UDP and TCP port ranges of a
Linux host to one local port with iptables/ip6tables `REDIRECT` rules. Its rule set
lives in a file, `rules.json`; the kernel's NAT tables must enforce the enabled rules
of that file, no more and no less, across racing commands, failing iptables calls,
interrupts, kills and reboots. This directory models that machinery in TLA+, checks
it with TLC and proves its central safety properties with TLAPS.

Paths below are relative to the repository, `src/`; `internal/...` means
`src/internal/...`.

## 1. The system

| Component | State it keeps | Operations | Correct when |
|---|---|---|---|
| rule model, `internal/model` | none (values) | `Validate`, `Normalize`, `EnsureID`, `CanonicalKey`, `Decode`, `ParsePipe`, `WritePipe` | no two enabled rules share a port; identifiers and keys are unique; an export can be imported |
| application layer, `internal/app` | none (loads, edits, hands on) | `Add`, `Delete`, `Clear`, `Toggle`, `Edit`, `Import`, `Restore`, readers `State`, `Export`, `Backup`, `Doctor` | an edit that reports success is in the database; other edits survive it |
| transaction manager, `internal/transaction` | one journal file per transaction | `Apply`, `Reconcile`, `ReconcileMigration`, `ReconcileMigrationLocked`, `rollback` | database and firewall change together or not at all |
| advisory lock, `internal/lock` | `flock` on a file, owned by a process | `Acquire` with deadline and context, `Release` | one owner; a dead owner does not block the others |
| rule database and backups, `internal/storage` | `rules.json`, backup directory | `Load`, `Save`, `Backup`, `PruneBackups`, `ListBackups`, `DeleteBackup` | a write is complete or absent; the replaced rule set is in the backups; their number is bounded |
| iptables backend, `internal/firewall` | per family: the anchor in `PREROUTING`, the entry chain, generation chains | `Snapshot`, `Apply`, `Verify`, `Restore`, `DeleteManaged`, `Counters`, `InspectExternal`, `DiscoverLegacy`, `DeleteLegacy`, `RestoreLegacy` | packets meet the old rules or the new ones; a failed call undoes what it made |
| command runner, `internal/runner` | none | `Run` with a context | -- |
| command line, `cmd/pmm` | the context an interrupt cancels | dispatch, `repair reconcile`, `backup ...`, the menu and its dialogs, the monitor's loop, dashboard | a session ends when its input does; what it found is lost only when that was confirmed; after an interrupt it only finishes what it is in |
| migration, `internal/migration` | v5 rules and unit, a bundle with what it replaced | `Plan`, `Execute`, the recovery | v5 or v6 manages the rules, never neither |
| uninstall, `internal/uninstall` | files, unit, chains | `Plan`, `Execute`, `restoreFirewall` | nothing stays behind that only the removed program could remove |
| boot service, `internal/persistence` | systemd unit file and its enablement | `Enable`, `Disable`, `Check` | a failed change is undone; other people's units are left alone |
| updater, `internal/updater` | binary, trust record | `Install`, `installVerified` | the installed binary is a verified one and the trust record says which |
| monitor, `internal/monitor` | the counters of the last sample | `Sample` | a rate is what arrived, across commits too |
| diagnostics, `internal/diagnostics` | report files | `Collect`, `Save` with `cleanup` | conflicts and unheard targets are reported; reports are bounded in number |
| listener inspection, `internal/listener` | none (reads `/proc/net`) | `Check` | a target is called unheard only when no socket serves it |
| address cache, configuration, installer scripts | cache file; config file; -- | lookups | -- |

How they interact. Every command is a process of its own. A command that changes
rules loads the database *without* the lock, computes the rule set it wants and calls
the transaction manager, which takes the lock and then works through snapshot,
database, drift check, journal, backup, journal, firewall (IPv4, then IPv6),
verification, journal, verification again, save, journal. The only things two commands
share are the lock file, the database, the backup directory and the NAT tables. Nothing
reads the journal files afterwards: recovery is `pmm repair reconcile`, another command,
which skips the drift check and applies the committed database.

Migration and uninstall take the same lock and hold it from their first change to their
last; migration plans before it has the lock. Updates, backups made, deleted or purged by
hand, diagnostic reports, the monitor and the boot service's commands take no lock at all.

Round about it: an edit first reads the whole NAT table and refuses rules another program
might already redirect; `doctor` reports the same after the fact. The menu collects the
arguments of a command in a dialog and runs it in its own process, under the one context of
the session; the monitor reads the counters of the chains that edits replace.

What makes it hard:

- *interleaving*: what is read before the lock is stale under it; the lock must make
  four separate reads (snapshot, database, verification, second verification) and two
  writes (firewall, database) fit together;
- *partial failure*: an apply is a dozen iptables commands per family, and IPv4 is
  switched before IPv6; the deferred cleanup has to undo exactly what was created;
- *interrupts*: the context that is cancelled is also the rollback's context, and a
  command killed by it may have taken effect although it reports an error;
- *crashes and reboots*: nobody replays the journal; a reboot empties the tables and
  keeps the files;
- *unlocked files*: two updates, or several savers and purgers of one directory, mix
  their single file operations; retention goes by names that hold the wall clock;
- *recoveries*: enabling the service, migrating and uninstalling undo a long sequence of
  commands by another one, each of which may fail, from knowledge read at the beginning;
- *other programs*: their redirects may sit behind any graph of chains, and change between
  two edits; a line that cannot be read must stop the edit;
- *stale samples*: the counters of a rule start anew with each commit, unnoticed by the monitor;
- *input that ends*, and interrupts, at any question of a dialog;
- *histories of edits*: an edited rule keeps the identifier of its old key, disabled
  rules keep identifiers and keys but no ports.

`PROJECT.json` lists every component with its status and every hazard at its line.

## 2. Modules

| Module | Models | Parameters |
|---|---|---|
| `RuleModel` | `Validate`, `Normalize`, the edits of `internal/app`, import and export, as constant operators | `Keys`, `RandomIds` |
| `RuleEdits` | one user editing alone, every history of edits | `KeySets` |
| `FamilyOutcomes` | what one backend call on one IP family may leave behind | -- |
| `FamilyCalls` | the abstract firewall: backend calls one after the other, each leaving what `FamilyOutcomes` allows | -- |
| `IPTables` | `snapshotFamily`, `applyFamily` with its deferred cleanup, `deleteFamily`, command by command | `Chains`, `Targets`, `Budget` |
| `AtomicStore` | what the transaction manager promises: commit or abort, in one step | `Clients` |
| `Transaction` | `lock.Acquire`, `Manager.apply`, `rollback`, by racing processes with failures, interrupts, crashes, reboots | `Procs`, `Ops`, `Foreign`, `InitialSets`, `AutoBackup`, `MaxBackups`, `Budget` |
| `Updater` | `Install` and `installVerified`, one file operation per step, by racing and killed processes | `Pids`, `Releases`, `Damaged`, `Nothing`, `Budget` |
| `Retention` | a directory of backups or reports: save with pruning, delete, purge, by processes without a lock | `Procs`, `Kinds`, `Limit`, `Initial`, `MaxTime`, `Budget` |
| `ExternalRules` | what `inspectExternal` and `reachableRules` make of a line, the conflict check, and what the kernel does with a table, as constant operators | `CustomChains`, `Entry` |
| `Listeners` | `Inspector.Check`, beside what the kernel does with a socket | -- |
| `Doctor` | edits and reports, their inspection listing by listing and chain by chain, beside other programs that change redirects and sockets | `Lines`, `Sockets`, `MaxThings`, `MaxDrift` |
| `Monitor` | the sampler and its loop, the commands that replace the chains it reads | `Word`, `Sizes`, `MaxPackets`, `MaxGens`, `MaxCount` |
| `Session` | the menu: its dialogs, the commands they start stage by stage, the monitor, interrupts and the end of input | `RuleIds`, `MaxBackups` |
| `SystemdUnit` | what systemd knows of `pmm-rules.service` | -- |
| `BootService` | `Enable` with `rollbackUnit`, `Disable`, command by command | `Budget` |
| `Migration` | `Plan`, `Execute`, `restoreLegacyAfterFailure`, by racing processes | `Procs`, `RuleLists`, `Managed`, `Budget` |
| `Uninstall` | `Execute`, `restoreFirewall`, step by step | `RulesOf`, `Directories`, `Budget` |
| `TransactionProofs` (with the editor's and the doctor's), `IPTablesProofs`, `RetentionProofs`, `UpdaterProofs`, `BootServiceProofs`, `MigrationProofs`, `UninstallProofs`, `SessionProofs` (with the monitor's) | theorems | -- |
| `MC...` | the instances TLC checks | -- |

Two layers meet in `FamilyOutcomes`. `Transaction` sees the firewall as whole calls
per family and takes from `FamilyOutcomes` what a call leaves after success, failure,
kill or crash. `IPTables` executes the calls command by command and is shown to
implement `FamilyCalls`, which is built from the same operators. So what `Transaction`
assumes of the backend is what the backend model is checked to do. `Uninstall` uses the
same contract; `Migration` sees a whole transaction as one step, with the outcomes
`Transaction` has. `Doctor` puts together `ExternalRules` and `Listeners`, the two readings
of the host, and holds each against a reference; `Session` extends `Monitor`, which runs
inside it under the same context. `BootService`, `Migration` and `Uninstall` share `SystemdUnit`.

### State and actions against the code

`Transaction`. `pc[p]` is the next step of one invocation. `Start`/`Refuse` are the
work before the lock (`internal/app/app.go:46-145`, `203-214`, `cmd/pmm/main.go:757-764`)
including the `Normalize` at the top of `apply`; `Acquire`/`GiveUp` are `lock.Acquire`;
`Snapshot`, `Check`, `Prepare`, `Backup`, `Applying`, `ApplyFamily`, `Verify`, `Applied`,
`Verifying`, `Save`, `Finish` follow `internal/transaction/transaction.go:99-165` line by
line; `Rollback`, `RestoreFamily`, `Recheck`, `RolledBack`, `RollbackFailed` follow
`rollback`. Each action carries its own error branch: a journal or file write that fails
(`WriteFails`), a command that fails or is not started because the context is done
(`CommandFails`). `End` is the return with the deferred `Release`. Local variables of the
code (`desired`, `before`, `current`) are the functions `desired`, `before`, `seen`, and
are forgotten at `End`. `Cancel` is the signal handler's context, `Crash` a kill, `Reboot`
a restart of the machine. `backups` is the sequence of what the backup files hold, newest name
first: `Backup` writes one more and prunes the rest to `MaxBackups`, as `Store.Backup` does, and
either part may fail. `Tidy` is a backup that goes without the lock (`backup delete`, `backup
purge`, the pruning of `backup create`), and a name that sorts behind another is a clock that was
set back; both are in the budget, since they end the promise that backups make.

`IPTables`. `nat` is the table; each command of the iptables binary is a record of
whether the kernel accepts it and the table it makes; `Run` is the runner: the command
works, is refused or never started, fails, or is killed with or without its effect.
`created` and `undo` are the flags and the deferred function of `applyFamily`.

`Updater`. `bin` and `trust` are the two files an update replaces, `candidate[p]` and
`rollback[p]` the files with the process identifier in their names; a process identifier may be
used again, and finds what a killed update left. `Install` is everything up to the verification;
then each file operation of `updater.go:187-240` is an action of its own, the deferred removals
are `Cleanup`. `Stat` goes on to the rename without putting anything aside both when there is no
binary and when `os.Stat` fails otherwise. `start` records what the update found and whether
another one ran beside it; no step reads it.

`Retention`. `dir` is the directory, a file its time stamp and the identifier of its
writer, which is what its name orders by. `kind` says whether the files are backups, whose
pruning forgives a file that is gone, or reports, whose pruning does not. `List` is
`ReadDir`, `Inspect` one `Info` of an entry; `Lstat` and `Unlink` are the two halves of
`DeleteBackup`. The transaction manager's own backup is a `save` that others race.

`BootService`. `unit` is the file with its enablement and activity. Each `systemctl` command and
each file operation is an action, the two queries of `Check` and the reading of the file
included; `before` is what they said, where a query that fails reads as "no". A unit's `start`
runs `pmm system restore`, so that it may fail.

`Migration`. A v5 rule and the v6 rule made of it are one key; `legacy` is the sequence of
v5 rules in `PREROUTING`, `managed` the rules of the managed chains of both families.
`Plan` runs without the lock; its two queries of the v5 service are `AskEnabled` and `AskActive`,
which may fail and then read as "no". `Prepare` is `ReconcileMigrationLocked` as one step: it
works, it fails and has rolled back, it fails in its last journal write and has not, or its
rollback failed too. The rest of `Execute` and of its recovery is command by command.

`Uninstall`. Calls of the backend are per family, with the outcomes of `FamilyOutcomes`;
`Cancel` is an interrupt between two commands and `CancelCall` one that kills a command of
a call. `before` is the snapshot; `cause` and `start` are for the properties. `CheckFile`,
`CheckEnabled` and `CheckActive` are `persistence.Check`: a file that cannot be read, or a query
that fails, leaves its part of `seen` at "no", and `Execute` goes on from there (`StepFor`). The
program may be started again after it failed, until its binary is gone.

`ExternalRules`. A line of `iptables -t nat -S` is a record of what the inspection looks at. A
protocol that is negated (`! -p tcp`) is read as the protocol itself (`Named`), while the kernel
matches every other one. `Targets` are the chains a visit of `reachableRules` puts into its
queue; `Unreadable` and `Counts` are the branches of `inspectExternal`, `Inspection` its result.
`Taken` does not use any of them: a packet may get to the chains that lie in every set of chains
closed under its jumps and gotos, as the kernel follows them, where each condition the model
does not show may or may not hold. `OwnLines` are the lines PMM itself puts into the same table.

`Listeners`. `ContainsPort` is `scanSockets`; `Up` is `Check`, without the error when a table
of `/proc/net` cannot be read. `Serves` is the kernel's choice of a socket, and knows more than the
tables show: a redirected packet goes to an address of the interface it came in by, hence to no
socket on the loopback address; a connected UDP socket does not answer strangers; and whether an
IPv6 socket takes IPv4 is its own option, which the sysctl only presets.

`Doctor`. `rules` are the keys of the enabled rules, `foreign` the lines of other programs.
`Begin`, `List`, `Skip` and `Visit` are `inspectExternal` with the loop of `reachableRules`: `-S` of
one family, then its walk over what was printed, then the other family. `listed` is what was
printed, and `queue` a set, since the order of visits changes nothing that is found. Other
programs and services move between any two of these steps, so the listing may be out of date when
it is used; the properties are about the listing. (The code returns at the first line it cannot
read; here the walk goes on and `failed` is part of its result.) `Apply` is what a transaction
does with the result under the lock, and its commit; the steps in between are `Transaction`'s
subject, which has the external ranges as a constant (`Foreign`). `Unchecked`, `Conflicts` and
`Unheard` are the report; `Leave` is the end of a command that changes nothing.

`Monitor`. One rule of one family is followed: `lines` maps each chain that holds it to its
counters, since `Counters` reads every line of the table that has the rule's comment. `Fill`,
`Switch`, `DeleteObsolete` and `GiveUp` are `applyFamily` as far as the counters notice, `Stop`
its end at any place. `Sample` keeps the counters of the last line it reads; `Rates` are what it
would report. `arrived` and `seen` are history: what the rule redirected since a sample that
read the active chain's line and no other, and which chain that was. Packets and commands are
followed only while a monitor runs.

`Session`. A dialog is the sequence of the questions it asks, of what it shows in between and
of the word it wants; questions of one kind in a row are one step, since answers are abstracted
to "suits", "empty", "anything else" and the end of input. `Prompt` is `menuInput.prompt` with
its two readings of an end of input: with a default it is an answer, without one it is `io.EOF`,
which ends the dialog, and at the main menu the session.

A command that changes rules or backups is followed through the stages of `task`: `Load` is what
it reads before the lock (`internal/app/app.go:52`, `75`, `103`, `121`), with the rule set computed
from that; `Begin` is the lock and the first commands under it, `BackUp` the automatic backup with
its pruning, `Enforce` the changes of the firewall up to the verification, `Finish` the database's
rename, and `GiveUpTask` a failure at any of them. `Others`, commands of other processes, come
between any two stages, but for commits while the session's command has the lock (`Locked`).
`interrupted` is the context: Ctrl+C cancels it for good, and no program is run to its end under
it (`Alive`), which stops `Begin` and `Enforce`; `BackUp` and `Finish` run nothing and go on, as
does `backup delete`. `task.caught` is the stage an interrupt found, and no step reads it.

`RuleModel`. A rule is an identifier and a canonical key. The identifier `EnsureID`
derives by hashing is the key itself, so hash collisions are left out; the random
identifiers of `ensureUniqueID` are `RandomIds`, and the retries of that function run out
only when all of them are taken. Labels, descriptions, time stamps, schema versions and
the JSON text are left out: nothing in the modelled code decides by them. An import file
is the set of its keys, so a file that repeats a line is not expressed.

## 3. What TLC checks

Passing runs:

| Run | Instance | Properties | What it shows |
|---|---|---|---|
| `transaction_faults` | 2 commands out of an add, a toggle, an edit, a restore and a reconcile; one failure, interrupt, crash, reboot, clock set back and backup removed by hand; one backup is kept | `LockProtects`, `WorkIsCurrent`, `PortsHaveOneOwner`, `CommitsWhatIsEnforced`, `GenerationCounts`, `RolledBackIsSynced`, `OverwrittenIsBackedUp`, `LockComesBack`, `RepairWorks` | the lock makes what was read under it stay true; the database changes only to what is enforced; generations count; a reported rollback is one; what a commit replaces is in the backups after their pruning; the lock is always given back; a reconcile of the committed database enforces it once disturbances are over |
| `transaction_atomic` | 3 ordinary commands, another program's redirects, one failing command or write, no backups | `OneFailureIsHarmless`, `Atomic` | `Transaction` implements `AtomicStore` |
| `iptables` | 4 targets, a failure, an interrupt, a crash | `KeepsContract`, `NoLitter`, `AtomicUntilInterrupt`, `CallsAdvance` | the backend keeps the contract `Transaction` relies on and cleans up after dead processes; until an interrupt, packets meet old or new rules; each command, the cleanup's too, brings the call nearer to its return |
| `rule_edits` | six keys, five import files | `OnePortOneRule`, `ExportImports`, `FreePortsCanBeAdded` | the identifier, key and overlap rules fit together over every history |
| `update` | 2 process identifiers, 2 releases, a failure, a kill | `InstalledIsVerified`, `BinarySurvivesRaces`, `UpdateIsAtomic` | only verified content is installed; a race by itself does not lose the binary; an update that meets no other is atomic under one failure, whatever was killed before |
| `retention` | 2 commands on a full directory of either kind, a failure, a kill, a clock set back | `Bounded`, `NewestAreKept`, `OwnFileSurvives` | the directory stays bounded except for saves that reported an error; pruning from stale listings removes only what newer files replace |
| `boot_service` | two failing commands, queries or file reads, an interrupt, any number of calls | `ForeignUnitIsUntouched`, `FailedEnableRestores` | a unit of somebody else is not touched; an enable stopped by one failure is undone |
| `migration` | 2 migrations, v5 lists of up to two rules, with and without v6 rules, two failures, a kill | `RulesStayInForce`, `SuccessIsComplete`, `FailureKeepsVersion5` | no redirect lapses on the way forward; success means chains and database agree, and v5's rules are gone if they are still those of the plan; one failure anywhere gives v5 back, in order |
| `uninstall` | repeated uninstalls, three failures, an interrupt | `RemainsKeepTheirProgram`, `NoServiceWithoutProgram`, `LateErrorRestoresRules` | data and program go only after the firewall; PMM's unit stays behind only if its file could not be read, and an enabled or active one only if the queries failed too; a failure after the firewall was removed brings the rules back |
| `doctor` | three keys; up to three lines and sockets out of 18 lines in two chains and `PREROUTING`, in any graph, and 7 sockets; a line may come or go during an inspection | `ConflictsAreReported`, `CommitsAvoidOthers`, `NoSelfConflict`, `WarningsAreTrue` | every packet another program may take, by what was listed, is reported or refused, or the inspection says it cannot tell; PMM's own chains are not taken for somebody else's; a target that is reported unheard is served by nobody |
| `session` | two rules, a backup, a monitor over two generations, commits of others between any two stages; an interrupt and an end of input at any time | `SessionEnds`, `LossIsConfirmed`, `InterruptedOnlyFinishes`, `RatesAreHonest` | the session ends with its input; a rule it found goes only after its word; after Ctrl+C it only finishes the stage it was caught in; two samples of the active chain tell what arrived |

The type invariants of these modules are theorems (section 4; the editor's is `EditsKeepNormal`,
the session's `SessionTypes` of `SessionProofs`, the doctor's `DoctorTypeCorrect`).
`MCIPTablesLiveness.cfg` checks in addition that every backend call returns under weak
fairness (`CallsReturn`), with two failures.

A run that shows a disagreement between the code and what is said of it:

| Run | Property | What happens |
|---|---|---|
| `lost_update` | `NoLostUpdate` | `App.Add` and the others load before `lock.Acquire`; the second of two overlapping edits overwrites the first and both report success (with rules that enable nothing new, or after the first has finished, the drift check does not notice) |

Further limits of the code that the models show. Each configuration below ends with the
named property violated (`tlc -config <cfg> <module>`; where a file serves several
properties, it says with which values). They are kept because they explain why the
properties above carry the conditions they do.

| Configuration, module | Property | What happens |
|---|---|---|
| `MCTransactionLimits.cfg`, `MCTransaction` | `NothingPartial` | an interrupt makes the transaction fail, and the rollback, which uses the same context, cannot run a command: one family stays changed |
| `MCTransactionLimits.cfg`, `MCTransaction` | `ReconcileAppliesCommitted` | `restoreCommittedState` loads before the lock and reconcile skips the drift check: it puts an older rule set into the firewall and reports success |
| `MCTransactionLimits.cfg`, `MCTransaction` | `AlwaysBackedUp` | after the clock was set back a command's own backup is the oldest name and its own pruning removes it; `backup purge` beside the lock removes it too; the command replaces the database and reports success |
| `MCIPTablesLimits.cfg`, `MCIPTables` | `UndisturbedCallSucceeds` | a kill between making the entry chain and linking it leaves a table `snapshotFamily` refuses; every later command, reconcile included, begins with it |
| `MCIPTablesLimits.cfg`, `MCIPTables` | `AtomicSwitch` | a switch that takes effect although its command is killed is followed by the deferred flush of the chain that has just become active |
| `MCUpdaterLimits.cfg`, `MCUpdater` | `BinaryIsReplaced` | the old binary is renamed aside before the new one is renamed in; a kill in between leaves none |
| `MCUpdaterLimits.cfg`, `MCUpdater` | `TrustDescribesBinary` | two undisturbed updates: the binary of one ends up beside the trust record of the other |
| `MCRetentionLimits.cfg`, `MCRetention` | `BackupIsThere` | after the clock was set back a backup is the oldest file of a full directory, and its own save prunes it and reports success |
| `MCMigrationLimits.cfg`, `MCMigration` | `FailureAddsNoRules` | the last journal write of the prepared transaction fails after the rules were applied; the migration reports failure and leaves them in force |
| `MCMigrationLimits.cfg`, `MCMigration` | `FailureKeepsVersion6` | the recovery deletes the managed chains, also those that were committed before the migration |
| `MCMigrationLimits.cfg`, `MCMigration` | `ChainsMatchDatabase` | a second migration, planned before the first had the lock, fails and its recovery undoes the first |
| `MCUninstallLimits.cfg`, `MCUninstall` | `DeleteFailureRestoresFirewall` | a failure inside the removal of a family leaves a table the restoration refuses |
| `MCUninstallLimits.cfg`, `MCUninstall` | `ServiceComesBack` | an uninstall that fails while it disables the service restores the rules and not the service |
| `MCUninstallLimits.cfg`, `MCUninstall` | `ServiceGoesFirst` | `Check` cannot read the unit file of a service that is neither enabled nor active: `Execute` ignores the error and removes data and program, the unit stays |
| `MCDoctorLimits.cfg`, `MCDoctor` | `FailClosed` | a line that redirects and names no protocol or only one it leaves out, or leaves by a goto, is passed over: the edit goes on and the report is silent |
| `MCDoctorLimits.cfg`, `MCDoctor` | `WarningsAreAlwaysTrue` | a dual-stack IPv6 socket that was opened before `bindv6only` was set serves IPv4, and its target is reported unheard |
| `MCDoctorLimits.cfg`, `MCDoctor` | `HeardIsServed` | a socket on the loopback address makes a target "UP", but no redirected packet gets there |
| `MCSessionLimits.cfg`, `MCSession` | `RatesAreAlwaysHonest` | a sample in the middle of a commit, or beside a chain a killed command left, reads two lines of one rule and reports packets that never came |
| `MCSessionLimits.cfg`, `MCSession` | `EveryLossIsConfirmed` | the restore of a backup asks for no word: an end of input at its question restores the newest backup and drops the rules added since |
| `MCSessionLimits.cfg`, `MCSession` | `UnseenIsKept` | a command that loaded the rules before another one committed drops what that one added, and no word is asked: `NoLostUpdate` again, from the user's side |
| `MCSessionLimits.cfg`, `MCSession` | `InterruptedChangesNothing` | a command caught by Ctrl+C past its verification still commits, one caught before its backup still writes it |

The passing properties are stated with these in mind. `RepairWorks` asks that both families
are readable, because a refused family is never repaired, and that the database is still the one
that was loaded (`ReconcileAppliesCommitted`). `OverwrittenIsBackedUp` is about a clock that runs
forward and backups nobody else removes. `AtomicUntilInterrupt` stops at
the first interrupt. `OneFailureIsHarmless` and `Atomic` are checked with one failure and no
interrupt or crash, because two failures (the second hitting the rollback) or one interrupt
do leave damage, and are meant to be reported as `ROLLBACK_FAILED`. `BinarySurvivesRaces`
speaks of undisturbed races, `UpdateIsAtomic` of updates that meet no other. `OwnFileSurvives`
asks that what is written is newer than what was there, as it is while the clock runs forward.
`SuccessIsComplete` asks of v5's rules only that they are gone when the plan still lists them as
they are: a plan made before another migration's recovery failed twice may leave a second copy of
a rule behind. `FailureKeepsVersion5` speaks of one failure and of a plan
that is still true when the lock is taken, and says nothing of the v6 chains;
`RulesStayInForce` of the way forward. `LateErrorRestoresRules` leaves out the failures of
the removal itself. `FailedEnableRestores` speaks of one failure and no interrupt, because
`rollbackUnit` runs with the interrupted context too. `ConflictsAreReported` and
`CommitsAvoidOthers` are about lines that can be read (`Plain`), `RatesAreHonest` about samples
that read one line. `WarningsAreTrue` is about sockets that keep to the sysctl; that what is not
reported is served is not true at all. `LossIsConfirmed` leaves out the restore of a backup and is
about the rules the command found when it loaded. `NoServiceWithoutProgram` counts what had to go
wrong in the uninstall that took the program: the file read, and each query that would have told.

### Bounds

- *Processes.* Two commands of any kind show every race over lock, database, backups and
  firewall; the third in `transaction_atomic` lets a command run between two others.
  Commands run once, so these runs set `CHECK_DEADLOCK FALSE`: nothing follows the last
  one. The proofs hold for any number.
- *Disturbances.* `Budget` gives how many of each kind may happen. A kind costs states, so that
  `transaction_faults` has few requests: two that conflict, one that enables nothing, one that
  brings a backup back, and a reconcile; `transaction_atomic` has more of them. One of each is enough
  to reach every error branch of every step, and a crash followed by a reconcile that
  fails. In `Transaction` a family call meets at most one disturbance by itself; the
  combinations inside one call are explored in `IPTables`, against the contract's weaker
  clauses (`AfterKillAndMore`, `AfterCrash`).
- *Keys.* Two adjacent ranges, one that overlaps both, and an IPv6 range give every
  outcome of the overlap, conflict and drift checks and rule sets that change one family,
  the other or both. `MCRuleEdits` adds nesting, another protocol, another target, the
  highest port and a key `Validate` rejects. Ports are the real numbers 1..65535; the
  code compares `uint16` values and does no arithmetic on them that could wrap.
- *Chains.* Each disturbance can orphan one generation, so disturbances plus the active
  chain plus the candidate suffice: the bound never disables `NewChain`, and TLC would
  report the deadlock if it did. Random chain names never collide with existing ones.
- *Backups.* One is kept in `transaction_faults`, so that every second backup prunes, and one
  whose name is out of order prunes itself. In `Retention`
  two processes show every pair of listings and removals; three have been explored as well
  (6.5 million states, no violation). Four clock readings
  put a new file before, between and behind the two old ones.
- *Updates.* Two identifiers race; under each, one update follows another without end, so
  that files of a killed update meet its successor. Two releases tell old from new.
- *Boot service, migration, uninstall.* Two failures let the second hit the recovery of the
  first; `Uninstall` has a third, because PMM's unit is overlooked while it is enabled and
  active only after three. Two v5 rules in either order show whether order survives; `c` is a v6
  rule that no v5 rule becomes. One rule per family is enough for `Uninstall`, which looks at
  families as a whole. Migrations and uninstalls come to an end, hence `CHECK_DEADLOCK FALSE`;
  boot service and update runs check deadlock.
- *Other programs' lines.* Two chains give every shape the walk can meet: a cycle of one or
  two, a chain reached twice, one nobody calls. The chains are interchangeable, hence symmetric.
  Three things at a time (`MaxThings`) are a jump, a second jump and a redirect, or a redirect
  beside sockets. While an inspection runs the listing may differ from the table by one line
  (`MaxDrift`): one that came or went between the two listings, during the walk or before the
  commit. Contested packets are looked for at the ends of ranges, where two ranges that meet always
  share a port; the theorem `EveryPortIsCovered` speaks of each port.
- *Samples.* Two generations and three packets of one or two bytes show counters that restart
  below, at and above the old ones, in packets and bytes separately; `Word` is the 2^64 of the
  code, small enough that a wrapped difference stands out.
- *Sessions.* Two rules tell the one that is deleted from the one that is not; one backup is the
  one an empty answer restores, and each new one prunes it. A dialog's shape does not depend on
  either.
- `Verify` and `Snapshot` read two families; under the lock nobody changes one between
  the two reads (`WorkIsCurrent`), so each is one step.

### Fairness

`Transaction!FairSpec` has weak fairness on each process's own steps, and none on `Start`,
on interrupts, crashes or reboots: the scheduler runs every started process, every iptables
command returns (it is started with a bounded wait for xtables' own lock), and waiting for
PMM's lock ends at a deadline. A process waiting for the lock is not promised the lock:
`flock` is polled and unfair, and `GiveUp` is one of its steps. `IPTables!FairSpec` is weak
fairness on the call in progress, for the same reasons; it is used only by
`MCIPTablesLiveness.cfg`, and `CallsAdvance`, which needs none, gives the reason why calls
return. `Session` has weak fairness on the program's own steps once input has ended: every
question is then answered at once, every command ends (by its own bounds, or because another
process's lock comes back or its deadline passes), and the monitor's ticker ticks. Before that
nothing is fair: the user may never answer. `SessionEnds` asks for an interrupt where the user
has typed a count of 0, as the menu tells them (`cmd/pmm/menu.go:287`).

## 4. What is proved

The theorems below hold for every value of the constants that satisfies the named `ASSUME`s of
the modules they extend, and for every number of disturbances unless a hypothesis says
otherwise.

| Component | Theorem | Statement |
|---|---|---|
| transactions | `TypeCorrect` | `Spec => []TypeOK`: types, and that the database and every rule set a command has entered `apply` with are `Normal` |
| | `MutualExclusion` | `Spec => []LockProtects` |
| | `ReadsStayTrue` | `Spec => []WorkIsCurrent` |
| | `CommitsAreEnforced` | `Spec => CommitsWhatIsEnforced` |
| | `GenerationsCount` | `Spec => GenerationCounts` |
| | `RollbacksAgree` | `Spec => RolledBackIsSynced` |
| | `NoTwoOwners` | `Spec => []PortsHaveOneOwner` |
| | `NothingIsLost` | with `AutoBackup`, `Spec => OverwrittenIsBackedUp`, for any `MaxBackups` |
| | `OneFailureDoesNoHarm` | under `OneFailureAtMost`, `Spec => []OneFailureIsHarmless` |
| | `TransactionsAreAtomic` | under `OneFailureAtMost`, `Spec => Atomic`: the refinement of `AtomicStore` |
| | `CommitsLeaveOthersAlone` | no database is committed that meets a redirect of `Foreign` |
| | `OthersKeepTheirPackets` | if no redirect of the kernel meets `Foreign` to begin with, none ever does |
| rule editor | `EditsKeepNormal`, `OneRulePerPort`, `FreePortsAreFree`, `ExportsImport` | `EditorSpec => []EditorTypeOK`, `[]OnePortOneRule`, `[]FreePortsCanBeAdded`, `[]ExportImports` |
| | `EditorsShareOneDatabase` | the last three of the database, in every behaviour of `Transaction` |
| backend | `TypesAndShape`, `CleanReturns`, `SwitchesAreAtomic`, `NoCallGoesInCircles` | `TypeOK`, `NoLitter`, `AtomicUntilInterrupt`, `CallsAdvance` |
| | `CallsKeepTheContract` | `Spec => KeepsContract`: the refinement of `FamilyCalls` |
| retention | `RetentionTypes`, `OnlyExpiredIsRemoved`, `DirectoryIsBounded`, `SavesKeepTheirFile` | `TypeOK`, `NewestAreKept`, `Bounded`, `OwnFileSurvives` |
| updater | `UpdaterTypes`, `OnlyVerifiedIsInstalled`, `RacesKeepTheBinary` | `TypeOK`, `InstalledIsVerified`, `BinarySurvivesRaces` |
| | `LoneUpdatesAreAtomic` | if `Budget["fail"] <= 1`, `Spec => UpdateIsAtomic` |
| boot service | `BootServiceTypes`, `ForeignUntouched`, `EnableRollsBack` | `TypeOK`, `ForeignUnitIsUntouched`, `FailedEnableRestores` |
| migration | `MigrationTypes`, `MigrationsTakeTurns`, `RedirectsSurvive`, `SuccessIsWhole`, `OneFailureGivesVersion5Back` | `TypeOK`, mutual exclusion, `RulesStayInForce`, `SuccessIsComplete`, `FailureKeepsVersion5` |
| uninstall | `UninstallTypes`, `NothingStranded`, `NoStrandedService`, `LateErrorsUndo` | `TypeOK`, `RemainsKeepTheirProgram`, `NoServiceWithoutProgram`, `LateErrorRestoresRules` |
| session | `SessionIsTyped`, `WordsComeFirst`, `InterruptsAreFinal` | `SessionTypes`, `LossIsConfirmed`, `InterruptedOnlyFinishes` |
| monitor | `RatesAreTrue` | `RatesAreHonest`, inside a session |
| doctor | `DoctorTypeCorrect` | `DoctorSpec => []DoctorTypeOK` |
| | `WalksAreExact`, `WalksEnd` | a walk collects the lines of the chains jumps lead to and no others; each of its steps uses something up |
| | `EveryPortIsCovered`, `ConflictsAreFound`, `CommitsAreClear` | every contested port is announced; `ConflictsAreReported`, `CommitsAvoidOthers` |
| | `OwnChainsAreKnown`, `UnheardIsUnserved` | `NoSelfConflict`, `WarningsAreTrue` |

### Transactions

`TransactionProofs`, for any number of commands and, where no hypothesis is named, of failures,
interrupts, crashes and reboots. None of the action properties is inductive, and `LockProtects`
alone does not imply them: that a commit is enforced depends on what `Verify` saw two steps
earlier still being so. The inductive invariant is

    IInv == TypeOK /\ LockProtects /\ WorkIsCurrent

`LockProtects` says who is between snapshot and return; `WorkIsCurrent` says, per program
counter, which of the facts read so far are still true: the database is the one loaded
(`seen[p] = db`), an ordinary command's snapshot agrees with it, the kernel holds what
`Verify` compared (at `save`), or the rules of the snapshot (at `rolledback`). The proof
splits every step of `Next` into the process that moves and everybody else: the mover's own
facts hold by the guards of its step (`OwnCurrent`), and the others' because whoever changes
the database or the kernel owns the lock (`OnlyOwnersChangeState`), hence nobody else has
facts to keep (`OthersCurrent`). `CommitsAreEnforced` and `GenerationsCount` are then read
off at `Save`, `RollbacksAgree` at `RolledBack`.

`NoTwoOwners` needs an invariant of its own, `KernelsSeparate`: the rules of each family in
the kernel, in every snapshot and in every desired set are pairwise disjoint, family by
family. It holds in mixed states too, since two families never compete for a port, and
through every damaged outcome of `FamilyOutcomes`, since each is one of the two rule sets
involved or empty. It rests on `Overlaps` being what `OneOwner` states with sets of ports
(`OneOwner` has no port comparison in it).

`NothingIsLost`: `BackupsKept` says that from the backup to the save the rule set that was read
is in the backups, as long as no clock was set back and nothing was tidied away. The backup step
puts it first, and pruning keeps the first `MaxBackups`, at least one; until the save
no other transaction backs up, since that takes the lock, and `WorkIsCurrent` gives that the set read is the
set overwritten.

`OneFailureAtMost`, the hypothesis of the last two, is what the run `transaction_atomic` gives:
ordinary commands, one command or write that may fail, no interrupt, kill or reboot. (Without it
the properties are false, see section 3.) The invariant is

    Atomicity == Quiet /\ AgreedBetween /\ \A p \in Procs : Orderly(p)

`Quiet` says that this stays so; `Orderly` says, per program counter, which family holds the rules
found and which the rules wanted (`KernelKnown`), that whoever rolls back has used the failure up,
so that the rollback cannot fail as well (`NoSecondFailure`), and what results there can be;
`AgreedBetween`, that the firewall enforces the database unless somebody is midway. Each step then
is a stutter of `AtomicStore` up to the save, which is its `Commit`, or up to the end of a
rollback, which is its `Abort` (`StepsRefine`).

The redirects of other software need two more invariants. `WantedIsClear` says that from the
inspection on what a command wants meets none of them, a reconcile's included (only the
migration's transaction goes without inspection, and is not part of `Transaction`).
`KernelsClear` says the same of the kernel and of every snapshot a rollback may put back. No
failure breaks it, since each outcome of `FamilyOutcomes` is one of the two rule sets involved or
empty (`FamilyCallOutcome`). The hypothesis about the first state is needed: what was installed
before another program added its redirect stays until the next edit, which is refused.

### The rule editor

Also in `TransactionProofs`, from `KeysAssumption`, `IdsAssumption` and `KeySetsAssumption`. Every
history of edits keeps the set normal, and three lemmas follow from that alone: no packet has two
enabled rules (`NormalIsDisjoint`, where comparing range ends is shown to be comparing sets of
ports), free ports can be added (`NormalHasRoom`), exports can be imported without loss
(`NormalSurvivesExport`). They are about any normal set, so that the theorems hold of the editor's
and, since `IInv` has the database normal, of the database under races and failures too
(`EditorsShareOneDatabase`).

### The backend

`IPTablesProofs`, for any chains and any finite sets of rules (`TargetsAssumption`,
`FiniteAssumption`) and any number of failures, interrupts and crashes. A call begins with
whatever the calls before it left, which may be litter of every kind, so that nothing is known of
the table but its shape. The invariant follows the call:

    IInv == Calm /\ Undisrupted /\ Prepared /\ Candidate /\ Finishing /\ Undoing

`Undisrupted` says that up to the command that counts the table parses as it did at the start,
`Candidate` what the new generation holds while it is filled, `Finishing` that afterwards it
parses as the target, and `Undoing` that what the deferred cleanup has still to do (`undo`), what
was made (`created`) and who is to blame (`trouble`) bound what an error leaves. The sections on
tables and on short sequences of commands show what each command does to what a table parses as.
`SwitchesAreAtomic` then has one step to look at per command; `NoCallGoesInCircles` shows a pair
(stage, work left in it) to fall lexicographically; `CallsKeepTheContract` maps a return to the
one step of `FamilyCalls` it stands for, and every other step to a stutter.

### Retention

`RetentionProofs`, for any number of processes, any finite directory to begin with and any limit.
A file is removed from a listing that others have outdated, so the step itself shows nothing.
`Settled` says of a command's listing that each file in it is still there or has enough newer
ones there, and of what it is about to remove that enough newer ones are there; both survive the
removals of others because what takes a newer file away has, in turn, enough that are newer still.
`Bounded` counts several savers at once. Of any set of saves that have listed, the last lister's
view covers every file the others wrote (`Latest`, `Complete`); what of a view has not expired
fits under the limit, by ranking its files. `OwnFileSurvives` follows from fewer than `Limit`
newer files existing at all while files are written in order (`FewAndNewer`). The counting uses
the library's theorems on finite sets.

### Updater

`UpdaterProofs`, for any process identifiers and releases, from `ContentsAssumption` (a damaged
body is no release, and neither is "no file"). `InstalledIsVerified` alone is not inductive: a
rename installs whatever the candidate or the rollback file holds, so the invariant, `FilesClean`,
says of every file and of every downloaded body kept in memory that it is verified content or
nothing. `Install` is the only step that brings content in.

That nobody finds the binary missing is not inductive, since each update leaves it missing
between two renames. The invariant `Racing` names the witness: while nothing has failed or
died, whenever the binary is away some update is at its rename and has a candidate to put
there; and no update is on a path that takes a binary away. `Bounded` says that disturbances
are only used up, so that a state without any had none before it either.

`LoneUpdatesAreAtomic` follows an update from what it found: `Course` says, per program counter,
where the old binary and the old trust record are, as long as no other update ran beside it. Updates
that were killed before may have left files under this process's identifier, which is why it speaks
of the candidate and the rollback file only once this update has made them. A rollback begins only
after the one failure, hence it succeeds; with two, it need not, and the theorem's hypothesis says
so.

### Boot service, migration, uninstall

`BootServiceProofs`: `ForeignUntouched` is from `OwnDuringCall`, that the unit is PMM's or absent
from the first check to the return. `Progress` follows a call with at most one failure from the
unit it found, through what each command has changed, to what each step of the rollback has
changed back.

`MigrationProofs`, for any number of migrations and any lists of v5 rules (`ProcsAssumption`,
`ListsAssumption`). The first invariant is

    IInv == Functional /\ OneAtWork /\ NothingTouched /\ Installed

where `OneAtWork` says that whoever works has the lock, `NothingTouched` that no rule has changed
before the transaction, and `Installed` that after it the plan's rules are in the managed chains.
The second, `JInv`, adds a `Course` per migration: how many failures there were since the lock
(`FailuresCount`), and what of the database, of v5's rules and of its service is as it was, gone
or back at each step (`DatabaseKept`, `RulesKept`, `UnitKept`). Rules are deleted one by one from a
list that may hold one twice; the proof counts how often each rule stands in a list (`SameBag`),
since a deletion takes the first of equal rules, whichever the list meant.

`UninstallProofs`, for any rule sets and any list of directories (`RulesOfAssumption`). The
first invariant is

    IInv == Types /\ FirewallFirst /\ ServiceFirst

`FirewallFirst` says that once a directory or the program is gone the firewall is clear *and* so
is the snapshot that a later attempt could put back: a second uninstall, which fails and
restores, restores nothing. `ServiceFirst` says that the unit file is gone before `systemctl
daemon-reload`, and that nothing runs any more once the program is gone. `NoStrandedService`
adds `ServiceGone`: with the directories' turn come, PMM's unit is gone, or what had to fail for
it to be overlooked has (`Overlooked`, read by read), counted against the budget the command
began with. `LateErrorsUndo` adds `LInv`: errors and interrupts are counted since the snapshot,
and along the restoration the firewall is gone where it begins and IPv4 is back where IPv6
begins.

### Session and monitor

`SessionProofs`, for any rules, any sizes of packets and any commands of others. The monitor's
invariant is `Watching`: the line of the generation the last sample read has counted what it read
then plus what has arrived since, and every other line is younger than that sample, so that it has
counted no more than what arrived. So a difference within one generation is what arrived, one across
generations is at most that, and a counter only goes back when the generation changed. It needs
counters that do not wrap (`WordAssumption`: as many packets as are followed, each as large as the
largest, stay below `Word`, which is 2^64 in the code).

`Scripted` says where a dialog is: past its word it is confirmed, and past its list it has
something to choose from. `OnTask` says what the running command is about: past its load, that the
set it is to commit keeps every rule it loaded unless the word was typed or a backup is restored,
whatever others have done to the database since; and, after an interrupt, that it is no further than
the stages which run nothing carry it from where it was caught. `LossIsConfirmed` and
`InterruptedOnlyFinishes` are then read off the step that changes rules or backups;
`MaxBackupsAssumption` is the check of
`max_backups` (`internal/config/config.go:98`).

### Redirects of others and reports

The last part of `TransactionProofs`, for any lines, chains, rules and sockets, from
`KeysAssumption`, `LinesAssumption` (ports are numbers, and a line matches them in one of the
four ways) and `ChainsAssumption` (PMM's entry chain is not another program's, and none of
either is named like the hook or the target). `WalkOK` is the loop invariant of
`reachableRules`: the hook of each listed family is visited or queued; what a visited line jumps
to is visited or queued; what is visited or queued lies in every closed set of chains; and what
was found are the lines of the visited chains. With an empty queue the visited chains are closed
and the least such set (`VisitedIsReachable`), without any induction over paths. A packet's
chains are the least set closed under the jumps it matches, so that they are among those visited
(`PacketsStayBehindWalk`), and a line there that takes a port of a rule either fails the
inspection or stands for a range that meets the rule (`TakersCount`). `Plain` is needed for
both: a goto leaves the walk behind, and a line without a protocol is passed over. `WalksEnd`
gives the measure by which the loop ends: families to list, chains not visited, nodes in the
queue. `ForeignIsInspected` ties the constant `Foreign` of `Transaction` to this: where an
inspection came to the same ranges, both refuse the same rule sets.

### Model-checked only

- *Liveness*: `LockComesBack`, `RepairWorks`, `SessionEnds` and `CallsReturn` need fairness and
  `ENABLED`, which are beyond the prover. For `CallsReturn` the safety half is proved
  (`NoCallGoesInCircles`).
- *Safety*: every invariant and action property of a passing run, and both refinements, are
  theorems. `NoLostUpdate` is violated, and so are the limits of section 3.

## 5. Not modelled

- *Readers* (`State`, `Export`, the dashboard): they change nothing. They read without the lock
  and may show a transaction half done as drift.
- *In the migration*: conflicts with other programs' rules, which only refuse a plan,
  interrupts, and what the journal of the bundle says.
- *In the backups of `Transaction`*: what `backup create` adds without the lock. Its pruning is
  `Tidy`; what several savers do to each other is `Retention`'s subject.
- *In the session*: how a command's firewall calls fail. They succeed, or the command gives up.
- *In the uninstall*: other commands that wait for the lock meanwhile, and generation chains
  nothing refers to.
- *In the updater*: the lookup of the release, key parsing and path checks. *In diagnostics*:
  system information and the unit's status, which are copied into a report. *In the monitor*:
  the modes that only show what `ss` and `doctor` say. *In the inspections*: `/proc/net` that
  cannot be read, and the one comment a migration ignores.
- *Presentation*: flags, tables, colours, wording, help, the dashboard's layout.
- *Hash collisions* of rule identifiers, time stamps, labels, JSON text and schema versions.
- *Other programs* that change PMM's chains while PMM works: the code's drift checks are
  modelled as seen by PMM's own commands, crashes and reboots; redirects of others are a
  constant in `Transaction` (`Foreign`) and move in `Doctor`.
- *Address cache, configuration, installer scripts*: a cached HTTP lookup on which nothing else
  depends, a file read at start of which the models need two constants, and shell around the
  release verification.

## 6. Plan

Done so far, in this order: rule model and its edits; the backend with its contract; the
transaction manager against the atomic store, with its safety proved; the files without a lock
(updater, retention) and the three recoveries (boot service, migration, uninstall); the host
around PMM (external rules, listeners, reports) and the session with its monitor; proofs about
every component modelled, with the refinements of `AtomicStore` and `FamilyCalls`.

Next, in order of what is at stake:

1. `Uninstall` beside a command that waits for the lock; interrupts in `Migration`.
2. `Doctor` composed with `Transaction`: other programs that move between the inspection under
   the lock and the end of the commit, with `Foreign` a variable. `ForeignIsInspected` is the
   bridge.
3. Proofs: the contract of `FamilyOutcomes` for several calls in a row, as `Transaction` and
   `Uninstall` use it.
