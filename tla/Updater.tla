-------------------------------- MODULE Updater --------------------------------
(***************************************************************************)
(* internal/updater: Install downloads a release, verifies it and replaces *)
(* the binary and its trust record, with installVerified's deferred        *)
(* removals.  Updates are not under PMM's lock: each element of Pids is a  *)
(* process identifier under which one update after the other may run, side *)
(* by side with the others.                                                *)
(*                                                                         *)
(* pc[p] names the next file operation:                                    *)
(*   idle -> check -> write -> validate -> stat -> (aside) -> rename ->    *)
(*   record -> cleanup -> idle                                             *)
(* and, after a failed record or rename, (unlink) -> (back) -> cleanup.    *)
(***************************************************************************)
EXTENDS Naturals

CONSTANTS
  Pids,      \* process identifiers
  Releases,  \* contents the signed manifests list
  Damaged,   \* a body no manifest lists: cut off, or served by someone else
  Nothing,   \* no file
  Budget     \* how many disturbances of each kind are explored

Disturbances == {"fail", "crash"}

ASSUME ContentsAssumption ==
  Damaged \notin Releases /\ Nothing \notin Releases /\ Nothing # Damaged
ASSUME BudgetAssumption == Budget \in [Disturbances -> Nat]

VARIABLES
  bin,        \* what is at BinaryPath
  trust,      \* the release trusted-release.json names
  candidate,  \* pmm.candidate-<pid>
  rollback,   \* pmm.rollback-<pid>
  pc,         \* the next step of the update running as each pid
  body,       \* the content it downloaded and verified
  had,        \* hadPrevious
  result,     \* what the pid's last update reported
  budget,     \* disturbances that may still happen
  start       \* binary and trust record when the update began, and whether no other
              \* update was running since (read by no step)

files == <<bin, trust, candidate, rollback>>
vars == <<files, pc, body, had, result, budget, start>>

NoStart == [files |-> <<Nothing, Nothing>>, alone |-> FALSE]

Init ==
  /\ bin \in Releases \cup {Nothing} /\ trust = bin
  /\ candidate = [p \in Pids |-> Nothing]
  /\ rollback = [p \in Pids |-> Nothing]
  /\ pc = [p \in Pids |-> "idle"]
  /\ body = [p \in Pids |-> Nothing]
  /\ had = [p \in Pids |-> FALSE]
  /\ result = [p \in Pids |-> "none"]
  /\ budget = Budget
  /\ start = [p \in Pids |-> NoStart]

--------------------------------------------------------------------------------
(* Pieces of steps *)

Spend(d) == budget[d] > 0 /\ budget' = [budget EXCEPT ![d] = @ - 1]
Fails == Spend("fail")

At(p, step) == pc[p] = step
Go(p, step) == pc' = [pc EXCEPT ![p] = step] /\ UNCHANGED <<body, had, result, start>>
Put(file, p, content) == [file EXCEPT ![p] = content]

\* The update is over; its locals are gone.
End(p, res) ==
  /\ pc' = [pc EXCEPT ![p] = "idle"]
  /\ body' = Put(body, p, Nothing)
  /\ had' = Put(had, p, FALSE)
  /\ result' = Put(result, p, res)
  /\ start' = Put(start, p, NoStart)

\* A file operation works and leads to next, or fails and leads to onError.
Try(p, works, next, onError) ==
  \/ works /\ Go(p, next) /\ UNCHANGED budget
  \/ Fails /\ Go(p, onError) /\ UNCHANGED files

--------------------------------------------------------------------------------
(* Install *)

\* Mutant: the digest of the downloaded binary is not compared.
VerifiedManifestOnly(genuine, served, release) == genuine

\* The manifest's signature is the release key's, and it lists the binary's digest.
Verified(genuine, served, release) == genuine /\ served = release

\* An update begins beside those that are running.
Running(p) == pc[p] # "idle"
Started(p) ==
  [q \in Pids |->
     IF q = p THEN [files |-> <<bin, trust>>, alone |-> \A r \in Pids : ~Running(r)]
     ELSE [start[q] EXCEPT !.alone = @ /\ ~Running(q)]]

\* Download manifest, signature and binary of a release, and verify them.
Install(p) ==
  /\ At(p, "idle")
  /\ \E release \in Releases, genuine \in BOOLEAN :
       \E served \in {release, Damaged} :
         IF Verified(genuine, served, release)
           THEN /\ pc' = [pc EXCEPT ![p] = "check"]
                /\ body' = Put(body, p, served)
                /\ start' = Started(p)
                /\ result' = Put(result, p, "none")
                /\ UNCHANGED had
           ELSE End(p, "error")
  /\ UNCHANGED <<files, budget>>

\* The paths of this pid must be free; the deferred removals are armed either way.
Check(p) ==
  /\ At(p, "check")
  /\ Go(p, IF candidate[p] = Nothing /\ rollback[p] = Nothing THEN "write" ELSE "cleanup")
  /\ UNCHANGED <<files, budget>>

WriteCandidate(p) ==
  /\ At(p, "write")
  /\ Try(p, /\ candidate' = Put(candidate, p, body[p])
            /\ UNCHANGED <<bin, trust, rollback>>,
         "validate", "cleanup")

\* The candidate is run once.
Validate(p) ==
  /\ At(p, "validate")
  /\ Try(p, UNCHANGED files, "stat", "cleanup")

\* os.Stat(BinaryPath) decides whether there is something to put aside; one that fails
\* for any reason reads as "nothing there".
Stat(p) ==
  /\ At(p, "stat")
  /\ Try(p, UNCHANGED files, IF bin = Nothing THEN "rename" ELSE "aside", "rename")

\* Mutant: the binary is removed although another update took what was there.
AsideErrorUnlinks(p) == Go(p, "unlink")

AsideError(p) == Go(p, "cleanup")

\* The binary may be gone since os.Stat: another update has put it aside.
Aside(p) ==
  /\ At(p, "aside")
  /\ \/ /\ bin # Nothing
        /\ rollback' = Put(rollback, p, bin)
        /\ bin' = Nothing
        /\ had' = Put(had, p, TRUE)
        /\ pc' = [pc EXCEPT ![p] = "rename"]
        /\ UNCHANGED <<trust, candidate, body, result, start, budget>>
     \/ bin = Nothing /\ AsideError(p) /\ UNCHANGED <<files, budget>>
     \/ Fails /\ AsideError(p) /\ UNCHANGED files

\* Mutant: a failing trust record leaves the new binary in place.
KeepNewBinary(p) == "cleanup"

Unlinked(p) == "unlink"

Back(p) == IF had[p] THEN "back" ELSE "cleanup"

Rename(p) ==
  /\ At(p, "rename")
  /\ Try(p, /\ bin' = candidate[p]
            /\ candidate' = Put(candidate, p, Nothing)
            /\ UNCHANGED <<trust, rollback>>,
         "record", Back(p))

\* WriteJSONAtomic(TrustPath): the update's last word.
Record(p) ==
  /\ At(p, "record")
  /\ \/ /\ trust' = body[p]
        /\ pc' = [pc EXCEPT ![p] = "cleanup"]
        /\ result' = Put(result, p, "installed")
        /\ UNCHANGED <<bin, candidate, rollback, body, had, start, budget>>
     \/ Fails /\ Go(p, Unlinked(p)) /\ UNCHANGED files

\* os.Remove(BinaryPath), its error ignored.
Unlink(p) ==
  /\ At(p, "unlink")
  /\ Try(p, bin' = Nothing /\ UNCHANGED <<trust, candidate, rollback>>, Back(p), Back(p))

\* os.Rename(rollback, BinaryPath), its error ignored.
PutBack(p) ==
  /\ At(p, "back")
  /\ Try(p, /\ bin' = rollback[p]
            /\ rollback' = Put(rollback, p, Nothing)
            /\ UNCHANGED <<trust, candidate>>,
         "cleanup", "cleanup")

\* The deferred removals and the return.  Either removal may fail unnoticed.
Cleanup(p) ==
  /\ At(p, "cleanup")
  /\ \/ /\ candidate' = Put(candidate, p, Nothing)
        /\ rollback' = Put(rollback, p, Nothing)
        /\ UNCHANGED budget
     \/ /\ Fails
        /\ \/ candidate' = Put(candidate, p, Nothing) /\ UNCHANGED rollback
           \/ rollback' = Put(rollback, p, Nothing) /\ UNCHANGED candidate
  /\ End(p, IF result[p] = "installed" THEN "installed" ELSE "error")
  /\ UNCHANGED <<bin, trust>>

\* The process is killed; nothing deferred runs.
Crash(p) ==
  /\ ~At(p, "idle")
  /\ Spend("crash")
  /\ End(p, "killed")
  /\ UNCHANGED files

Next ==
  \E p \in Pids :
    \/ Install(p) \/ Check(p) \/ WriteCandidate(p) \/ Validate(p) \/ Stat(p) \/ Aside(p)
    \/ Rename(p) \/ Record(p) \/ Unlink(p) \/ PutBack(p) \/ Cleanup(p) \/ Crash(p)

Spec == Init /\ [][Next]_vars

--------------------------------------------------------------------------------
(* Invariants *)

Steps == {"idle", "check", "write", "validate", "stat", "aside", "rename", "record",
          "unlink", "back", "cleanup"}
Content == Releases \cup {Damaged, Nothing}

\* Types; a body is kept only when it passed the verification.
TypeOK ==
  /\ bin \in Content /\ trust \in Content
  /\ candidate \in [Pids -> Content] /\ rollback \in [Pids -> Content]
  /\ pc \in [Pids -> Steps]
  /\ body \in [Pids -> Releases \cup {Nothing}]
  /\ had \in [Pids -> BOOLEAN]
  /\ result \in [Pids -> {"none", "error", "killed", "installed"}]
  /\ budget \in [Disturbances -> Nat]
  /\ start \in [Pids -> [files : Content \X Content, alone : BOOLEAN]]

\* No unverified content reaches the path of the binary, the trust record or a file a
\* rollback would put there, whatever updates race, fail or die.
InstalledIsVerified ==
  /\ bin # Damaged /\ trust # Damaged
  /\ \A p \in Pids : rollback[p] # Damaged

AllIdle == \A p \in Pids : At(p, "idle")
Undisturbed == budget = Budget

\* Updates racing each other do not lose the binary: unless something failed or was
\* killed, one is there when all are over.
BinarySurvivesRaces == AllIdle /\ Undisturbed /\ trust # Nothing => bin # Nothing

\* An update that meets no other and one failure at most replaces binary and trust record
\* together, or reports an error and leaves both as it found them, whatever was killed
\* before it (updater.go:226-238).
UpdateIsAtomic ==
  [][\A p \in Pids :
       start[p].alone /\ pc'[p] = "idle" =>
         CASE result'[p] = "installed" -> bin' = body[p] /\ trust' = body[p]
           [] result'[p] = "error"     -> <<bin', trust'>> = start[p].files
           [] OTHER                    -> TRUE]_vars

\* An update that dies leaves a binary, the old one or the new one.
BinaryIsReplaced == AllIdle /\ trust # Nothing => bin # Nothing

\* When no update is running, the trust record names the release that is installed.
TrustDescribesBinary == AllIdle => trust = bin
================================================================================
