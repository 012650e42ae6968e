------------------------------ MODULE SystemdUnit ------------------------------
(***************************************************************************)
(* The unit pmm-rules.service as systemd keeps it: which text its file     *)
(* holds, whether it is started at boot, and whether it is active.  The    *)
(* systemctl commands are modelled from how internal/persistence and       *)
(* internal/migration use them: each works or reports an error.            *)
(***************************************************************************)

\* The text of the unit file: none, the one of PMM 5 or 6, or somebody else's.
Texts == {"none", "v5", "v6", "other"}

Unit == [file : Texts, enabled : BOOLEAN, active : BOOLEAN]

\* Nothing is enabled or active without a file.
Sound(u) == u.file = "none" => ~u.enabled /\ ~u.active

NoUnit == [file |-> "none", enabled |-> FALSE, active |-> FALSE]

WithFile(u, text) == [u EXCEPT !.file = text]

\* systemctl enable and start read the file; disable and stop do not need it.
Enabled(u) == [u EXCEPT !.enabled = TRUE]
Started(u) == [u EXCEPT !.active = TRUE]
Disabled(u) == [u EXCEPT !.enabled = FALSE]
Stopped(u) == [u EXCEPT !.active = FALSE]
DisabledNow(u) == Stopped(Disabled(u))
Startable(u) == u.file # "none"

\* What Manager.Check reports of the unit: whether the file is PMM's, and what systemctl
\* is-enabled and is-active said.  What could not be read or asked stays FALSE.
Status == [valid : BOOLEAN, enabled : BOOLEAN, active : BOOLEAN]
NothingSeen == [valid |-> FALSE, enabled |-> FALSE, active |-> FALSE]
================================================================================
