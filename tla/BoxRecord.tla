------------------------------ MODULE BoxRecord ------------------------------
(***************************************************************************)
(* A box record of ~/.a3s/boxes.json and the functions of the CLI that     *)
(* rewrite one: the restart policy, reconciliation against process         *)
(* liveness, boot, stop, kill and health-probe updates.                    *)
(*                                                                         *)
(* Of BoxRecord's fields the ones that control the lifecycle are kept.  A  *)
(* box's static configuration (restart policy, auto-remove, health check)  *)
(* is a parameter.  Sources: src/src/cli/src/state, boot.rs, health.rs.    *)
(***************************************************************************)
EXTENDS Integers

CONSTANTS
    Boxes,        \* box ids (fresh UUIDs: an id is never reused)
    AutoRemove,   \* the boxes that are run with --rm
    Policy,       \* restart_policy of each box
    MaxRestart,   \* max_restart_count of each box (0 = unlimited)
    HasCheck,     \* the boxes with a health check
    Retries,      \* HealthCheck.retries
    RetryCap      \* where health_retries saturates (u32::MAX in the code)

ASSUME RecordAssumption ==
    /\ AutoRemove \subseteq Boxes
    /\ HasCheck \subseteq Boxes
    /\ Policy \in [Boxes -> {"no", "always", "on-failure", "unless-stopped"}]
    /\ MaxRestart \in [Boxes -> Nat]
    /\ Retries \in Nat
    /\ RetryCap \in Nat
    /\ Retries <= RetryCap

(***************************************************************************)
(* "absent" stands for an id that no record of the vector has.  Exit codes *)
(* are abstracted to where they come from: written by guest init ("ok",    *)
(* "failed"), inferred from a signal (128 + n), or 137 for a force kill.   *)
(***************************************************************************)
Status == {"absent", "created", "running", "paused", "stopped", "dead"}

Health == {"none", "starting", "healthy", "unhealthy"}

GuestCode == {"ok", "failed"}

ExitCode == {"none", "signalled", "killed"} \cup GuestCode

\* The record of one box; pid 0 is None.
Record == [status  : Status,
           pid     : Nat,
           health  : Health,
           retries : 0..RetryCap,
           byUser  : BOOLEAN,
           count   : Nat,
           exit    : ExitCode]

NewRecord == [status |-> "created", pid |-> 0, health |-> "none",
              retries |-> 0, byUser |-> FALSE, count |-> 0, exit |-> "none"]

NoRecord == [NewRecord EXCEPT !.status = "absent"]

is_active(r) == r.status \in {"running", "paused"}

\* The statuses that `start` boots from; `system prune` removes exactly these.
Inactive(r) == r.status \in {"created", "stopped", "dead"}

\* "on-failure:N" is "on-failure" with max_restart_count N ("no" when N is 0).
\* Mutant of should_restart: the bound is inclusive.
should_restart_inclusive(b, r) ==
    /\ Policy[b] # "no"
    /\ Policy[b] # "always" => ~r.byUser
    /\ MaxRestart[b] > 0 => r.count <= MaxRestart[b]

should_restart(b, r) ==
    /\ Policy[b] # "no"
    /\ Policy[b] # "always" => ~r.byUser
    /\ MaxRestart[b] > 0 => r.count < MaxRestart[b]

pending_restart(b, r) == r.status = "dead" /\ should_restart(b, r)

is_unhealthy_restart_candidate(b, r) ==
    /\ r.status = "running"
    /\ r.health = "unhealthy"
    /\ b \in HasCheck
    /\ should_restart(b, r)

\* Mutant of MarkDead: the health fields are not reset.
MarkDeadKeepsHealth(r, code) ==
    [r EXCEPT !.status = "dead", !.pid = 0, !.exit = IF r.exit = "none" THEN code ELSE r.exit]

\* reconcile() on an active record whose process is gone; `code` is what the
\* guest left in <box_dir>/upper/.a3s_exit_code.
MarkDead(r, code) ==
    [r EXCEPT !.status = "dead", !.pid = 0, !.health = "none", !.retries = 0,
              !.exit = IF r.exit = "none" THEN code ELSE r.exit]

ReconcileRecord(b, r, alive, code) ==
    IF ~is_active(r) \/ alive THEN r
    ELSE IF b \in AutoRemove THEN NoRecord
    ELSE MarkDead(r, code)

\* RestartCountUpdate: `start` resets, `restart` preserves, the monitor increments
RestartCount(r, update) ==
    CASE update = "Reset"     -> 0
      [] update = "Preserve"  -> r.count
      [] update = "Increment" -> r.count + 1

\* Mutant of apply_boot_result: stopped_by_user is not reset.
BootKeepsByUser(b, r, pid, update) ==
    [status |-> "running", pid |-> pid,
     health |-> IF b \in HasCheck THEN "starting" ELSE "none",
     retries |-> 0, byUser |-> r.byUser, count |-> RestartCount(r, update),
     exit |-> "none"]

apply_boot_result(b, r, pid, update) ==
    [status |-> "running", pid |-> pid,
     health |-> IF b \in HasCheck THEN "starting" ELSE "none",
     retries |-> 0, byUser |-> FALSE, count |-> RestartCount(r, update),
     exit |-> "none"]

\* stop_one and kill_one
MarkStopped(r, code) ==
    [r EXCEPT !.status = "stopped", !.pid = 0, !.byUser = TRUE,
              !.exit = IF code = "none" THEN r.exit ELSE code,
              !.health = "none", !.retries = 0]

\* restart_one, phase 1: only these two fields
MarkRestarting(r) == [r EXCEPT !.status = "stopped", !.pid = 0]

\* foreground `run` on its way out: the health fields are left as they are
mark_record_stopped(r, code, byUser) ==
    [r EXCEPT !.status = "stopped", !.pid = 0, !.exit = code, !.byUser = byUser]

\* the monitor, before it reboots an unhealthy box
MarkUnhealthyDead(r) ==
    [r EXCEPT !.status = "dead", !.pid = 0, !.health = "none", !.retries = 0]

\* Mutant of Saturating: a plain increment.
Increment(n) == n + 1

\* health_retries.saturating_add(1)
Saturating(n) == IF n < RetryCap THEN n + 1 ELSE RetryCap

apply_probe_result(b, r, healthy) ==
    IF r.status # "running" THEN r
    ELSE IF healthy THEN [r EXCEPT !.health = "healthy", !.retries = 0]
    ELSE [r EXCEPT !.retries = Saturating(@),
                   !.health = IF b \in HasCheck /\ Saturating(r.retries) >= Retries
                              THEN "unhealthy" ELSE @]
=============================================================================
