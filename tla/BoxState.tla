------------------------------ MODULE BoxState -------------------------------
(***************************************************************************)
(* The CLI processes that share ~/.a3s/boxes.json: one-shot commands, the  *)
(* `monitor` daemon and the health checkers they spawn, with the VM (shim) *)
(* processes they boot and kill.                                           *)
(*                                                                         *)
(* Every process works the way the code does: StateFile::load reads the    *)
(* file and reconciles it against process liveness, writing the result     *)
(* back WITHOUT the lock; `save` takes the lock and writes the process's   *)
(* own snapshot; `modify` holds the lock over load, closure and write.     *)
(* Between those steps, and over every await (boot, graceful stop, probe), *)
(* any other process may step.  One write_to_disk is one step here;        *)
(* StateFileIO refines it.                                                 *)
(*                                                                         *)
(* I/O errors, networks and volumes are left out; a process id is never    *)
(* reused.                                                                 *)
(***************************************************************************)
EXTENDS BoxRecord, FiniteSets

CONSTANTS
    Cli,          \* slots for one-shot CLI commands
    Monitor,      \* the `a3s-box monitor` daemon
    Checkers,     \* slots for spawned health-checker tasks
    NoProc,       \* no process: the lock is free, a checker slot is unowned
    NoBox,        \* no box
    Initial,      \* the boxes that exist, created, at the start
    Ops,          \* the CLI commands that are issued
    MaxOps,       \* bound on the number of commands issued
    MaxArgs,      \* bound on the number of boxes named by one command
    MaxPid,       \* bound on the number of VMs ever booted
    MonitorRuns,  \* whether the monitor daemon has been started
    MayCrash      \* whether processes may be killed between two steps

Procs == Cli \cup {Monitor} \cup Checkers

Pids == 1..MaxPid

AllOps == {"create", "run", "runfg", "start", "stop", "restart", "rm", "rmforce",
           "killterm", "killkill", "killstop", "killcont", "killusr",
           "pause", "unpause", "prune", "touch", "ps"}

ASSUME StateAssumption ==
    /\ Monitor \notin Cli
    /\ Cli \cap Checkers = {}
    /\ Monitor \notin Checkers
    /\ NoProc \notin Procs
    /\ NoBox \notin Boxes
    /\ Initial \subseteq Boxes \ AutoRemove
    /\ Ops \subseteq AllOps
    /\ MaxOps \in Nat
    /\ MaxArgs \in Nat
    /\ MaxPid \in Nat
    /\ MonitorRuns \in BOOLEAN
    /\ MayCrash \in BOOLEAN

VARIABLES
    file,   \* boxes.json: the record of each box
    lock,   \* the holder of the flock on boxes.json.lock
    vms,    \* the shim process behind each process id
    disk,   \* each box's directory and the exit code the guest left in it
    used,   \* the boxes ever created
    ops,    \* the number of commands issued
    pc,     \* where each process is
    op,     \* the command it executes
    todo,   \* the boxes it has still to handle
    cur,    \* the box it is handling
    mem,    \* its StateFile: the snapshot it loaded
    buf,    \* the StateFile inside `modify`, under the lock
    clo,    \* the closure it passes to `modify`, with what it captured
    owner   \* the process whose runtime a health checker runs in

shared == <<file, lock, used, ops>>
local  == <<pc, op, todo, cur, mem, buf, clo, owner>>
vars   == <<file, lock, vms, disk, used, ops, pc, op, todo, cur, mem, buf, clo, owner>>

Snapshot == [Boxes -> Record]

Empty == [b \in Boxes |-> NoRecord]

\* "dying": a terminating signal was delivered, the process is not gone yet.
Vm == [state : {"free", "up", "frozen", "dying", "gone"},
       box : Boxes \cup {NoBox}, code : ExitCode]

Closure == [f : {"none", "add", "remove", "probe", "dead", "boot"},
            pid : Nat, ok : BOOLEAN]

NoClosure == [f |-> "none", pid |-> 0, ok |-> FALSE]

PC == {"idle", "load", "rwrite", "pick", "signal", "await", "boot", "save",
       "attach", "attached", "probes", "cands", "sleep", "lock", "mrwrite", "mwrite"}

TypeOK ==
    /\ file \in Snapshot
    /\ lock \in Procs \cup {NoProc}
    /\ vms \in [Pids -> Vm]
    /\ disk \in [Boxes -> {"nodir", "none"} \cup GuestCode]
    /\ used \subseteq Boxes
    /\ ops \in Nat
    /\ pc \in [Procs -> PC]
    /\ op \in [Procs -> AllOps \cup {"none", "rollback", "fgend", "end"}]
    /\ todo \in [Procs -> SUBSET Boxes]
    /\ cur \in [Procs -> Boxes \cup {NoBox}]
    /\ mem \in [Procs -> Snapshot]
    /\ buf \in [Procs -> Snapshot]
    /\ clo \in [Procs -> Closure]
    /\ owner \in [Checkers -> Cli \cup {Monitor, NoProc}]

Init ==
    /\ file = [b \in Boxes |-> IF b \in Initial THEN NewRecord ELSE NoRecord]
    /\ lock = NoProc
    /\ vms = [q \in Pids |-> [state |-> "free", box |-> NoBox, code |-> "none"]]
    /\ disk = [b \in Boxes |-> IF b \in Initial THEN "none" ELSE "nodir"]
    /\ used = Initial
    /\ ops = 0
    /\ pc = [p \in Procs |-> "idle"]
    /\ op = [p \in Procs |-> "none"]
    /\ todo = [p \in Procs |-> {}]
    /\ cur = [p \in Procs |-> NoBox]
    /\ mem = [p \in Procs |-> Empty]
    /\ buf = [p \in Procs |-> Empty]
    /\ clo = [p \in Procs |-> NoClosure]
    /\ owner = [c \in Checkers |-> NoProc]

-----------------------------------------------------------------------------
(* VM processes.                                                           *)

\* kill(pid, 0).  It also reports a zombie, which the shims of a living monitor
\* become when they die: to this model such a VM has not ended yet.
is_process_alive(q) == q \in Pids /\ vms[q].state \in {"up", "frozen", "dying"}

\* Some shim of the box answers on its exec socket.
Serving(b) == \E q \in Pids : vms[q].box = b /\ vms[q].state \in {"up", "dying"}

SetVm(q, s) == vms' = [vms EXCEPT ![q].state = s]

\* A terminating signal reaches a process that is not frozen by SIGSTOP.
Terminating(s) == IF s = "up" THEN "dying" ELSE s

\* Mutant of Resumed: SIGCONT is forgotten.
NotResumed(s) == s

Resumed(s) == IF s = "frozen" THEN "up" ELSE s

LeftCode(b) == IF disk[b] = "nodir" THEN "none" ELSE disk[b]

\* The container exits by itself or honours a signal: guest init persists the
\* exit code into the box directory, then the VM halts.
VmExit(q, code) ==
    /\ vms[q].state \in {"up", "dying"}
    /\ vms' = [vms EXCEPT ![q].state = "gone", ![q].code = code]
    /\ disk' = [disk EXCEPT ![vms[q].box] = IF @ = "nodir" THEN "nodir" ELSE code]
    /\ UNCHANGED <<shared, local>>

\* The shim dies without guest init running: host OOM kill, VMM crash.
VmCrash(q) ==
    /\ vms[q].state \in {"up", "frozen", "dying"}
    /\ SetVm(q, "gone")
    /\ UNCHANGED <<shared, local, disk>>

-----------------------------------------------------------------------------
(* StateFile: load, reconcile, save, modify.                               *)

Put(s, b, r) == [s EXCEPT ![b] = r]

\* StateLock::acquire: flock(LOCK_EX), a wait while another process holds it
Acquire(p) == lock = NoProc /\ lock' = p

\* Mutant of Release: the lock file stays locked.
NeverRelease(s) == UNCHANGED lock

\* Drop of StateLock, or the end of a process: the processes s no longer hold it
Release(s) == lock' = IF lock \in s THEN NoProc ELSE lock

reconcile(s) ==
    [b \in Boxes |-> ReconcileRecord(b, s[b], is_process_alive(s[b].pid), LeftCode(b))]

\* cleanup_removed_box of the auto-remove boxes that reconcile drops
ReconciledDisk(s) ==
    [b \in Boxes |-> IF s[b].status # "absent" /\ reconcile(s)[b].status = "absent"
                     THEN "nodir" ELSE disk[b]]

\* StateFile::load: read, reconcile, and note whether a write-back is due
Load(p) ==
    /\ pc[p] = "load"
    /\ mem' = [mem EXCEPT ![p] = reconcile(file)]
    /\ disk' = ReconciledDisk(file)
    /\ pc' = [pc EXCEPT ![p] = IF reconcile(file) # file THEN "rwrite" ELSE "pick"]
    /\ UNCHANGED <<shared, vms, op, todo, cur, buf, clo, owner>>

\* the write-back of reconcile(): no lock is taken
ReconcileWrite(p) ==
    /\ pc[p] = "rwrite"
    /\ file' = mem[p]
    /\ pc' = [pc EXCEPT ![p] = "pick"]
    /\ UNCHANGED <<lock, vms, disk, used, ops, op, todo, cur, mem, buf, clo, owner>>

\* StateFile::save: under the lock, the whole snapshot replaces the file
save(p) ==
    /\ pc[p] = "save"
    /\ lock = NoProc
    /\ file' = mem[p]
    /\ pc' = [pc EXCEPT ![p] =
                 CASE op[p] = "restart" /\ mem[p][cur[p]].status = "stopped" -> "boot"
                   [] op[p] = "runfg" -> "attach"
                   [] OTHER -> "pick"]
    /\ UNCHANGED <<lock, vms, disk, used, ops, op, todo, cur, mem, buf, clo, owner>>

\* StateFile::modify, first part: take the lock and load afresh
ModifyLoad(p) ==
    /\ pc[p] = "lock"
    /\ Acquire(p)
    /\ buf' = [buf EXCEPT ![p] = reconcile(file)]
    /\ disk' = ReconciledDisk(file)
    /\ pc' = [pc EXCEPT ![p] = IF reconcile(file) # file THEN "mrwrite" ELSE "mwrite"]
    /\ UNCHANGED <<file, vms, used, ops, op, todo, cur, mem, clo, owner>>

ModifyReconcileWrite(p) ==
    /\ pc[p] = "mrwrite"
    /\ file' = buf[p]
    /\ pc' = [pc EXCEPT ![p] = "mwrite"]
    /\ UNCHANGED <<lock, vms, disk, used, ops, op, todo, cur, mem, buf, clo, owner>>

\* The closure on the record of its box; only `add` acts on a missing one.
ApplyClosure(c, b, r) ==
    IF c.f \in {"add", "remove"} THEN IF c.f = "add" THEN NewRecord ELSE NoRecord
    ELSE IF r.status = "absent" THEN r
    ELSE CASE c.f = "probe" -> apply_probe_result(b, r, c.ok)
           [] c.f = "dead"  -> MarkUnhealthyDead(r)
           [] c.f = "boot"  -> apply_boot_result(b, r, c.pid, "Increment")
           [] OTHER         -> r

\* run_health_loop goes on only while its box is running
KeepGoing(p) == buf[p][cur[p]].status = "running"

AfterModify(p) ==
    IF p \in Checkers THEN IF KeepGoing(p) THEN "sleep" ELSE "idle"
    ELSE IF p \in Cli THEN "pick"
    ELSE CASE clo[p].f = "probe" -> "probes"
           [] clo[p].f = "dead" -> "boot"
           [] OTHER -> "cands"

\* StateFile::modify, second part: closure, write, release
ModifyWrite(p) ==
    /\ pc[p] = "mwrite"
    /\ file' = Put(buf[p], cur[p], ApplyClosure(clo[p], cur[p], buf[p][cur[p]]))
    /\ Release({p})
    /\ buf' = [buf EXCEPT ![p] = Empty]
    /\ clo' = [clo EXCEPT ![p] = NoClosure]
    /\ pc' = [pc EXCEPT ![p] = AfterModify(p)]
    /\ owner' = [c \in Checkers |-> IF c = p /\ ~KeepGoing(p) THEN NoProc ELSE owner[c]]
    /\ cur' = [cur EXCEPT ![p] = IF AfterModify(p) = "idle" THEN NoBox ELSE @]
    /\ UNCHANGED <<vms, disk, used, ops, op, todo, mem>>

-----------------------------------------------------------------------------
(* Booting a VM from a record, and the health checker it spawns.           *)

\* boot_from_record spawns a checker when the box has a health check; a task
\* that finds no slot is not modelled.
SpawnAndGo(p, b, next) ==
    \/ /\ b \in HasCheck
       /\ \E c \in Checkers :
            /\ pc[c] = "idle"
            /\ pc' = [pc EXCEPT ![p] = next, ![c] = "sleep"]
            /\ cur' = [cur EXCEPT ![c] = b]
            /\ owner' = [owner EXCEPT ![c] = p]
    \/ /\ b \notin HasCheck \/ \A c \in Checkers : pc[c] # "idle"
       /\ pc' = [pc EXCEPT ![p] = next]
       /\ UNCHANGED <<cur, owner>>

NextPid(q) == vms[q].state = "free" /\ \A r \in Pids : r < q => vms[r].state # "free"

StartVm(q, b) ==
    /\ NextPid(q)
    /\ vms' = [vms EXCEPT ![q] = [state |-> "up", box |-> b, code |-> "none"]]
    /\ disk' = [disk EXCEPT ![b] = IF @ = "nodir" THEN "none" ELSE @]

\* `start` and `restart`: the result goes into the command's own snapshot
BootCommand(p, q) ==
    /\ pc[p] = "boot"
    /\ op[p] \in {"start", "restart"}
    /\ StartVm(q, cur[p])
    /\ mem' = [mem EXCEPT ![p] = Put(@, cur[p],
                  apply_boot_result(cur[p], @[cur[p]], q,
                      IF op[p] = "start" THEN "Reset" ELSE "Preserve"))]
    /\ SpawnAndGo(p, cur[p], "save")
    /\ UNCHANGED <<shared, op, todo, buf, clo>>

\* `run`: the record is only built, and the state only loaded, after the boot
BootRun(p, q) ==
    /\ pc[p] = "boot"
    /\ op[p] \in {"run", "runfg"}
    /\ StartVm(q, cur[p])
    /\ clo' = [clo EXCEPT ![p].pid = q]
    /\ pc' = [pc EXCEPT ![p] = "load"]
    /\ UNCHANGED <<shared, op, todo, cur, mem, buf, owner>>

\* the monitor: the result is applied to the fresh record by a closure
BootMonitor(q) ==
    /\ pc[Monitor] = "boot"
    /\ StartVm(q, cur[Monitor])
    /\ clo' = [clo EXCEPT ![Monitor] = [f |-> "boot", pid |-> q, ok |-> FALSE]]
    /\ SpawnAndGo(Monitor, cur[Monitor], "lock")
    /\ UNCHANGED <<shared, op, todo, mem, buf>>

\* The boot fails, before VmManager::boot (nothing is touched) or inside it:
\* cleanup_boot_failure then deletes the box directory.
BootFail(p) ==
    /\ pc[p] = "boot"
    /\ \/ UNCHANGED disk
       \/ disk' = [disk EXCEPT ![cur[p]] = "nodir"]
    /\ pc' = [pc EXCEPT ![p] = IF p = Monitor THEN "cands" ELSE "pick"]
    /\ UNCHANGED <<shared, vms, op, todo, cur, mem, buf, clo, owner>>

-----------------------------------------------------------------------------
(* One-shot commands.                                                      *)

\* The process and the tasks in its runtime; flock dies with the process.
Mine(p) == {p} \cup {c \in Checkers : owner[c] = p}

Exit(p) ==
    /\ pc' = [x \in Procs |-> IF x \in Mine(p) THEN "idle" ELSE pc[x]]
    /\ op' = [x \in Procs |-> IF x \in Mine(p) THEN "none" ELSE op[x]]
    /\ todo' = [x \in Procs |-> IF x \in Mine(p) THEN {} ELSE todo[x]]
    /\ cur' = [x \in Procs |-> IF x \in Mine(p) THEN NoBox ELSE cur[x]]
    /\ mem' = [x \in Procs |-> IF x \in Mine(p) THEN Empty ELSE mem[x]]
    /\ buf' = [x \in Procs |-> IF x \in Mine(p) THEN Empty ELSE buf[x]]
    /\ clo' = [x \in Procs |-> IF x \in Mine(p) THEN NoClosure ELSE clo[x]]
    /\ owner' = [c \in Checkers |-> IF c \in Mine(p) THEN NoProc ELSE owner[c]]
    /\ Release(Mine(p))
    /\ UNCHANGED <<file, vms, disk, used, ops>>

\* The process is killed at any point between two of its steps.
Crash(p) == MayCrash /\ pc[p] # "idle" /\ Exit(p)

Issue(p, o) ==
    /\ pc[p] = "idle"
    /\ ops < MaxOps
    /\ o \in Ops
    /\ ops' = ops + 1
    /\ op' = [op EXCEPT ![p] = o]

\* `create`: a fresh record is appended under the lock
InvokeCreate(p, b) ==
    /\ Issue(p, "create")
    /\ b \notin used \cup AutoRemove
    /\ used' = used \cup {b}
    /\ disk' = [disk EXCEPT ![b] = "none"]
    /\ cur' = [cur EXCEPT ![p] = b]
    /\ clo' = [clo EXCEPT ![p].f = "add"]
    /\ pc' = [pc EXCEPT ![p] = "lock"]
    /\ UNCHANGED <<file, lock, vms, todo, mem, buf, owner>>

InvokeRun(p, o, b) ==
    /\ o \in {"run", "runfg"}
    /\ Issue(p, o)
    /\ b \notin used
    /\ used' = used \cup {b}
    /\ cur' = [cur EXCEPT ![p] = b]
    /\ pc' = [pc EXCEPT ![p] = "boot"]
    /\ UNCHANGED <<file, lock, vms, disk, todo, mem, buf, clo, owner>>

\* every other command loads the state, then handles its boxes one by one;
\* `ps` names none and `system prune` looks at all
Arguments(o) ==
    CASE o = "ps" -> {{}}
      [] o = "prune" -> {Boxes}
      [] OTHER -> {s \in SUBSET Boxes : Cardinality(s) \in 1..MaxArgs}

Invoke(p, o) ==
    /\ o \notin {"create", "run", "runfg"}
    /\ Issue(p, o)
    /\ \E s \in Arguments(o) : todo' = [todo EXCEPT ![p] = s]
    /\ pc' = [pc EXCEPT ![p] = "load"]
    /\ UNCHANGED <<file, lock, vms, disk, used, cur, mem, buf, clo, owner>>

LivePid(r) == is_process_alive(r.pid)

Kills == {"killterm", "killkill", "killstop", "killcont", "killusr"}

\* The checks a command makes on a record, in its snapshot, before it acts.
Accepts(o, r) ==
    CASE o = "start"   -> Inactive(r)
      [] o = "restart" -> Inactive(r) \/ (is_active(r) /\ LivePid(r))
      [] o \in Kills \cup {"stop"} -> is_active(r) /\ LivePid(r)
      [] o = "pause"   -> r.status = "running" /\ LivePid(r)
      [] o = "unpause" -> r.status = "paused" /\ LivePid(r)
      [] o \in {"rm", "prune"} -> Inactive(r)
      [] OTHER         -> r.status # "absent"

\* Command o takes up box b, whose record in the snapshot is mem[p][b].
Handle(p, b, os) ==
    /\ pc[p] = "pick"
    /\ op[p] \in os
    /\ b \in todo[p]
    /\ Accepts(op[p], mem[p][b])
    /\ todo' = [todo EXCEPT ![p] = @ \ {b}]
    /\ cur' = [cur EXCEPT ![p] = b]

Goto(p, l) == pc' = [pc EXCEPT ![p] = l]

SetMem(p, b, r) == mem' = [mem EXCEPT ![p] = Put(@, b, r)]

\* a check fails: the error is collected and the next box is tried
Reject(p, b) ==
    /\ pc[p] = "pick"
    /\ b \in todo[p]
    /\ p \in Cli
    /\ ~Accepts(op[p], mem[p][b])
    /\ todo' = [todo EXCEPT ![p] = @ \ {b}]
    /\ UNCHANGED <<shared, vms, disk, pc, op, cur, mem, buf, clo, owner>>

start_one(p, b) ==
    /\ Handle(p, b, {"start", "restart"})
    /\ Inactive(mem[p][b])
    /\ Goto(p, "boot")
    /\ UNCHANGED <<shared, vms, disk, op, mem, buf, clo, owner>>

\* stop_one, and restart_one on an active box: resume a paused process first
stop_one(p, b) ==
    /\ Handle(p, b, {"stop", "restart"})
    /\ is_active(mem[p][b])
    /\ vms' = IF mem[p][b].status = "paused"
              THEN [vms EXCEPT ![mem[p][b].pid].state = Resumed(@)] ELSE vms
    /\ Goto(p, "signal")
    /\ UNCHANGED <<shared, disk, op, mem, buf, clo, owner>>

\* What stop, restart and the monitor do once the process is (taken to be) gone.
StopDone(p, code) ==
    LET b == cur[p]
        r == mem[p][b]
    IN  IF p = Monitor
        THEN /\ clo' = [clo EXCEPT ![p].f = "dead"]
             /\ Goto(p, "lock")
             /\ UNCHANGED <<disk, mem>>
        ELSE /\ Goto(p, "save")
             /\ SetMem(p, b, IF op[p] = "restart" THEN MarkRestarting(r)
                             ELSE IF b \in AutoRemove THEN NoRecord
                             ELSE MarkStopped(r, code))
             /\ disk' = IF op[p] # "restart" /\ b \in AutoRemove
                        THEN [disk EXCEPT ![b] = "nodir"] ELSE disk
             /\ UNCHANGED clo

\* graceful_stop_via_guest: nothing to signal (AlreadyExited) ...
StopAlreadyExited(p) ==
    /\ pc[p] = "signal"
    /\ ~LivePid(mem[p][cur[p]])
    /\ StopDone(p, "none")
    /\ UNCHANGED <<shared, vms, op, todo, cur, buf, owner>>

\* ... or the signal is delivered ...
StopSignal(p) ==
    /\ pc[p] = "signal"
    /\ LivePid(mem[p][cur[p]])
    /\ vms' = [vms EXCEPT ![mem[p][cur[p]].pid].state = Terminating(@)]
    /\ Goto(p, "await")
    /\ UNCHANGED <<shared, disk, op, todo, cur, mem, buf, clo, owner>>

\* ... and the process exits (GracefulExit) ...
StopExited(p) ==
    /\ pc[p] = "await"
    /\ ~LivePid(mem[p][cur[p]])
    /\ StopDone(p, "signalled")
    /\ UNCHANGED <<shared, vms, op, todo, cur, buf, owner>>

\* ... or is killed at the timeout (ForceKilled).
StopTimeout(p) ==
    /\ pc[p] = "await"
    /\ LivePid(mem[p][cur[p]])
    /\ SetVm(mem[p][cur[p]].pid, "gone")
    /\ StopDone(p, "killed")
    /\ UNCHANGED <<shared, op, todo, cur, buf, owner>>

\* kill_one with a terminating signal: the record is marked stopped at once,
\* nobody waits for the process
kill_one(p, b) ==
    LET r == mem[p][b]
        s == vms[r.pid].state
    IN  /\ Handle(p, b, {"killterm", "killkill"})
        /\ vms' = [vms EXCEPT ![r.pid].state =
                      IF op[p] = "killkill" /\ s = "frozen" THEN "gone"
                      ELSE IF op[p] = "killkill" \/ r.status = "paused" THEN "dying"
                      ELSE Terminating(s)]
        /\ IF b \in AutoRemove
           THEN /\ SetMem(p, b, NoRecord)
                /\ disk' = [disk EXCEPT ![b] = "nodir"]
           ELSE /\ SetMem(p, b, MarkStopped(r, IF op[p] = "killkill" THEN "killed"
                                               ELSE "signalled"))
                /\ UNCHANGED disk
        /\ Goto(p, "save")
        /\ UNCHANGED <<shared, op, buf, clo, owner>>

\* kill_one with SIGSTOP or SIGCONT (signal_status_transition), `pause` and
\* `unpause`.  `kill` reaches the container through the guest, or the shim.
SetPaused(p, b) ==
    LET q == mem[p][b].pid
    IN  /\ Handle(p, b, {"killstop", "pause"})
        /\ \/ vms' = [vms EXCEPT ![q].state = "frozen"]
           \/ op[p] = "killstop" /\ UNCHANGED vms
        /\ SetMem(p, b, [mem[p][b] EXCEPT !.status = "paused"])
        /\ Goto(p, "save")
        /\ UNCHANGED <<shared, disk, op, buf, clo, owner>>

SetRunning(p, b) ==
    LET q == mem[p][b].pid
    IN  /\ Handle(p, b, {"killcont", "unpause"})
        /\ vms' = [vms EXCEPT ![q].state = Resumed(@)]
        /\ SetMem(p, b, [mem[p][b] EXCEPT !.status = "running"])
        /\ Goto(p, "save")
        /\ UNCHANGED <<shared, disk, op, buf, clo, owner>>

\* kill_one with any other signal leaves the state file alone
KillOther(p, b) ==
    /\ Handle(p, b, {"killusr"})
    /\ Goto(p, "pick")
    /\ UNCHANGED <<shared, vms, disk, op, mem, buf, clo, owner>>

\* Mutant of rm_vms: an active box is removed and its VM left running.
rm_no_vms(r) == vms

\* `rm --force` kills the VM of an active box
rm_vms(r) ==
    IF is_active(r) /\ LivePid(r) THEN [vms EXCEPT ![r.pid].state = "gone"] ELSE vms

\* remove_record under the lock, and `forget` in the command's own snapshot
rm_one(p, b) ==
    LET r == mem[p][b]
    IN  /\ Handle(p, b, {"rm", "rmforce"})
        /\ vms' = rm_vms(r)
        /\ disk' = [disk EXCEPT ![b] = "nodir"]
        /\ clo' = [clo EXCEPT ![p].f = "remove"]
        /\ SetMem(p, b, NoRecord)
        /\ Goto(p, "lock")
        /\ UNCHANGED <<shared, op, buf, owner>>

\* `system prune`, phase 1: every inactive box is removed, one save each
PruneOne(p, b) ==
    /\ Handle(p, b, {"prune"})
    /\ disk' = [disk EXCEPT ![b] = "nodir"]
    /\ SetMem(p, b, NoRecord)
    /\ Goto(p, "save")
    /\ UNCHANGED <<shared, vms, op, buf, clo, owner>>

\* `rename`, `container-update`, `network connect|disconnect`: fields outside
\* this model change, but the whole snapshot is saved
TouchOne(p, b) ==
    /\ Handle(p, b, {"touch"})
    /\ Goto(p, "save")
    /\ UNCHANGED <<shared, vms, disk, op, mem, buf, clo, owner>>

\* `run` adds its record to the state it has just loaded
RunAdd(p) ==
    /\ pc[p] = "pick"
    /\ op[p] \in {"run", "runfg"}
    /\ clo[p].pid # 0
    /\ SetMem(p, cur[p], apply_boot_result(cur[p], NewRecord, clo[p].pid, "Reset"))
    /\ clo' = [clo EXCEPT ![p] = NoClosure]
    /\ Goto(p, "save")
    /\ UNCHANGED <<shared, vms, disk, op, todo, cur, buf, owner>>

\* foreground `run`: the checker is spawned once the record is saved (that of a
\* detached `run` dies at once with its process)
RunAttach(p) ==
    /\ pc[p] = "attach"
    /\ SpawnAndGo(p, cur[p], "attached")
    /\ UNCHANGED <<shared, vms, disk, op, todo, mem, buf, clo>>

\* `run`: attaching the volumes failed after the record was saved; the VM is
\* destroyed and cleanup_partial_box_record follows
rollback_booted_setup(p) ==
    LET q == mem[p][cur[p]].pid
    IN  /\ pc[p] = "attach" \/ (pc[p] = "pick" /\ op[p] = "run" /\ clo[p] = NoClosure)
        /\ q # 0
        /\ SetVm(q, "gone")
        /\ op' = [op EXCEPT ![p] = "rollback"]
        /\ Goto(p, "pick")
        /\ UNCHANGED <<shared, disk, todo, cur, mem, buf, clo, owner>>

\* The foreground loop ends: the process exited, Ctrl-C, or the VM is unhealthy
\* (foreground_exit_code).  The checker is aborted, the VM destroyed (with its
\* directory unless it is persistent), and the state loaded again.
RunEnd(p, byUser, code) ==
    LET q == mem[p][cur[p]].pid
    IN  /\ pc[p] = "attached"
        /\ code = IF vms[q].code # "none" THEN vms[q].code
                  ELSE IF byUser THEN "signalled"
                  ELSE IF is_process_alive(q) THEN "failed" ELSE "none"
        /\ vms' = [vms EXCEPT ![q].state = "gone", ![q].code = code]
        /\ pc' = [x \in Procs |-> IF x = p THEN "load"
                                  ELSE IF x \in Mine(p) /\ pc[x] = "sleep" THEN "idle"
                                  ELSE pc[x]]
        /\ cur' = [x \in Procs |-> IF x \in Mine(p) /\ pc[x] = "sleep" THEN NoBox
                                   ELSE cur[x]]
        /\ owner' = [c \in Checkers |-> IF c \in Mine(p) /\ pc[c] = "sleep" THEN NoProc
                                        ELSE owner[c]]
        /\ op' = [op EXCEPT ![p] = "fgend"]
        /\ clo' = [clo EXCEPT ![p] = [f |-> "none", pid |-> q, ok |-> byUser]]
        /\ disk' = IF cur[p] \in AutoRemove THEN [disk EXCEPT ![cur[p]] = "nodir"] ELSE disk
        /\ UNCHANGED <<shared, todo, mem, buf>>

\* `run` in the foreground marks its record stopped, or removes it (--rm)
RunStopped(p) ==
    LET b == cur[p]
        r == mem[p][b]
    IN  /\ pc[p] = "pick"
        /\ op[p] = "fgend"
        /\ SetMem(p, b, IF b \in AutoRemove \/ r.status = "absent" THEN NoRecord
                        ELSE mark_record_stopped(r, vms[clo[p].pid].code, clo[p].ok))
        /\ disk' = IF b \in AutoRemove THEN [disk EXCEPT ![b] = "nodir"] ELSE disk
        /\ Goto(p, IF b \in AutoRemove /\ r.status = "absent" THEN "pick" ELSE "save")
        /\ op' = [op EXCEPT ![p] = "end"]
        /\ clo' = [clo EXCEPT ![p] = NoClosure]
        /\ UNCHANGED <<shared, vms, todo, cur, buf, owner>>

\* `create`: attaching the volumes failed after the record was added
CreateRollback(p) ==
    /\ pc[p] = "pick"
    /\ op[p] = "create"
    /\ op' = [op EXCEPT ![p] = "rollback"]
    /\ Goto(p, "load")
    /\ UNCHANGED <<shared, vms, disk, todo, cur, mem, buf, clo, owner>>

cleanup_partial_box_record(p) ==
    LET b == cur[p]
    IN  /\ pc[p] = "pick"
        /\ op[p] = "rollback"
        /\ disk' = [disk EXCEPT ![b] = "nodir"]
        /\ SetMem(p, b, NoRecord)
        /\ Goto(p, IF mem[p][b].status = "absent" THEN "pick" ELSE "save")
        /\ op' = [op EXCEPT ![p] = "end"]
        /\ UNCHANGED <<shared, vms, todo, cur, buf, clo, owner>>

Finish(p) ==
    /\ pc[p] = "pick"
    /\ todo[p] = {}
    /\ op[p] \notin {"fgend", "rollback"}
    /\ clo[p] = NoClosure
    /\ Exit(p)

-----------------------------------------------------------------------------
(* The monitor: poll_once.                                                 *)

MonitorPoll ==
    /\ MonitorRuns
    /\ pc[Monitor] = "idle"
    /\ Goto(Monitor, "load")
    /\ UNCHANGED <<shared, vms, disk, op, todo, cur, mem, buf, clo, owner>>

\* run_due_health_checks: which probes are due depends on the clock
MonitorDue ==
    /\ pc[Monitor] = "pick"
    /\ \E s \in SUBSET {b \in HasCheck : mem[Monitor][b].status = "running"} :
         todo' = [todo EXCEPT ![Monitor] = s]
    /\ Goto(Monitor, "probes")
    /\ UNCHANGED <<shared, vms, disk, op, cur, mem, buf, clo, owner>>

\* run_probe: only a serving box can answer; the verdict is applied later
MonitorProbe(b, ok) ==
    /\ pc[Monitor] = "probes"
    /\ b \in todo[Monitor]
    /\ ok => Serving(b)
    /\ todo' = [todo EXCEPT ![Monitor] = @ \ {b}]
    /\ cur' = [cur EXCEPT ![Monitor] = b]
    /\ clo' = [clo EXCEPT ![Monitor] = [f |-> "probe", pid |-> 0, ok |-> ok]]
    /\ Goto(Monitor, "lock")
    /\ UNCHANGED <<shared, vms, disk, op, mem, buf, owner>>

\* Mutant of Candidates: the dead boxes are left out.
UnhealthyCandidates(s) == {b \in Boxes : is_unhealthy_restart_candidate(b, s[b])}

\* pending_restarts and the unhealthy boxes of a snapshot
Candidates(s) ==
    {b \in Boxes : pending_restart(b, s[b]) \/ is_unhealthy_restart_candidate(b, s[b])}

\* the candidates come from the snapshot loaded before the probes
MonitorCandidates ==
    /\ pc[Monitor] = "probes"
    /\ todo[Monitor] = {}
    /\ todo' = [todo EXCEPT ![Monitor] = Candidates(mem[Monitor])]
    /\ Goto(Monitor, "cands")
    /\ UNCHANGED <<shared, vms, disk, op, cur, mem, buf, clo, owner>>

\* dead boxes come before unhealthy ones
MonitorTake(b) ==
    /\ pc[Monitor] = "cands"
    /\ b \in todo[Monitor]
    /\ mem[Monitor][b].status = "dead" \/ \A x \in todo[Monitor] : mem[Monitor][x].status # "dead"
    /\ todo' = [todo EXCEPT ![Monitor] = @ \ {b}]

\* BackoffTracker::ready says no (RestartBackoff models when)
MonitorBackOff(b) ==
    /\ MonitorTake(b)
    /\ UNCHANGED <<shared, vms, disk, pc, op, cur, mem, buf, clo, owner>>

MonitorRestart(b) ==
    /\ MonitorTake(b)
    /\ cur' = [cur EXCEPT ![Monitor] = b]
    /\ Goto(Monitor, IF mem[Monitor][b].status = "dead" THEN "boot" ELSE "signal")
    /\ UNCHANGED <<shared, vms, disk, op, mem, buf, clo, owner>>

MonitorSleep ==
    /\ pc[Monitor] = "cands"
    /\ todo[Monitor] = {}
    /\ Goto(Monitor, "idle")
    /\ cur' = [cur EXCEPT ![Monitor] = NoBox]
    /\ mem' = [mem EXCEPT ![Monitor] = Empty]
    /\ UNCHANGED <<shared, vms, disk, op, todo, buf, clo, owner>>

-----------------------------------------------------------------------------
(* Health checkers: run_health_loop.                                       *)

CheckerProbe(c, ok) ==
    /\ pc[c] = "sleep"
    /\ ok => Serving(cur[c])
    /\ clo' = [clo EXCEPT ![c] = [f |-> "probe", pid |-> 0, ok |-> ok]]
    /\ Goto(c, "lock")
    /\ UNCHANGED <<shared, vms, disk, op, todo, cur, mem, buf, owner>>

\* the exec socket is gone
CheckerQuit(c) ==
    /\ pc[c] = "sleep"
    /\ ~Serving(cur[c]) \/ disk[cur[c]] = "nodir"
    /\ Goto(c, "idle")
    /\ cur' = [cur EXCEPT ![c] = NoBox]
    /\ owner' = [owner EXCEPT ![c] = NoProc]
    /\ UNCHANGED <<shared, vms, disk, op, todo, mem, buf, clo>>

-----------------------------------------------------------------------------
(* The next-state relation.                                                *)

StateFileStep(p) ==
    \/ Load(p) \/ ReconcileWrite(p) \/ save(p)
    \/ ModifyLoad(p) \/ ModifyReconcileWrite(p) \/ ModifyWrite(p)

StopStep(p) ==
    \/ StopAlreadyExited(p) \/ StopSignal(p) \/ StopExited(p) \/ StopTimeout(p)

BoxStep(p, b) ==
    \/ Reject(p, b) \/ start_one(p, b) \/ stop_one(p, b) \/ kill_one(p, b)
    \/ SetPaused(p, b) \/ SetRunning(p, b) \/ KillOther(p, b)
    \/ rm_one(p, b) \/ PruneOne(p, b) \/ TouchOne(p, b)

CliStep(p) ==
    \/ StateFileStep(p) \/ StopStep(p) \/ BootFail(p)
    \/ \E q \in Pids : BootCommand(p, q) \/ BootRun(p, q)
    \/ \E b \in Boxes : BoxStep(p, b)
    \/ RunAdd(p) \/ RunAttach(p) \/ RunStopped(p)
    \/ CreateRollback(p) \/ rollback_booted_setup(p)
    \/ cleanup_partial_box_record(p) \/ Finish(p)

MonitorStep ==
    \/ StateFileStep(Monitor) \/ StopStep(Monitor) \/ BootFail(Monitor)
    \/ \E q \in Pids : BootMonitor(q)
    \/ MonitorPoll \/ MonitorDue \/ MonitorCandidates \/ MonitorSleep
    \/ \E b \in Boxes : MonitorBackOff(b) \/ MonitorRestart(b)
    \/ \E b \in Boxes, ok \in BOOLEAN : MonitorProbe(b, ok)

CheckerStep(c) ==
    \/ ModifyLoad(c) \/ ModifyReconcileWrite(c) \/ ModifyWrite(c) \/ CheckerQuit(c)
    \/ \E ok \in BOOLEAN : CheckerProbe(c, ok)

\* what users, the kernel and the guests do to the CLI
Environment ==
    \/ \E p \in Cli, b \in Boxes : InvokeCreate(p, b)
    \/ \E p \in Cli, b \in Boxes, o \in {"run", "runfg"} : InvokeRun(p, o, b)
    \/ \E p \in Cli, o \in Ops : Invoke(p, o)
    \/ \E p \in Cli, byUser \in BOOLEAN, code \in ExitCode : RunEnd(p, byUser, code)
    \/ \E p \in Cli \cup {Monitor} : Crash(p)
    \/ \E q \in Pids, code \in GuestCode : VmExit(q, code)
    \/ \E q \in Pids : VmCrash(q)

Next ==
    \/ \E p \in Cli : CliStep(p)
    \/ MonitorStep
    \/ \E c \in Checkers : CheckerStep(c)
    \/ Environment

Spec == Init /\ [][Next]_vars

(***************************************************************************)
(* Fairness: a scheduled process keeps stepping, except a command that     *)
(* waits for a guest: `stop`, `restart` and `kill` read the guest's answer *)
(* to signal_main without a limit.  flock is granted eventually to a       *)
(* process that keeps waiting (the kernel queues waiters); a backoff delay *)
(* is finite (RestartBackoff), so the monitor does not postpone the same   *)
(* box for ever.  Nothing is assumed of boots, guests, users or crashes.   *)
(***************************************************************************)
AwaitsGuest(p) ==
    \/ pc[p] = "signal" /\ LivePid(mem[p][cur[p]])
    \/ pc[p] = "pick" /\ op[p] \in Kills /\ todo[p] # {}

Fairness ==
    /\ \A p \in Cli : /\ WF_vars(~AwaitsGuest(p) /\ CliStep(p))
                      /\ SF_vars(ModifyLoad(p) \/ save(p))
    /\ WF_vars(MonitorStep) /\ SF_vars(ModifyLoad(Monitor))
    /\ \A b \in Boxes : SF_vars(MonitorRestart(b))
    /\ \A c \in Checkers : WF_vars(StateFileStep(c))

FairSpec == Spec /\ Fairness

-----------------------------------------------------------------------------
(* Properties.                                                             *)

\* What every reader of a record relies on, whichever races produced it, given
\* the VMs v.
GoodRecord(v, b, r) ==
    /\ is_active(r) <=> r.pid # 0
    /\ r.pid # 0 => r.pid \in Pids /\ v[r.pid].state # "free" /\ v[r.pid].box = b
    /\ is_active(r) => ~r.byUser /\ r.exit = "none"
    /\ r.status \in {"created", "dead"} => r.health = "none" /\ r.retries = 0
    /\ r.health = "unhealthy" => r.retries >= Retries
    /\ r.health \in {"starting", "healthy"} => r.retries = 0 \/ r.retries < Retries
    /\ b \notin HasCheck => r.health = "none" /\ r.retries = 0
    /\ r.status = "absent" => r = NoRecord

GoodSnapshot(v, s) == \A b \in Boxes : GoodRecord(v, b, s[b])

\* No interleaving of commands, monitor, checkers, crashes and VM deaths ever
\* leaves in boxes.json, or in any process's copy, a record that contradicts
\* itself: a pid without an active status (or the reverse), a pid of another
\* box's VM, a running box still marked stopped by the user or with an exit
\* code, a health verdict without its failures.
RecordsConsistent ==
    /\ GoodSnapshot(vms, file)
    /\ \A p \in Procs : GoodSnapshot(vms, mem[p]) /\ GoodSnapshot(vms, buf[p])

\* The flock is held exactly by a process inside `modify`; a killed holder
\* frees it (StateLock).
LockHeldInModify ==
    \A p \in Procs : lock = p <=> pc[p] \in {"mrwrite", "mwrite"}

Quiet == \A p \in Cli \cup {Monitor} : pc[p] \in {"idle", "attached"}

\* Between two commands (and polls) of sequential use, each VM nobody told to
\* stop is the recorded process of its box, so none is orphaned and no box runs
\* twice (boot_from_record, apply_boot_result, rm_one, graceful_stop).
VmsTracked ==
    Quiet => \A q \in Pids : vms[q].state \in {"up", "frozen"} =>
                                file[vms[q].box].pid = q

\* Sequential use leaves no VM frozen under a record that is not paused
\* (`pause`, `unpause`, resume_paused_for_termination).
FrozenIsPaused ==
    Quiet => \A q \in Pids : vms[q].state = "frozen" =>
                                file[vms[q].box].status = "paused"

\* max_restart_count bounds the monitor's restarts between two user starts, although
\* the monitor decides on the snapshot loaded before its probes and stops, and a
\* command writes older snapshots back meanwhile (should_restart, poll_once).  It
\* holds with at most one command at a time and no health checker of a foreground
\* process: a second command, or a command and a checker, can put the older, higher
\* count back between the monitor's decision and its increment.
RestartsBounded ==
    \A b \in Boxes : MaxRestart[b] > 0 => file[b].count <= MaxRestart[b]

\* A command issued ends: no lock, no wait and no retry keeps it for ever, but for
\* a guest that does not answer signal_main (graceful_stop_via_guest,
\* deliver_signal_via_guest).  A foreground `run` lasts as long as its VM.
CommandsEnd ==
    \A p \in Cli : pc[p] # "idle" ~> pc[p] \in {"idle", "attached"} \/ AwaitsGuest(p)

\* A dead box whose policy asks for a restart is eventually booted again by the
\* monitor, whatever the backoff and the lock do (poll_once).
DeadBoxesRetried ==
    \A b \in Boxes : pending_restart(b, file[b])
                        ~> \/ pc[Monitor] = "boot" /\ cur[Monitor] = b
                           \/ ~pending_restart(b, file[b])
=============================================================================
