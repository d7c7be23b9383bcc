--------------------------- MODULE BoxState_proofs ---------------------------
(***************************************************************************)
(* Type correctness, mutual exclusion of `modify` and the consistency of   *)
(* every box record, for any number of boxes, commands, checkers and VMs.  *)
(***************************************************************************)
EXTENDS BoxState, TLAPS

-----------------------------------------------------------------------------
(* The functions on one record.                                            *)

\* VMs w come after VMs v: a process id, once used, stays with its box.
Grown(v, w) ==
    \A q \in Pids : v[q].state # "free" => w[q].state # "free" /\ w[q].box = v[q].box

\* A good record stays good while VMs come and go.
LEMMA GoodStable ==
    ASSUME NEW v, NEW w, Grown(v, w), NEW b, NEW r, GoodRecord(v, b, r)
    PROVE  GoodRecord(w, b, r)
    BY DEF GoodRecord, Grown

\* health_retries = 0 is in range, and so is its saturating increment.
LEMMA RetriesFacts ==
    /\ 0 \in 0..RetryCap
    /\ \A n \in 0..RetryCap : Saturating(n) \in 0..RetryCap
    BY RecordAssumption DEF Saturating

\* The record that `create` writes, and the absent record, are good.
LEMMA NewGood ==
    ASSUME NEW v, NEW b
    PROVE  /\ NewRecord \in Record /\ GoodRecord(v, b, NewRecord)
           /\ NoRecord \in Record /\ GoodRecord(v, b, NoRecord)
    BY RecordAssumption, RetriesFacts DEF Record, NewRecord, NoRecord, GoodRecord, is_active, Status, Health, ExitCode

\* Reconciling a good record gives a good record.
LEMMA ReconcileGood ==
    ASSUME NEW v, NEW b \in Boxes, NEW r \in Record, GoodRecord(v, b, r),
           NEW alive, NEW code \in ExitCode
    PROVE  /\ ReconcileRecord(b, r, alive, code) \in Record
           /\ GoodRecord(v, b, ReconcileRecord(b, r, alive, code))
<1>1. MarkDead(r, code) \in Record /\ GoodRecord(v, b, MarkDead(r, code))
    BY RecordAssumption, RetriesFacts
    DEF MarkDead, Record, GoodRecord, is_active, Status, Health, ExitCode
<1> QED  BY <1>1, NewGood DEF ReconcileRecord

\* A boot result that carries a VM of the box gives a good record.
LEMMA BootGood ==
    ASSUME NEW v, NEW b \in Boxes, NEW r \in Record, NEW q \in Pids,
           v[q].state # "free", v[q].box = b,
           NEW update \in {"Reset", "Preserve", "Increment"}
    PROVE  /\ apply_boot_result(b, r, q, update) \in Record
           /\ GoodRecord(v, b, apply_boot_result(b, r, q, update))
<1>1. RestartCount(r, update) \in Nat
    BY DEF RestartCount, Record
<1>2. q \in Nat /\ q # 0
    BY StateAssumption DEF Pids
<1> QED  BY <1>1, <1>2, RecordAssumption
         DEF apply_boot_result, Record, GoodRecord, is_active, Status, Health, ExitCode

\* `stop` and `kill` leave a good record.
LEMMA StopGood ==
    ASSUME NEW v, NEW b \in Boxes, NEW r \in Record, GoodRecord(v, b, r), NEW code \in ExitCode
    PROVE  MarkStopped(r, code) \in Record /\ GoodRecord(v, b, MarkStopped(r, code))
    BY RecordAssumption, RetriesFacts
    DEF MarkStopped, Record, GoodRecord, is_active, Status, Health, ExitCode

\* So do the first half of `restart` and the monitor on an unhealthy box.
LEMMA DownGood ==
    ASSUME NEW v, NEW b \in Boxes, NEW r \in Record, GoodRecord(v, b, r)
    PROVE  /\ MarkRestarting(r) \in Record /\ GoodRecord(v, b, MarkRestarting(r))
           /\ MarkUnhealthyDead(r) \in Record /\ GoodRecord(v, b, MarkUnhealthyDead(r))
<1> USE RecordAssumption, RetriesFacts DEF Record, GoodRecord, is_active, Status, Health
<1>1. MarkRestarting(r) \in Record /\ GoodRecord(v, b, MarkRestarting(r))
    BY DEF MarkRestarting
<1>2. MarkUnhealthyDead(r) \in Record /\ GoodRecord(v, b, MarkUnhealthyDead(r))
    BY DEF MarkUnhealthyDead
<1> QED  BY <1>1, <1>2

\* So does the end of a foreground `run`.
LEMMA RunStoppedGood ==
    ASSUME NEW v, NEW b \in Boxes, NEW r \in Record, GoodRecord(v, b, r),
           NEW code \in ExitCode, NEW byUser \in BOOLEAN
    PROVE  /\ mark_record_stopped(r, code, byUser) \in Record
           /\ GoodRecord(v, b, mark_record_stopped(r, code, byUser))
    BY RecordAssumption, RetriesFacts
    DEF mark_record_stopped, Record, GoodRecord, is_active, Status, Health, ExitCode

\* A probe verdict on a box with a health check gives a good record.
LEMMA ProbeGood ==
    ASSUME NEW v, NEW b \in HasCheck, NEW r \in Record, GoodRecord(v, b, r), NEW ok \in BOOLEAN
    PROVE  /\ apply_probe_result(b, r, ok) \in Record
           /\ GoodRecord(v, b, apply_probe_result(b, r, ok))
<1> USE RecordAssumption DEF Record, Status, Health
<1>1. Saturating(r.retries) \in 0..RetryCap
    BY RetriesFacts
<1>2. apply_probe_result(b, r, ok) \in Record
    BY <1>1, RetriesFacts DEF apply_probe_result
<1>3. GoodRecord(v, b, apply_probe_result(b, r, ok))
    BY DEF apply_probe_result, GoodRecord, is_active, Saturating
<1> QED  BY <1>2, <1>3

\* Pausing and resuming an active box.
LEMMA PauseGood ==
    ASSUME NEW v, NEW b \in Boxes, NEW r \in Record, GoodRecord(v, b, r), is_active(r),
           NEW s \in {"running", "paused"}
    PROVE  /\ [r EXCEPT !.status = s] \in Record
           /\ GoodRecord(v, b, [r EXCEPT !.status = s])
    BY RecordAssumption DEF Record, GoodRecord, is_active, Status, Health, ExitCode

-----------------------------------------------------------------------------
(* The inductive invariant.                                                *)

\* Types of everything but the three copies of the records.
RestOK ==
    /\ lock \in Procs \cup {NoProc}
    /\ vms \in [Pids -> Vm]
    /\ disk \in [Boxes -> {"nodir", "none"} \cup GuestCode]
    /\ used \subseteq Boxes
    /\ ops \in Nat
    /\ pc \in [Procs -> PC]
    /\ op \in [Procs -> AllOps \cup {"none", "rollback", "fgend", "end"}]
    /\ todo \in [Procs -> SUBSET Boxes]
    /\ cur \in [Procs -> Boxes \cup {NoBox}]
    /\ clo \in [Procs -> Closure]
    /\ owner \in [Checkers -> Cli \cup {Monitor, NoProc}]

\* A well-typed, consistent snapshot.
Snap(v, s) == s \in Snapshot /\ GoodSnapshot(v, s)

\* Each copy of the records is one: the file's, the commands', modify's.
Copies(v, f, m, k) ==
    /\ Snap(v, f)
    /\ m \in [Procs -> Snapshot]
    /\ k \in [Procs -> Snapshot]
    /\ \A p \in Procs : Snap(v, m[p]) /\ Snap(v, k[p])

Modifying(p) == pc[p] \in {"lock", "mrwrite", "mwrite"}

\* Only commands have an op; where a process needs its box, it has one.
HasBoxAt(p) ==
    /\ p \notin Cli => op[p] = "none"
    /\ op[p] \in {"create", "run", "runfg", "rollback", "fgend", "end"} => cur[p] \in Boxes
    /\ pc[p] \in {"boot", "signal", "await", "save", "attach", "attached"} => cur[p] \in Boxes
    /\ pc[p] \in {"signal", "await"} => op[p] \in {"stop", "restart", "none"}
    /\ Modifying(p) => cur[p] \in Boxes
    /\ pc[p] = "sleep" => p \in Checkers
    /\ p \in Checkers /\ pc[p] # "idle" => cur[p] \in HasCheck

\* A closure exists from the call of `modify` to its end; a captured pid is that
\* of a VM of the box in hand; probes are of boxes with a health check.
ClosureGoodAt(p) ==
    /\ clo[p].f # "none" => Modifying(p)
    /\ clo[p].f = "boot" => clo[p].pid # 0
    /\ clo[p].f = "probe" => cur[p] \in HasCheck
    /\ clo[p].pid # 0 =>
          /\ clo[p].pid \in Pids
          /\ vms[clo[p].pid].state # "free"
          /\ vms[clo[p].pid].box = cur[p]
          /\ \/ op[p] \in {"run", "runfg", "fgend"} /\ pc[p] \in {"load", "rwrite", "pick"}
             \/ p = Monitor /\ Modifying(p)
    /\ op[p] = "fgend" => clo[p].pid # 0

\* A foreground run that is attached has its VM's pid in its snapshot.
AttachedAt(p) ==
    pc[p] \in {"attach", "attached"} \/ (pc[p] = "save" /\ op[p] = "runfg")
        => mem[p][cur[p]].pid # 0

LocalOK(p) == HasBoxAt(p) /\ ClosureGoodAt(p) /\ AttachedAt(p)

\* The monitor probes only boxes with a health check.
MonitorProbes ==
    pc[Monitor] = "probes" \/ clo[Monitor].f = "probe" => todo[Monitor] \subseteq HasCheck

Side == (\A p \in Procs : LocalOK(p)) /\ MonitorProbes

Inv == RestOK /\ Copies(vms, file, mem, buf) /\ LockHeldInModify /\ Side

\* Processes of different kinds are different processes.
LEMMA ProcFacts ==
    /\ Monitor \in Procs /\ Monitor \notin Cli /\ Monitor \notin Checkers
    /\ Monitor # NoProc
    /\ \A p \in Cli : p \in Procs /\ p # Monitor /\ p \notin Checkers /\ p # NoProc
    /\ \A c \in Checkers : c \in Procs /\ c # Monitor /\ c \notin Cli /\ c # NoProc
    BY StateAssumption DEF Procs

\* A process id is a positive number.
LEMMA PidFacts == \A q \in Pids : q \in Nat /\ q # 0
    BY StateAssumption DEF Pids

-----------------------------------------------------------------------------
(* Types.                                                                  *)

\* The process ids and what a boot makes of them.
LEMMA StartVmType ==
    ASSUME RestOK, NEW q \in Pids, NEW b \in Boxes \cup {NoBox}, StartVm(q, b)
    PROVE  /\ vms' \in [Pids -> Vm]
           /\ disk' \in [Boxes -> {"nodir", "none"} \cup GuestCode]
    BY DEF RestOK, StartVm, Vm, ExitCode

\* Every step of reading and writing boxes.json is well typed.
LEMMA StateFileType ==
    ASSUME RestOK, NEW p \in Procs, StateFileStep(p)
    PROVE  RestOK'
<1> USE DEF RestOK, PC
<1>1. CASE Load(p)
    BY <1>1 DEF Load, ReconciledDisk, shared
<1>2. CASE ReconcileWrite(p) \/ ModifyReconcileWrite(p)
    BY <1>2 DEF ReconcileWrite, ModifyReconcileWrite
<1>3. CASE save(p)
    BY <1>3 DEF save
<1>4. CASE ModifyLoad(p)
    BY <1>4 DEF ModifyLoad, Acquire, ReconciledDisk
<1>5. CASE ModifyWrite(p)
  <2>1. AfterModify(p) \in PC
      BY DEF AfterModify
  <2>2. NoClosure \in Closure
      BY DEF NoClosure, Closure
  <2> QED  BY <1>5, <2>1, <2>2 DEF ModifyWrite, Release
<1> QED  BY <1>1, <1>2, <1>3, <1>4, <1>5 DEF StateFileStep

\* Choosing a closure, and capturing a pid for it.
LEMMA ClosureType ==
    ASSUME NEW k \in [Procs -> Closure], NEW p \in Procs,
           NEW g \in {"none", "add", "remove", "probe", "dead", "boot"}
    PROVE  [k EXCEPT ![p].f = g] \in [Procs -> Closure]
    BY DEF Closure

\* The captured pid is a number.
LEMMA CaptureType ==
    ASSUME NEW k \in [Procs -> Closure], NEW p \in Procs, NEW n \in Nat
    PROVE  [k EXCEPT ![p].pid = n] \in [Procs -> Closure]
    BY DEF Closure

VmState == {"free", "up", "frozen", "dying", "gone"}

\* Moving a VM to another state.
LEMMA VmType ==
    ASSUME NEW v \in [Pids -> Vm], NEW q \in Pids, NEW s \in VmState
    PROVE  [v EXCEPT ![q].state = s] \in [Pids -> Vm]
    BY DEF Vm, VmState

\* A VM that ends with an exit code.
LEMMA VmEnded ==
    ASSUME NEW v \in [Pids -> Vm], NEW q \in Pids, NEW code \in ExitCode
    PROVE  [v EXCEPT ![q].state = "gone", ![q].code = code] \in [Pids -> Vm]
<1> DEFINE u == [v EXCEPT ![q].state = "gone"]
<1>1. u \in [Pids -> Vm]
    BY VmType DEF VmState
<1>2. [u EXCEPT ![q].code = code] \in [Pids -> Vm]
  <2> HIDE DEF u
  <2> QED  BY <1>1 DEF Vm
<1> QED  BY <1>2

\* What a signal makes of the state of a VM.
LEMMA SignalType ==
    ASSUME NEW v \in [Pids -> Vm], NEW q \in Pids
    PROVE  /\ v[q].state \in VmState
           /\ Terminating(v[q].state) \in VmState
           /\ Resumed(v[q].state) \in VmState
    BY DEF Vm, VmState, Terminating, Resumed

\* The graceful stop: only its own process and the VM it stops.
LEMMA StopType ==
    ASSUME RestOK, NEW p \in Procs, StopStep(p)
    PROVE  RestOK'
<1> USE DEF RestOK, PC, Goto
<1>1. ASSUME NEW code, StopDone(p, code)
      PROVE  /\ pc' \in [Procs -> PC]
             /\ clo' \in [Procs -> Closure]
             /\ disk' \in [Boxes -> {"nodir", "none"} \cup GuestCode]
  <2>1. pc' \in [Procs -> PC]
      BY <1>1 DEF StopDone
  <2>2. clo' \in [Procs -> Closure]
    <3>1. clo' = clo \/ clo' = [clo EXCEPT ![p].f = "dead"]
        BY <1>1 DEF StopDone
    <3>2. [clo EXCEPT ![p].f = "dead"] \in [Procs -> Closure]
        BY ClosureType
    <3> QED  BY <3>1, <3>2
  <2>3. disk' \in [Boxes -> {"nodir", "none"} \cup GuestCode]
      BY <1>1 DEF StopDone
  <2> QED  BY <2>1, <2>2, <2>3
<1>2. CASE StopAlreadyExited(p)
    BY <1>1, <1>2 DEF StopAlreadyExited, shared
<1>3. CASE StopSignal(p)
  <2> DEFINE q == mem[p][cur[p]].pid
  <2>1. q \in Pids
      BY <1>3 DEF StopSignal, LivePid, is_process_alive
  <2>2. vms' = [vms EXCEPT ![q].state = Terminating(vms[q].state)]
      BY <1>3 DEF StopSignal
  <2>3. vms' \in [Pids -> Vm]
      BY <2>1, <2>2, VmType, SignalType
  <2> QED  BY <1>3, <2>3 DEF StopSignal, shared
<1>4. CASE StopExited(p)
    BY <1>1, <1>4 DEF StopExited, shared
<1>5. CASE StopTimeout(p)
    BY <1>1, <1>5 DEF StopTimeout, SetVm, shared, Vm
<1> QED  BY <1>2, <1>3, <1>4, <1>5 DEF StopStep

\* Spawning a health checker.
LEMMA SpawnType ==
    ASSUME RestOK, NEW p \in Cli \cup {Monitor}, NEW b \in Boxes \cup {NoBox}, NEW next \in PC,
           SpawnAndGo(p, b, next)
    PROVE  /\ pc' \in [Procs -> PC]
           /\ cur' \in [Procs -> Boxes \cup {NoBox}]
           /\ owner' \in [Checkers -> Cli \cup {Monitor, NoProc}]
    BY ProcFacts DEF RestOK, PC, SpawnAndGo

\* The boots.
LEMMA BootType ==
    ASSUME RestOK, NEW p \in Cli \cup {Monitor}, NEW q \in Pids,
           BootCommand(p, q) \/ BootRun(p, q) \/ (p = Monitor /\ BootMonitor(q)) \/ BootFail(p)
    PROVE  RestOK'
<1>0. p \in Procs /\ cur[p] \in Boxes \cup {NoBox}
    BY ProcFacts DEF RestOK
<1>1. CASE BootCommand(p, q)
  <2>1. SpawnAndGo(p, cur[p], "save") /\ StartVm(q, cur[p])
      BY <1>1 DEF BootCommand
  <2>2. "save" \in PC
      BY DEF PC
  <2> QED  BY <1>0, <1>1, <2>1, <2>2, StartVmType, SpawnType DEF BootCommand, RestOK, shared
<1>2. CASE BootRun(p, q)
  <2>1. clo' \in [Procs -> Closure]
      BY <1>0, <1>2, PidFacts, CaptureType DEF BootRun, RestOK
  <2> QED  BY <1>0, <1>2, <2>1, StartVmType DEF BootRun, RestOK, PC, shared
<1>3. CASE p = Monitor /\ BootMonitor(q)
  <2>1. SpawnAndGo(p, cur[p], "lock") /\ StartVm(q, cur[p])
      BY <1>3 DEF BootMonitor
  <2>2. "lock" \in PC
      BY DEF PC
  <2>3. clo' \in [Procs -> Closure]
      BY <1>0, <1>3, PidFacts DEF BootMonitor, RestOK, Closure
  <2> QED  BY <1>0, <1>3, <2>1, <2>2, <2>3, StartVmType, SpawnType DEF BootMonitor, RestOK, shared
<1>4. CASE BootFail(p)
    BY <1>0, <1>4 DEF BootFail, RestOK, PC, shared
<1> QED  BY <1>1, <1>2, <1>3, <1>4

\* The end of a process, by itself or by a signal.
LEMMA ExitType ==
    ASSUME RestOK, NEW p \in Procs, Exit(p)
    PROVE  RestOK'
<1>1. NoClosure \in Closure
    BY DEF NoClosure, Closure
<1> QED  BY <1>1 DEF RestOK, Exit, Release, PC

\* The calls of commands.
LEMMA InvokeType ==
    ASSUME RestOK, NEW p \in Procs,
           \/ \E b \in Boxes : InvokeCreate(p, b) \/ \E o \in AllOps : InvokeRun(p, o, b)
           \/ \E o \in AllOps : Invoke(p, o)
    PROVE  RestOK'
<1> USE DEF RestOK, PC, Issue
<1>1. ASSUME NEW b \in Boxes, InvokeCreate(p, b)
      PROVE  RestOK'
    BY <1>1 DEF InvokeCreate, AllOps, Closure
<1>2. ASSUME NEW b \in Boxes, NEW o \in AllOps, InvokeRun(p, o, b)
      PROVE  RestOK'
    BY <1>2 DEF InvokeRun
<1>3. ASSUME NEW o \in AllOps, Invoke(p, o)
      PROVE  RestOK'
  <2>1. \A s \in Arguments(o) : s \in SUBSET Boxes
      BY DEF Arguments
  <2> QED  BY <1>3, <2>1 DEF Invoke
<1> QED  BY <1>1, <1>2, <1>3

\* A command's work on one of its boxes.
LEMMA BoxStepType ==
    ASSUME RestOK, NEW p \in Procs, NEW b \in Boxes, BoxStep(p, b)
    PROVE  RestOK'
<1> USE DEF RestOK, PC, Goto, shared
<1>0. ASSUME NEW os, Handle(p, b, os)
      PROVE  todo' \in [Procs -> SUBSET Boxes] /\ cur' \in [Procs -> Boxes \cup {NoBox}]
    BY <1>0 DEF Handle
<1>1. CASE Reject(p, b)
    BY <1>1 DEF Reject
<1>2. CASE start_one(p, b) \/ KillOther(p, b) \/ PruneOne(p, b) \/ TouchOne(p, b)
    BY <1>0, <1>2 DEF start_one, KillOther, PruneOne, TouchOne
<1>3. CASE stop_one(p, b)
  <2> DEFINE q == mem[p][b].pid
  <2>1. q \in Pids
      BY <1>3 DEF stop_one, Handle, Accepts, LivePid, is_process_alive, Inactive, is_active
  <2>2. vms' = vms \/ vms' = [vms EXCEPT ![q].state = Resumed(vms[q].state)]
      BY <1>3 DEF stop_one
  <2>3. vms' \in [Pids -> Vm]
      BY <2>1, <2>2, VmType, SignalType
  <2> QED  BY <1>0, <1>3, <2>3 DEF stop_one
<1>4. CASE kill_one(p, b)
  <2> DEFINE q == mem[p][b].pid
             s == IF op[p] = "killkill" /\ vms[q].state = "frozen" THEN "gone"
                  ELSE IF op[p] = "killkill" \/ mem[p][b].status = "paused" THEN "dying"
                  ELSE Terminating(vms[q].state)
  <2>1. q \in Pids
      BY <1>4 DEF kill_one, Handle, Accepts, LivePid, is_process_alive, Kills
  <2>2. s \in VmState
      BY <2>1, SignalType DEF VmState
  <2>3. vms' = [vms EXCEPT ![q].state = s]
      BY <1>4 DEF kill_one
  <2>4. vms' \in [Pids -> Vm]
      BY <2>1, <2>2, <2>3, VmType
  <2>5. disk' \in [Boxes -> {"nodir", "none"} \cup GuestCode]
      BY <1>4 DEF kill_one
  <2> QED  BY <1>0, <1>4, <2>4, <2>5 DEF kill_one
<1>5. CASE SetPaused(p, b) \/ SetRunning(p, b)
  <2> DEFINE q == mem[p][b].pid
  <2>1. q \in Pids
      BY <1>5 DEF SetPaused, SetRunning, Handle, Accepts, LivePid, is_process_alive, Kills
  <2>2. \/ vms' = vms
        \/ vms' = [vms EXCEPT ![q].state = "frozen"]
        \/ vms' = [vms EXCEPT ![q].state = Resumed(vms[q].state)]
      BY <1>5 DEF SetPaused, SetRunning
  <2>3. "frozen" \in VmState
      BY DEF VmState
  <2>4. vms' \in [Pids -> Vm]
      BY <2>1, <2>2, <2>3, VmType, SignalType
  <2> QED  BY <1>0, <1>5, <2>4 DEF SetPaused, SetRunning
<1>6. CASE rm_one(p, b)
  <2> DEFINE q == mem[p][b].pid
  <2>1. vms' = vms \/ (q \in Pids /\ vms' = [vms EXCEPT ![q].state = "gone"])
      BY <1>6 DEF rm_one, rm_vms, LivePid, is_process_alive
  <2>2. "gone" \in VmState
      BY DEF VmState
  <2>3. vms' \in [Pids -> Vm]
      BY <2>1, <2>2, VmType
  <2>4. clo' \in [Procs -> Closure]
      BY <1>6, ClosureType DEF rm_one
  <2> QED  BY <1>0, <1>6, <2>3, <2>4 DEF rm_one
<1> QED  BY <1>1, <1>2, <1>3, <1>4, <1>5, <1>6 DEF BoxStep

\* A run that is rolled back has booted a VM of its box.
LEMMA RollbackPid ==
    ASSUME Inv, NEW p \in Procs, rollback_booted_setup(p)
    PROVE  mem[p][cur[p]].pid \in Pids
<1>1. cur[p] \in Boxes
    BY DEF rollback_booted_setup, Inv, Side, LocalOK, HasBoxAt
<1> QED  BY <1>1 DEF rollback_booted_setup, Inv, Copies, Snap, GoodSnapshot, GoodRecord

\* `run` after its boot, and the rollbacks of `create` and `run`.
LEMMA RunType ==
    ASSUME Inv, NEW p \in Cli,
           \/ RunAdd(p) \/ RunAttach(p) \/ RunStopped(p)
           \/ \E byUser \in BOOLEAN, code \in ExitCode : RunEnd(p, byUser, code)
           \/ CreateRollback(p) \/ rollback_booted_setup(p) \/ cleanup_partial_box_record(p)
    PROVE  RestOK'
<1> USE DEF Inv
<1>0. p \in Procs /\ cur[p] \in Boxes \cup {NoBox} /\ NoClosure \in Closure
    BY ProcFacts DEF RestOK, NoClosure, Closure
<1>1. CASE RunAttach(p)
  <2>1. "attached" \in PC
      BY DEF PC
  <2> QED  BY <1>0, <1>1, <2>1, SpawnType DEF RunAttach, RestOK, shared
<1>2. CASE RunAdd(p)
    BY <1>0, <1>2 DEF RunAdd, RestOK, PC, Goto, shared
<1>3. CASE RunStopped(p)
    BY <1>0, <1>3 DEF RunStopped, RestOK, PC, Goto, shared
<1>4. ASSUME NEW byUser \in BOOLEAN, NEW code \in ExitCode, RunEnd(p, byUser, code)
      PROVE  RestOK'
  <2> DEFINE q == mem[p][cur[p]].pid
  <2>1. vms' = [vms EXCEPT ![q].state = "gone", ![q].code = code]
      BY <1>4 DEF RunEnd
  <2>0. q \in Pids
      BY <1>0, <1>4 DEF RunEnd, Side, LocalOK, HasBoxAt, AttachedAt, Copies, Snap, GoodSnapshot, GoodRecord
  <2>2. vms' \in [Pids -> Vm]
      BY <2>0, <2>1, VmEnded DEF RestOK
  <2>3. op' \in [Procs -> AllOps \cup {"none", "rollback", "fgend", "end"}]
      BY <1>0, <1>4 DEF RunEnd, RestOK
  <2>4. /\ pc' \in [Procs -> PC]
        /\ cur' \in [Procs -> Boxes \cup {NoBox}]
        /\ owner' \in [Checkers -> Cli \cup {Monitor, NoProc}]
      BY <1>0, <1>4 DEF RunEnd, RestOK, PC
  <2>5. clo' \in [Procs -> Closure]
      BY <1>0, <1>4, <2>0, PidFacts DEF RunEnd, RestOK, Closure
  <2> QED  BY <1>4, <2>2, <2>3, <2>4, <2>5 DEF RunEnd, RestOK, shared
<1>5. CASE CreateRollback(p)
    BY <1>0, <1>5 DEF CreateRollback, RestOK, PC, Goto, shared
<1>6. CASE cleanup_partial_box_record(p)
    BY <1>0, <1>6 DEF cleanup_partial_box_record, RestOK, PC, Goto, shared
<1>7. CASE rollback_booted_setup(p)
  <2> DEFINE q == mem[p][cur[p]].pid
  <2>1. q \in Pids
      BY <1>0, <1>7, RollbackPid
  <2>2. vms' \in [Pids -> Vm]
      BY <1>7, <2>1, VmType DEF rollback_booted_setup, SetVm, RestOK, VmState
  <2> QED  BY <1>0, <1>7, <2>2 DEF rollback_booted_setup, RestOK, PC, Goto, shared
<1> QED  BY <1>1, <1>2, <1>3, <1>4, <1>5, <1>6, <1>7

\* The monitor's own steps and the health checkers'.
LEMMA MonitorType ==
    ASSUME RestOK,
           \/ MonitorPoll \/ MonitorDue \/ MonitorCandidates \/ MonitorSleep
           \/ \E b \in Boxes : MonitorBackOff(b) \/ MonitorRestart(b)
           \/ \E b \in Boxes, ok \in BOOLEAN : MonitorProbe(b, ok)
           \/ \E c \in Checkers : CheckerQuit(c) \/ \E ok \in BOOLEAN : CheckerProbe(c, ok)
    PROVE  RestOK'
<1> USE ProcFacts DEF RestOK, PC, Goto, shared
<1>1. CASE MonitorPoll \/ MonitorCandidates \/ MonitorSleep
    BY <1>1 DEF MonitorPoll, MonitorCandidates, Candidates, MonitorSleep
<1>2. CASE MonitorDue
  <2>1. \A s \in SUBSET {b \in HasCheck : mem[Monitor][b].status = "running"} : s \in SUBSET Boxes
      BY RecordAssumption
  <2> QED  BY <1>2, <2>1 DEF MonitorDue
<1>3. ASSUME NEW b \in Boxes, MonitorBackOff(b) \/ MonitorRestart(b)
      PROVE  RestOK'
    BY <1>3 DEF MonitorBackOff, MonitorRestart, MonitorTake
<1>4. ASSUME NEW b \in Boxes, NEW ok \in BOOLEAN, MonitorProbe(b, ok)
      PROVE  RestOK'
    BY <1>4 DEF MonitorProbe, Closure
<1>5. ASSUME NEW c \in Checkers, CheckerQuit(c)
      PROVE  RestOK'
    BY <1>5 DEF CheckerQuit
<1>6. ASSUME NEW c \in Checkers, NEW ok \in BOOLEAN, CheckerProbe(c, ok)
      PROVE  RestOK'
    BY <1>6 DEF CheckerProbe, Closure
<1> QED  BY <1>1, <1>2, <1>3, <1>4, <1>5, <1>6

\* A VM's own end.
LEMMA VmEndType ==
    ASSUME RestOK, NEW q \in Pids, VmCrash(q) \/ \E code \in GuestCode : VmExit(q, code)
    PROVE  RestOK'
<1>1. CASE VmCrash(q)
  <2>1. "gone" \in VmState
      BY DEF VmState
  <2> QED  BY <1>1, <2>1, VmType DEF VmCrash, SetVm, RestOK, shared, local
<1>2. ASSUME NEW code \in GuestCode, VmExit(q, code)
      PROVE  RestOK'
  <2>1. vms' \in [Pids -> Vm]
      BY <1>2, VmEnded DEF VmExit, RestOK, ExitCode
  <2>2. disk' \in [Boxes -> {"nodir", "none"} \cup GuestCode]
      BY <1>2 DEF VmExit, RestOK
  <2> QED  BY <1>2, <2>1, <2>2 DEF VmExit, RestOK, shared, local
<1> QED  BY <1>1, <1>2

\* Every step is well typed.
LEMMA NextType == Inv /\ [Next]_vars => RestOK'
<1> SUFFICES ASSUME Inv, [Next]_vars
             PROVE  RestOK'
    OBVIOUS
<1> USE DEF Inv
<1>1. ASSUME NEW p \in Cli, CliStep(p)
      PROVE  RestOK'
  <2>1. p \in Procs /\ p \in Cli \cup {Monitor}
      BY ProcFacts
  <2>2. CASE StateFileStep(p) \/ StopStep(p)
      BY <2>1, <2>2, StateFileType, StopType
  <2>3. CASE BootFail(p)
      BY <2>1, <2>3 DEF BootFail, RestOK, PC, shared
  <2>4. CASE \E q \in Pids : BootCommand(p, q) \/ BootRun(p, q)
      BY <2>1, <2>4, BootType
  <2>5. CASE \E b \in Boxes : BoxStep(p, b)
      BY <2>1, <2>5, BoxStepType
  <2>6. CASE \/ RunAdd(p) \/ RunAttach(p) \/ RunStopped(p)
             \/ CreateRollback(p) \/ rollback_booted_setup(p) \/ cleanup_partial_box_record(p)
      BY <2>6, RunType
  <2>7. CASE Finish(p)
      BY <2>1, <2>7, ExitType DEF Finish
  <2> QED  BY <1>1, <2>2, <2>3, <2>4, <2>5, <2>6, <2>7 DEF CliStep
<1>2. CASE MonitorStep
  <2>1. Monitor \in Procs /\ Monitor \in Cli \cup {Monitor}
      BY ProcFacts
  <2>2. CASE StateFileStep(Monitor) \/ StopStep(Monitor)
      BY <2>1, <2>2, StateFileType, StopType
  <2>3. CASE BootFail(Monitor)
      BY <2>1, <2>3 DEF BootFail, RestOK, PC, shared
  <2>4. CASE \E q \in Pids : BootMonitor(q)
      BY <2>1, <2>4, BootType
  <2>5. CASE \/ MonitorPoll \/ MonitorDue \/ MonitorCandidates \/ MonitorSleep
             \/ \E b \in Boxes : MonitorBackOff(b) \/ MonitorRestart(b)
             \/ \E b \in Boxes, ok \in BOOLEAN : MonitorProbe(b, ok)
      BY <2>5, MonitorType
  <2> QED  BY <1>2, <2>2, <2>3, <2>4, <2>5 DEF MonitorStep
<1>3. ASSUME NEW c \in Checkers, CheckerStep(c)
      PROVE  RestOK'
  <2>1. c \in Procs
      BY ProcFacts
  <2>2. CASE ModifyLoad(c) \/ ModifyReconcileWrite(c) \/ ModifyWrite(c)
      BY <2>1, <2>2, StateFileType DEF StateFileStep
  <2> QED  BY <1>3, <2>2, MonitorType DEF CheckerStep
<1>4. CASE Environment
  <2>1. ASSUME NEW p \in Cli, NEW b \in Boxes, InvokeCreate(p, b)
        PROVE  RestOK'
      BY <2>1, ProcFacts, InvokeType
  <2>2. ASSUME NEW p \in Cli, NEW b \in Boxes, NEW o \in {"run", "runfg"}, InvokeRun(p, o, b)
        PROVE  RestOK'
    <3>1. o \in AllOps
        BY DEF AllOps
    <3> QED  BY <2>2, <3>1, ProcFacts, InvokeType
  <2>3. ASSUME NEW p \in Cli, NEW o \in Ops, Invoke(p, o)
        PROVE  RestOK'
      BY <2>3, ProcFacts, StateAssumption, InvokeType
  <2>4. ASSUME NEW p \in Cli, NEW byUser \in BOOLEAN, NEW code \in ExitCode, RunEnd(p, byUser, code)
        PROVE  RestOK'
      BY <2>4, RunType
  <2>5. ASSUME NEW p \in Cli \cup {Monitor}, Crash(p)
        PROVE  RestOK'
      BY <2>5, ProcFacts, ExitType DEF Crash
  <2>6. ASSUME NEW q \in Pids, VmCrash(q) \/ \E code \in GuestCode : VmExit(q, code)
        PROVE  RestOK'
      BY <2>6, VmEndType
  <2> QED  BY <1>4, <2>1, <2>2, <2>3, <2>4, <2>5, <2>6 DEF Environment
<1>5. CASE UNCHANGED vars
    BY <1>5 DEF RestOK, vars
<1> QED  BY <1>1, <1>2, <1>3, <1>4, <1>5 DEF Next

-----------------------------------------------------------------------------
(* Consistency of the records.                                             *)

\* Consistent copies stay so while VMs come and go ...
LEMMA CopiesGrown ==
    ASSUME NEW v, NEW w, Grown(v, w), NEW f, NEW m, NEW k, Copies(v, f, m, k)
    PROVE  Copies(w, f, m, k)
<1>1. ASSUME NEW s, Snap(v, s)
      PROVE  Snap(w, s)
    BY <1>1, GoodStable DEF Snap, GoodSnapshot
<1> QED  BY <1>1 DEF Copies

\* ... and when one of them is replaced by a consistent snapshot.
LEMMA CopiesPut ==
    ASSUME NEW v, NEW f, NEW m, NEW k, Copies(v, f, m, k), NEW s, Snap(v, s), NEW p \in Procs
    PROVE  /\ Copies(v, s, m, k)
           /\ Copies(v, f, [m EXCEPT ![p] = s], k)
           /\ Copies(v, f, m, [k EXCEPT ![p] = s])
    BY DEF Copies, Snap

\* A good record put into a consistent snapshot.
LEMMA SnapPut ==
    ASSUME NEW v, NEW s, Snap(v, s), NEW b \in Boxes, NEW r \in Record, GoodRecord(v, b, r)
    PROVE  Snap(v, Put(s, b, r))
    BY DEF Snap, Snapshot, GoodSnapshot, Put

\* A command that puts a good record into its own snapshot.
LEMMA MemPut ==
    ASSUME NEW v, NEW w, NEW f, NEW m, NEW k, Copies(v, f, m, k), Grown(v, w), NEW p \in Procs,
           NEW b \in Boxes, NEW n \in Record, GoodRecord(w, b, n)
    PROVE  Copies(w, f, [m EXCEPT ![p] = Put(@, b, n)], k)
<1>1. Copies(w, f, m, k)
    BY CopiesGrown
<1>2. Snap(w, m[p])
    BY <1>1 DEF Copies
<1>3. Snap(w, Put(m[p], b, n))
    BY <1>2, SnapPut
<1> QED  BY <1>1, <1>3, CopiesPut

\* The empty snapshot.
LEMMA SnapEmpty == \A v : Snap(v, Empty)
    BY NewGood DEF Snap, Snapshot, GoodSnapshot, Empty

\* load's reconciliation of the file.
LEMMA SnapReconcile ==
    ASSUME RestOK, NEW s, Snap(vms, s)
    PROVE  Snap(vms, reconcile(s))
<1>1. \A b \in Boxes : LeftCode(b) \in ExitCode
    BY DEF RestOK, LeftCode, ExitCode
<1>2. ASSUME NEW b \in Boxes
      PROVE  reconcile(s)[b] \in Record /\ GoodRecord(vms, b, reconcile(s)[b])
  <2>1. s[b] \in Record /\ GoodRecord(vms, b, s[b])
      BY DEF Snap, Snapshot, GoodSnapshot
  <2> QED  BY <1>1, <2>1, ReconcileGood DEF reconcile
<1>3. reconcile(s) = [b \in Boxes |-> reconcile(s)[b]]
    BY DEF reconcile
<1> QED  BY <1>2, <1>3 DEF Snap, Snapshot, GoodSnapshot

\* A VM that moves to another state than "free" keeps its box.
LEMMA GrownState ==
    ASSUME RestOK, NEW q, NEW s, s # "free"
    PROVE  Grown(vms, [vms EXCEPT ![q].state = s])
    BY DEF RestOK, Vm, Grown

\* A boot takes an id that no VM had.
LEMMA GrownStart ==
    ASSUME RestOK, NEW q \in Pids, NEW b, StartVm(q, b)
    PROVE  /\ Grown(vms, vms')
           /\ vms'[q].state # "free"
           /\ vms'[q].box = b
    BY DEF RestOK, StartVm, NextPid, Grown

\* So do the VMs that a stop, a command or the end of a foreground run signals.
LEMMA StopGrown ==
    ASSUME RestOK, NEW p \in Procs, StopStep(p)
    PROVE  Grown(vms, vms')
<1> DEFINE q == mem[p][cur[p]].pid
<1>1. CASE StopSignal(p)
  <2>1. vms' = [vms EXCEPT ![q].state = Terminating(vms[q].state)]
      BY <1>1 DEF StopSignal
  <2>2. Terminating(vms[q].state) # "free"
      BY <1>1 DEF StopSignal, LivePid, is_process_alive, Terminating
  <2> QED  BY <2>1, <2>2, GrownState
<1>2. CASE StopTimeout(p)
    BY <1>2, GrownState DEF StopTimeout, SetVm
<1>3. CASE StopAlreadyExited(p) \/ StopExited(p)
    BY <1>3 DEF StopAlreadyExited, StopExited, Grown
<1> QED  BY <1>1, <1>2, <1>3 DEF StopStep

\* A command's work on one of its boxes.
LEMMA BoxStepGrown ==
    ASSUME RestOK, NEW p \in Procs, NEW b \in Boxes, BoxStep(p, b)
    PROVE  Grown(vms, vms')
<1> DEFINE r == mem[p][b]
           killed == IF op[p] = "killkill" /\ vms[r.pid].state = "frozen" THEN "gone"
                     ELSE IF op[p] = "killkill" \/ r.status = "paused" THEN "dying"
                     ELSE Terminating(vms[r.pid].state)
<1>1. CASE vms' = vms
    BY <1>1 DEF Grown
<1>2. ASSUME NEW s, s # "free", vms' = [vms EXCEPT ![r.pid].state = s]
      PROVE  Grown(vms, vms')
    BY <1>2, GrownState
<1>3. CASE stop_one(p, b)
  <2>1. Resumed(vms[r.pid].state) # "free"
      BY <1>3 DEF stop_one, Handle, Accepts, LivePid, is_process_alive, Inactive, is_active, Resumed
  <2>2. vms' = vms \/ vms' = [vms EXCEPT ![r.pid].state = Resumed(vms[r.pid].state)]
      BY <1>3 DEF stop_one
  <2> QED  BY <1>1, <1>2, <2>1, <2>2
<1>4. CASE kill_one(p, b)
  <2>1. killed # "free"
      BY <1>4 DEF kill_one, Handle, Accepts, LivePid, is_process_alive, Kills, Terminating
  <2>2. vms' = [vms EXCEPT ![r.pid].state = killed]
      BY <1>4 DEF kill_one
  <2> HIDE DEF killed
  <2> QED  BY <1>2, <2>1, <2>2
<1>5. CASE SetPaused(p, b) \/ SetRunning(p, b)
  <2>1. Resumed(vms[r.pid].state) # "free"
      BY <1>5 DEF SetPaused, SetRunning, Handle, Accepts, LivePid, is_process_alive, Kills, Resumed, is_active
  <2>2. \/ vms' = vms
        \/ vms' = [vms EXCEPT ![r.pid].state = "frozen"]
        \/ vms' = [vms EXCEPT ![r.pid].state = Resumed(vms[r.pid].state)]
      BY <1>5 DEF SetPaused, SetRunning
  <2> QED  BY <1>1, <1>2, <2>1, <2>2
<1>6. CASE rm_one(p, b)
    BY <1>1, <1>2, <1>6 DEF rm_one, rm_vms
<1>7. CASE \/ Reject(p, b) \/ start_one(p, b) \/ KillOther(p, b) \/ PruneOne(p, b) \/ TouchOne(p, b)
    BY <1>1, <1>7 DEF Reject, start_one, KillOther, PruneOne, TouchOne
<1> QED  BY <1>3, <1>4, <1>5, <1>6, <1>7 DEF BoxStep

\* The end of a foreground run.
LEMMA RunEndGrown ==
    ASSUME RestOK, NEW p \in Cli, NEW byUser, NEW code, RunEnd(p, byUser, code)
    PROVE  Grown(vms, vms')
<1> DEFINE q == mem[p][cur[p]].pid
<1>1. vms' = [vms EXCEPT ![q].state = "gone", ![q].code = code]
    BY DEF RunEnd
<1> QED  BY <1>1 DEF Grown, RestOK, Vm

\* The end of a VM.
LEMMA VmEndGrown ==
    ASSUME RestOK, NEW q \in Pids, VmCrash(q) \/ \E code \in GuestCode : VmExit(q, code)
    PROVE  Grown(vms, vms')
<1>1. CASE VmCrash(q)
    BY <1>1, GrownState DEF VmCrash, SetVm
<1>2. ASSUME NEW code \in GuestCode, VmExit(q, code)
      PROVE  Grown(vms, vms')
  <2>1. vms' = [vms EXCEPT ![q].state = "gone", ![q].code = code]
      BY <1>2 DEF VmExit
  <2> QED  BY <2>1 DEF Grown, RestOK, Vm
<1> QED  BY <1>1, <1>2

\* What a closure makes of a record is good.
LEMMA ClosureResult ==
    ASSUME Inv, NEW p \in Procs, pc[p] = "mwrite", NEW r \in Record, GoodRecord(vms, cur[p], r)
    PROVE  /\ cur[p] \in Boxes
           /\ ApplyClosure(clo[p], cur[p], r) \in Record
           /\ GoodRecord(vms, cur[p], ApplyClosure(clo[p], cur[p], r))
<1> DEFINE b == cur[p]
           c == clo[p]
<1>1. b \in Boxes /\ c \in Closure
    BY DEF Inv, RestOK, Side, LocalOK, HasBoxAt, Modifying
<1>2. c.f = "probe" => b \in HasCheck
    BY DEF Inv, Side, LocalOK, ClosureGoodAt
<1>3. c.f = "boot" => c.pid \in Pids /\ vms[c.pid].state # "free" /\ vms[c.pid].box = b
    BY DEF Inv, Side, LocalOK, ClosureGoodAt
<1>4. c.ok \in BOOLEAN
    BY <1>1 DEF Closure
<1> HIDE DEF b, c
<1>5. c.f = "probe" => /\ apply_probe_result(b, r, c.ok) \in Record
                       /\ GoodRecord(vms, b, apply_probe_result(b, r, c.ok))
    BY <1>2, <1>4, ProbeGood DEF b
<1>6. c.f = "boot" => /\ apply_boot_result(b, r, c.pid, "Increment") \in Record
                      /\ GoodRecord(vms, b, apply_boot_result(b, r, c.pid, "Increment"))
    BY <1>1, <1>3, BootGood
<1>7. MarkUnhealthyDead(r) \in Record /\ GoodRecord(vms, b, MarkUnhealthyDead(r))
    BY <1>1, DownGood DEF b
<1>8. ApplyClosure(c, b, r) \in Record /\ GoodRecord(vms, b, ApplyClosure(c, b, r))
    BY <1>5, <1>6, <1>7, NewGood DEF ApplyClosure, b
<1> QED  BY <1>1, <1>8 DEF b, c

\* Loading, saving and modifying keep every copy consistent.
LEMMA StateFileCopies ==
    ASSUME Inv, NEW p \in Procs, StateFileStep(p)
    PROVE  Copies(vms', file', mem', buf')
<1>0. Snap(vms, reconcile(file)) /\ Snap(vms, mem[p]) /\ Snap(vms, buf[p])
    BY SnapReconcile DEF Inv, Copies
<1> USE DEF Inv
<1>1. CASE Load(p)
    BY <1>0, <1>1, CopiesPut DEF Load, shared
<1>2. CASE ReconcileWrite(p) \/ save(p)
    BY <1>0, <1>2, CopiesPut DEF ReconcileWrite, save
<1>3. CASE ModifyLoad(p)
    BY <1>0, <1>3, CopiesPut DEF ModifyLoad
<1>4. CASE ModifyReconcileWrite(p)
    BY <1>0, <1>4, CopiesPut DEF ModifyReconcileWrite
<1>5. CASE ModifyWrite(p)
  <2> DEFINE r == buf[p][cur[p]]
             t == Put(buf[p], cur[p], ApplyClosure(clo[p], cur[p], r))
  <2>1. pc[p] = "mwrite" /\ file' = t /\ buf' = [buf EXCEPT ![p] = Empty] /\ mem' = mem /\ vms' = vms
      BY <1>5 DEF ModifyWrite
  <2>2. cur[p] \in Boxes
      BY <2>1 DEF Side, LocalOK, HasBoxAt, Modifying
  <2>3. r \in Record /\ GoodRecord(vms, cur[p], r)
      BY <1>0, <2>2 DEF Snap, Snapshot, GoodSnapshot
  <2>4. /\ ApplyClosure(clo[p], cur[p], r) \in Record
        /\ GoodRecord(vms, cur[p], ApplyClosure(clo[p], cur[p], r))
      BY <2>1, <2>3, ClosureResult
  <2>5. Snap(vms, t)
      BY <1>0, <2>2, <2>4, SnapPut
  <2>6. Copies(vms, t, mem, buf)
      BY <2>5, CopiesPut
  <2>7. Copies(vms, t, mem, [buf EXCEPT ![p] = Empty])
      BY <2>6, SnapEmpty, CopiesPut
  <2> QED  BY <2>1, <2>7
<1> QED  BY <1>1, <1>2, <1>3, <1>4, <1>5 DEF StateFileStep

\* Stopping a VM, and what the record says of it afterwards.
LEMMA StopCopies ==
    ASSUME Inv, NEW p \in Procs, StopStep(p)
    PROVE  Copies(vms', file', mem', buf')
<1> DEFINE b == cur[p]
           r == mem[p][b]
<1>0. b \in Boxes /\ r \in Record /\ GoodRecord(vms, b, r)
    BY DEF StopStep, StopAlreadyExited, StopSignal, StopExited, StopTimeout,
           Inv, Side, LocalOK, HasBoxAt, Copies, Snap, Snapshot, GoodSnapshot
<1>1. Grown(vms, vms')
    BY StopGrown DEF Inv
<1>2. Copies(vms', file, mem, buf)
    BY <1>1, CopiesGrown DEF Inv
<1>3. ASSUME NEW code \in ExitCode, StopDone(p, code)
      PROVE  \/ mem' = mem
             \/ \E n \in Record : mem' = [mem EXCEPT ![p] = Put(@, b, n)] /\ GoodRecord(vms, b, n)
  <2>1. \/ mem' = mem
        \/ \E n \in {MarkRestarting(r), NoRecord, MarkStopped(r, code)} :
               mem' = [mem EXCEPT ![p] = Put(@, b, n)]
      BY <1>3 DEF StopDone, SetMem
  <2>2. \A n \in {MarkRestarting(r), NoRecord, MarkStopped(r, code)} :
            n \in Record /\ GoodRecord(vms, b, n)
      BY <1>0, <1>3, StopGood, DownGood, NewGood
  <2> QED  BY <2>1, <2>2
<1>4. ASSUME NEW code \in ExitCode, StopDone(p, code)
      PROVE  Copies(vms', file, mem', buf)
  <2>1. CASE mem' = mem
      BY <1>2, <2>1
  <2>2. ASSUME NEW n \in Record, mem' = [mem EXCEPT ![p] = Put(@, b, n)], GoodRecord(vms, b, n)
        PROVE  Copies(vms', file, mem', buf)
    <3>1. GoodRecord(vms', b, n)
        BY <1>1, <2>2, GoodStable
    <3> QED  BY <1>0, <1>1, <2>2, <3>1, MemPut DEF Inv
  <2> QED  BY <1>3, <1>4, <2>1, <2>2
<1>5. "none" \in ExitCode /\ "signalled" \in ExitCode /\ "killed" \in ExitCode
    BY DEF ExitCode
<1>6. file' = file /\ buf' = buf
    BY DEF StopStep, StopAlreadyExited, StopSignal, StopExited, StopTimeout, shared
<1>7. mem' = mem \/ \E code \in ExitCode : StopDone(p, code)
    BY <1>5 DEF StopStep, StopAlreadyExited, StopSignal, StopExited, StopTimeout
<1> QED  BY <1>2, <1>4, <1>6, <1>7

\* Booting a VM: the new pid goes into the booting command's snapshot only.
LEMMA BootCopies ==
    ASSUME Inv, NEW p \in Procs, NEW q \in Pids,
           BootCommand(p, q) \/ BootRun(p, q) \/ (p = Monitor /\ BootMonitor(q))
    PROVE  Copies(vms', file', mem', buf')
<1> DEFINE b == cur[p]
<1>0. b \in Boxes
    BY DEF BootCommand, BootRun, BootMonitor, Inv, Side, LocalOK, HasBoxAt
<1>1. Grown(vms, vms') /\ vms'[q].state # "free" /\ vms'[q].box = b
    BY GrownStart DEF BootCommand, BootRun, BootMonitor, Inv
<1>2. file' = file /\ buf' = buf
    BY DEF BootCommand, BootRun, BootMonitor, shared
<1>3. CASE BootCommand(p, q)
  <2> DEFINE u == IF op[p] = "start" THEN "Reset" ELSE "Preserve"
             n == apply_boot_result(b, mem[p][b], q, u)
  <2>1. mem[p][b] \in Record
      BY <1>0 DEF Inv, Copies, Snap, Snapshot
  <2>2. u \in {"Reset", "Preserve", "Increment"}
      OBVIOUS
  <2>3. n \in Record /\ GoodRecord(vms', b, n)
    <3> HIDE DEF u
    <3> QED  BY <1>0, <1>1, <2>1, <2>2, BootGood
  <2>4. mem' = [mem EXCEPT ![p] = Put(@, b, n)]
      BY <1>3 DEF BootCommand
  <2>5. Copies(vms', file, [mem EXCEPT ![p] = Put(@, b, n)], buf)
    <3> HIDE DEF n
    <3> QED  BY <1>0, <1>1, <2>3, MemPut DEF Inv
  <2> QED  BY <1>2, <2>4, <2>5
<1>4. CASE BootRun(p, q) \/ (p = Monitor /\ BootMonitor(q))
  <2>1. mem' = mem
      BY <1>4 DEF BootRun, BootMonitor
  <2> QED  BY <1>1, <1>2, <2>1, CopiesGrown DEF Inv
<1> QED  BY <1>3, <1>4

\* The end of a process forgets its copies.
LEMMA ExitCopies ==
    ASSUME Inv, NEW p \in Procs, Exit(p)
    PROVE  Copies(vms', file', mem', buf')
    BY SnapEmpty DEF Inv, Copies, Exit, Snap

\* A command's work on one of its boxes.
LEMMA BoxStepCopies ==
    ASSUME Inv, NEW p \in Procs, NEW b \in Boxes, BoxStep(p, b)
    PROVE  Copies(vms', file', mem', buf')
<1> DEFINE r == mem[p][b]
<1>0. r \in Record /\ GoodRecord(vms, b, r)
    BY DEF Inv, Copies, Snap, Snapshot, GoodSnapshot
<1>g. Grown(vms, vms')
    BY BoxStepGrown DEF Inv
<1>1. file' = file /\ buf' = buf
    BY DEF BoxStep, Reject, start_one, stop_one, kill_one, SetPaused, SetRunning, KillOther,
           rm_one, PruneOne, TouchOne, shared
<1>2. CASE mem' = mem
  <2>1. Copies(vms', file, mem, buf)
      BY <1>g, CopiesGrown DEF Inv
  <2> QED  BY <1>1, <1>2, <2>1
<1>3. ASSUME NEW n \in Record, GoodRecord(vms, b, n), mem' = [mem EXCEPT ![p] = Put(@, b, n)]
      PROVE  Copies(vms', file', mem', buf')
  <2>1. GoodRecord(vms', b, n)
      BY <1>g, <1>3, GoodStable
  <2>2. Copies(vms', file, [mem EXCEPT ![p] = Put(@, b, n)], buf)
      BY <1>g, <2>1, MemPut DEF Inv
  <2> QED  BY <1>1, <1>3, <2>2
<1>4. CASE \/ Reject(p, b) \/ start_one(p, b) \/ stop_one(p, b) \/ KillOther(p, b)
           \/ TouchOne(p, b)
    BY <1>2, <1>4 DEF Reject, start_one, stop_one, KillOther, TouchOne
<1>5. CASE kill_one(p, b)
  <2> DEFINE code == IF op[p] = "killkill" THEN "killed" ELSE "signalled"
  <2>1. \/ mem' = [mem EXCEPT ![p] = Put(@, b, NoRecord)]
        \/ mem' = [mem EXCEPT ![p] = Put(@, b, MarkStopped(r, code))]
      BY <1>5 DEF kill_one, SetMem
  <2>2. code \in ExitCode
      BY DEF ExitCode
  <2> HIDE DEF code
  <2>3. MarkStopped(r, code) \in Record /\ GoodRecord(vms, b, MarkStopped(r, code))
      BY <1>0, <2>2, StopGood
  <2> QED  BY <1>3, <2>1, <2>3, NewGood
<1>6. CASE SetPaused(p, b) \/ SetRunning(p, b)
  <2>1. is_active(r)
      BY <1>6 DEF SetPaused, SetRunning, Handle, Accepts, Kills, is_active
  <2>2. PICK s \in {"running", "paused"} : mem' = [mem EXCEPT ![p] = Put(@, b, [r EXCEPT !.status = s])]
      BY <1>6 DEF SetPaused, SetRunning, SetMem
  <2> DEFINE n == [r EXCEPT !.status = s]
  <2>3. n \in Record /\ GoodRecord(vms, b, n)
      BY <1>0, <2>1, PauseGood
  <2>4. mem' = [mem EXCEPT ![p] = Put(@, b, n)]
      BY <2>2
  <2> HIDE DEF n
  <2> QED  BY <1>3, <2>3, <2>4
<1>7. CASE rm_one(p, b) \/ PruneOne(p, b)
    BY <1>3, <1>7, NewGood DEF rm_one, PruneOne, SetMem
<1> QED  BY <1>4, <1>5, <1>6, <1>7 DEF BoxStep

\* `run` after its boot, and the rollbacks of `create` and `run`.
LEMMA RunCopies ==
    ASSUME Inv, NEW p \in Cli,
           \/ RunAdd(p) \/ RunAttach(p) \/ RunStopped(p)
           \/ \E byUser \in BOOLEAN, code \in ExitCode : RunEnd(p, byUser, code)
           \/ CreateRollback(p) \/ rollback_booted_setup(p) \/ cleanup_partial_box_record(p)
    PROVE  Copies(vms', file', mem', buf')
<1> DEFINE b == cur[p]
           r == mem[p][b]
<1>0. p \in Procs
    BY ProcFacts
<1>g. Grown(vms, vms)
    BY DEF Grown
<1>1. file' = file /\ buf' = buf
    BY DEF RunAdd, RunAttach, RunStopped, RunEnd, CreateRollback, rollback_booted_setup,
           cleanup_partial_box_record, shared
<1>2. b \in Boxes => r \in Record /\ GoodRecord(vms, b, r)
    BY <1>0 DEF Inv, Copies, Snap, Snapshot, GoodSnapshot
<1>3. CASE RunAdd(p)
  <2> DEFINE n == apply_boot_result(b, NewRecord, clo[p].pid, "Reset")
  <2>1. b \in Boxes /\ clo[p].pid \in Pids /\ vms[clo[p].pid].state # "free" /\ vms[clo[p].pid].box = b
      BY <1>0, <1>3 DEF RunAdd, Inv, Side, LocalOK, HasBoxAt, ClosureGoodAt
  <2>2. n \in Record /\ GoodRecord(vms, b, n)
      BY <2>1, NewGood, BootGood
  <2>3. mem' = [mem EXCEPT ![p] = Put(@, b, n)] /\ vms' = vms
      BY <1>3 DEF RunAdd, SetMem
  <2>4. Copies(vms, file, [mem EXCEPT ![p] = Put(@, b, n)], buf)
    <3> HIDE DEF n
    <3> QED  BY <1>0, <1>g, <2>1, <2>2, MemPut DEF Inv
  <2> QED  BY <1>1, <2>3, <2>4
<1>4. CASE RunAttach(p) \/ CreateRollback(p)
    BY <1>1, <1>4 DEF RunAttach, CreateRollback, Inv
<1>5. CASE RunStopped(p)
  <2> DEFINE code == vms[clo[p].pid].code
             n == mark_record_stopped(r, code, clo[p].ok)
  <2>1. b \in Boxes /\ clo[p].pid \in Pids
      BY <1>0, <1>5 DEF RunStopped, Inv, Side, LocalOK, HasBoxAt, ClosureGoodAt
  <2>2. code \in ExitCode /\ clo[p].ok \in BOOLEAN
      BY <1>0, <2>1 DEF Inv, RestOK, Vm, Closure
  <2>3. n \in Record /\ GoodRecord(vms, b, n)
    <3> HIDE DEF code
    <3> QED  BY <1>2, <2>1, <2>2, RunStoppedGood
  <2>4. /\ vms' = vms
        /\ \/ mem' = [mem EXCEPT ![p] = Put(@, b, n)]
           \/ mem' = [mem EXCEPT ![p] = Put(@, b, NoRecord)]
      BY <1>5 DEF RunStopped, SetMem
  <2>5. /\ Copies(vms, file, [mem EXCEPT ![p] = Put(@, b, n)], buf)
        /\ Copies(vms, file, [mem EXCEPT ![p] = Put(@, b, NoRecord)], buf)
    <3> HIDE DEF n
    <3> QED  BY <1>0, <1>g, <2>1, <2>3, NewGood, MemPut DEF Inv
  <2> QED  BY <1>1, <2>4, <2>5
<1>6. ASSUME NEW byUser \in BOOLEAN, NEW code \in ExitCode, RunEnd(p, byUser, code)
      PROVE  Copies(vms', file', mem', buf')
  <2>1. mem' = mem
      BY <1>6 DEF RunEnd
  <2>2. Grown(vms, vms')
      BY <1>6, RunEndGrown DEF Inv
  <2>3. Copies(vms', file, mem, buf)
      BY <2>2, CopiesGrown DEF Inv
  <2> QED  BY <1>1, <2>1, <2>3
<1>7. CASE cleanup_partial_box_record(p)
  <2>1. mem' = [mem EXCEPT ![p] = Put(@, b, NoRecord)] /\ vms' = vms
      BY <1>7 DEF cleanup_partial_box_record, SetMem
  <2>2. b \in Boxes
      BY <1>0, <1>7 DEF cleanup_partial_box_record, Inv, Side, LocalOK, HasBoxAt
  <2> QED  BY <1>0, <1>1, <1>g, <2>1, <2>2, NewGood, MemPut DEF Inv
<1>8. CASE rollback_booted_setup(p)
  <2>1. mem' = mem /\ Grown(vms, vms')
      BY <1>8, GrownState DEF rollback_booted_setup, SetVm, Inv
  <2>2. Copies(vms', file, mem, buf)
      BY <2>1, CopiesGrown DEF Inv
  <2> QED  BY <1>1, <2>1, <2>2
<1> QED  BY <1>3, <1>4, <1>5, <1>6, <1>7, <1>8

\* The steps that touch no copy of the records.
LEMMA OtherCopies ==
    ASSUME Inv,
           \/ \E p \in Procs : BootFail(p)
           \/ \E p \in Cli, b \in Boxes : InvokeCreate(p, b) \/ \E o \in {"run", "runfg"} : InvokeRun(p, o, b)
           \/ \E p \in Cli, o \in Ops : Invoke(p, o)
           \/ MonitorPoll \/ MonitorDue \/ MonitorCandidates \/ MonitorSleep
           \/ \E b \in Boxes : MonitorBackOff(b) \/ MonitorRestart(b)
           \/ \E b \in Boxes, ok \in BOOLEAN : MonitorProbe(b, ok)
           \/ \E c \in Checkers : CheckerQuit(c) \/ \E ok \in BOOLEAN : CheckerProbe(c, ok)
           \/ \E q \in Pids : VmCrash(q) \/ \E code \in GuestCode : VmExit(q, code)
    PROVE  Copies(vms', file', mem', buf')
<1>1. CASE MonitorSleep
    BY <1>1, ProcFacts, SnapEmpty, CopiesPut DEF MonitorSleep, Inv, shared
<1>2. ASSUME NEW q \in Pids, VmCrash(q) \/ \E code \in GuestCode : VmExit(q, code)
      PROVE  Copies(vms', file', mem', buf')
  <2>1. Grown(vms, vms')
      BY <1>2, VmEndGrown DEF Inv
  <2>2. file' = file /\ mem' = mem /\ buf' = buf
      BY <1>2 DEF VmCrash, VmExit, shared, local
  <2>3. Copies(vms', file, mem, buf)
      BY <2>1, CopiesGrown DEF Inv
  <2> QED  BY <2>2, <2>3
<1>3. CASE \/ \E p \in Procs : BootFail(p)
           \/ \E p \in Cli, b \in Boxes : InvokeCreate(p, b) \/ \E o \in {"run", "runfg"} : InvokeRun(p, o, b)
           \/ \E p \in Cli, o \in Ops : Invoke(p, o)
           \/ MonitorPoll \/ MonitorDue \/ MonitorCandidates
           \/ \E b \in Boxes : MonitorBackOff(b) \/ MonitorRestart(b)
           \/ \E b \in Boxes, ok \in BOOLEAN : MonitorProbe(b, ok)
           \/ \E c \in Checkers : CheckerQuit(c) \/ \E ok \in BOOLEAN : CheckerProbe(c, ok)
  <2>1. vms' = vms /\ file' = file /\ mem' = mem /\ buf' = buf
      BY <1>3 DEF BootFail, InvokeCreate, InvokeRun, Invoke, MonitorPoll, MonitorDue, MonitorCandidates,
                  MonitorBackOff, MonitorRestart, MonitorProbe, CheckerQuit, CheckerProbe, shared
  <2> QED  BY <2>1 DEF Inv
<1> QED  BY <1>1, <1>2, <1>3

\* Every step keeps every copy of the records consistent.
LEMMA NextCopies == Inv /\ [Next]_vars => Copies(vms', file', mem', buf')
<1> SUFFICES ASSUME Inv, [Next]_vars
             PROVE  Copies(vms', file', mem', buf')
    OBVIOUS
<1>0. (\A p \in Cli : p \in Procs) /\ Monitor \in Procs /\ (\A c \in Checkers : c \in Procs)
    BY ProcFacts
<1>1. ASSUME NEW p \in Cli, CliStep(p)
      PROVE  Copies(vms', file', mem', buf')
    BY <1>0, <1>1, StateFileCopies, StopCopies, BootCopies, BoxStepCopies, RunCopies, ExitCopies, OtherCopies
    DEF CliStep, Finish
<1>2. CASE MonitorStep
    BY <1>0, <1>2, StateFileCopies, StopCopies, BootCopies, OtherCopies DEF MonitorStep
<1>3. ASSUME NEW c \in Checkers, CheckerStep(c)
      PROVE  Copies(vms', file', mem', buf')
    BY <1>0, <1>3, StateFileCopies, OtherCopies DEF CheckerStep, StateFileStep
<1>4. CASE Environment
    BY <1>0, <1>4, RunCopies, ExitCopies, OtherCopies DEF Environment, Crash
<1>5. CASE UNCHANGED vars
    BY <1>5 DEF Inv, vars
<1> QED  BY <1>1, <1>2, <1>3, <1>4, <1>5 DEF Next

-----------------------------------------------------------------------------
(* Mutual exclusion of modify.                                             *)

\* A step that leaves the lock alone and moves only processes outside `modify`
\* to places outside it.
LEMMA LockFrame ==
    ASSUME LockHeldInModify, lock' = lock,
           \A x \in Procs : \/ pc'[x] = pc[x]
                            \/ /\ pc[x] \notin {"mrwrite", "mwrite"}
                               /\ pc'[x] \notin {"mrwrite", "mwrite"}
    PROVE  LockHeldInModify'
    BY DEF LockHeldInModify

\* Every step keeps the lock with the one process inside `modify`.
LEMMA NextLock == Inv /\ [Next]_vars => LockHeldInModify'
<1> SUFFICES ASSUME Inv, [Next]_vars
             PROVE  LockHeldInModify'
    OBVIOUS
<1> USE ProcFacts
<1>0. RestOK /\ LockHeldInModify /\ NoProc \notin Procs
    BY StateAssumption DEF Inv
<1>1. ASSUME NEW p \in Procs, StateFileStep(p)
      PROVE  LockHeldInModify'
  <2>1. CASE Load(p) \/ ReconcileWrite(p) \/ save(p)
      BY <1>0, <2>1, LockFrame DEF Load, ReconcileWrite, save, RestOK, shared
  <2>2. CASE ModifyLoad(p)
      BY <1>0, <2>2 DEF ModifyLoad, Acquire, LockHeldInModify, RestOK
  <2>3. CASE ModifyReconcileWrite(p)
      BY <1>0, <2>3 DEF ModifyReconcileWrite, LockHeldInModify, RestOK
  <2>4. CASE ModifyWrite(p)
    <3>1. AfterModify(p) \notin {"mrwrite", "mwrite"}
        BY DEF AfterModify
    <3> QED  BY <1>0, <2>4, <3>1 DEF ModifyWrite, Release, LockHeldInModify, RestOK
  <2> QED  BY <1>1, <2>1, <2>2, <2>3, <2>4 DEF StateFileStep
<1>2. ASSUME NEW p \in Procs, Exit(p)
      PROVE  LockHeldInModify'
    BY <1>0, <1>2 DEF Exit, Release, Mine, LockHeldInModify
<1>3. ASSUME NEW p \in Procs, StopStep(p)
      PROVE  LockHeldInModify'
    BY <1>0, <1>3, LockFrame DEF StopStep, StopAlreadyExited, StopSignal, StopExited, StopTimeout,
                                 StopDone, Goto, RestOK, shared
<1>4. ASSUME NEW p \in Cli, NEW b \in Boxes, BoxStep(p, b)
      PROVE  LockHeldInModify'
    BY <1>0, <1>4, LockFrame DEF BoxStep, Reject, start_one, stop_one, kill_one, SetPaused, SetRunning,
                                 KillOther, rm_one, PruneOne, TouchOne, Handle, Goto, RestOK, shared
<1>5. ASSUME NEW p \in Cli \cup {Monitor}, NEW q \in Pids,
             BootCommand(p, q) \/ BootRun(p, q) \/ (p = Monitor /\ BootMonitor(q)) \/ BootFail(p)
      PROVE  LockHeldInModify'
    BY <1>0, <1>5, LockFrame DEF BootCommand, BootRun, BootMonitor, BootFail, SpawnAndGo, RestOK, shared
<1>6. ASSUME NEW p \in Cli, \/ RunAdd(p) \/ RunAttach(p) \/ RunStopped(p) \/ CreateRollback(p)
                            \/ rollback_booted_setup(p) \/ cleanup_partial_box_record(p)
      PROVE  LockHeldInModify'
    BY <1>0, <1>6, LockFrame DEF RunAdd, RunAttach, RunStopped, CreateRollback, SpawnAndGo, Goto,
                                 rollback_booted_setup, cleanup_partial_box_record, RestOK, shared
<1>7. ASSUME NEW p \in Cli, NEW byUser \in BOOLEAN, NEW code \in ExitCode, RunEnd(p, byUser, code)
      PROVE  LockHeldInModify'
    BY <1>0, <1>7, LockFrame DEF RunEnd, RestOK, shared
<1>8. ASSUME \/ MonitorPoll \/ MonitorDue \/ MonitorCandidates \/ MonitorSleep
             \/ \E b \in Boxes : MonitorBackOff(b) \/ MonitorRestart(b)
             \/ \E b \in Boxes, ok \in BOOLEAN : MonitorProbe(b, ok)
             \/ \E c \in Checkers : CheckerQuit(c) \/ \E ok \in BOOLEAN : CheckerProbe(c, ok)
      PROVE  LockHeldInModify'
    BY <1>0, <1>8, LockFrame DEF MonitorPoll, MonitorDue, MonitorCandidates, MonitorSleep, MonitorTake,
                                 MonitorBackOff, MonitorRestart, MonitorProbe, CheckerQuit, CheckerProbe,
                                 Goto, RestOK, shared
<1>9. ASSUME \/ \E p \in Cli, b \in Boxes : InvokeCreate(p, b) \/ \E o \in {"run", "runfg"} : InvokeRun(p, o, b)
             \/ \E p \in Cli, o \in Ops : Invoke(p, o)
             \/ \E q \in Pids : VmCrash(q) \/ \E code \in GuestCode : VmExit(q, code)
             \/ \E p \in Procs : BootFail(p)
             \/ UNCHANGED vars
      PROVE  LockHeldInModify'
  <2>1. ASSUME NEW p \in Cli, NEW b \in Boxes,
               InvokeCreate(p, b) \/ \E o \in {"run", "runfg"} : InvokeRun(p, o, b)
        PROVE  LockHeldInModify'
      BY <1>0, <2>1, LockFrame DEF InvokeCreate, InvokeRun, Issue, RestOK
  <2>2. ASSUME NEW p \in Cli, NEW o \in Ops, Invoke(p, o)
        PROVE  LockHeldInModify'
      BY <1>0, <2>2, LockFrame DEF Invoke, Issue, RestOK
  <2>3. ASSUME NEW p \in Procs, BootFail(p)
        PROVE  LockHeldInModify'
      BY <1>0, <2>3, LockFrame DEF BootFail, RestOK, shared
  <2>4. CASE UNCHANGED vars \/ \E q \in Pids : VmCrash(q) \/ \E code \in GuestCode : VmExit(q, code)
    <3>1. lock' = lock /\ pc' = pc
        BY <2>4 DEF VmCrash, VmExit, vars, shared, local
    <3> QED  BY <1>0, <3>1, LockFrame
  <2> QED  BY <1>9, <2>1, <2>2, <2>3, <2>4
<1>10. ASSUME NEW p \in Cli, CliStep(p)
       PROVE  LockHeldInModify'
    BY <1>1, <1>2, <1>3, <1>4, <1>5, <1>6, <1>9, <1>10 DEF CliStep, Finish
<1>11. CASE MonitorStep
    BY <1>1, <1>3, <1>5, <1>8, <1>9, <1>11 DEF MonitorStep
<1>12. ASSUME NEW c \in Checkers, CheckerStep(c)
       PROVE  LockHeldInModify'
    BY <1>1, <1>8, <1>12 DEF CheckerStep, StateFileStep
<1>13. CASE Environment
    BY <1>2, <1>7, <1>9, <1>13 DEF Environment, Crash
<1> QED  BY <1>9, <1>10, <1>11, <1>12, <1>13 DEF Next

-----------------------------------------------------------------------------
(* Where each process is, and what it holds there.                         *)

\* Process x does not step.
Same(x) ==
    pc'[x] = pc[x] /\ op'[x] = op[x] /\ cur'[x] = cur[x] /\ clo'[x] = clo[x] /\ mem'[x] = mem[x]

\* What a process relies on depends on itself and on the VMs only.
LEMMA LocalFrame ==
    ASSUME Grown(vms, vms'), NEW x \in Procs, Same(x), LocalOK(x)
    PROVE  LocalOK(x)'
    BY DEF LocalOK, HasBoxAt, ClosureGoodAt, AttachedAt, Modifying, Grown, Same

\* A step of one process.
LEMMA SideOne ==
    ASSUME Side, Grown(vms, vms'), NEW p \in Procs,
           \A x \in Procs : x # p => Same(x),
           LocalOK(p)', MonitorProbes'
    PROVE  Side'
<1>1. ASSUME NEW x \in Procs, x # p
      PROVE  LocalOK(x)'
    BY <1>1, LocalFrame DEF Side
<1>2. ASSUME NEW x \in Procs
      PROVE  LocalOK(x)'
  <2>1. CASE x = p
      BY <2>1 DEF LocalOK, HasBoxAt, ClosureGoodAt, AttachedAt, Modifying
  <2>2. CASE x # p
      BY <1>1, <2>2
  <2> QED  BY <2>1, <2>2
<1> QED  BY <1>2 DEF Side

\* A step of one process that is not the monitor.
LEMMA SideCli ==
    ASSUME Side, Grown(vms, vms'), NEW p \in Procs, p # Monitor,
           \A x \in Procs : x # p => Same(x),
           todo'[Monitor] = todo[Monitor], LocalOK(p)'
    PROVE  Side'
<1>1. MonitorProbes'
    BY ProcFacts DEF Side, MonitorProbes, Same
<1> QED  BY <1>1, SideOne

\* Loading, saving and modifying.
LEMMA StateFileSide ==
    ASSUME Inv, NEW p \in Procs, StateFileStep(p)
    PROVE  Side'
<1>0. Grown(vms, vms')
    BY DEF StateFileStep, Load, ReconcileWrite, save, ModifyLoad, ModifyReconcileWrite, ModifyWrite, Grown
<1>1. LocalOK(p) /\ MonitorProbes /\ Side
    BY DEF Inv, Side
<1>2. \A x \in Procs : x # p => Same(x)
  <2>1. CASE Load(p)
      BY <2>1 DEF Load, Same, Inv, RestOK, Copies
  <2>2. CASE ReconcileWrite(p) \/ save(p) \/ ModifyLoad(p) \/ ModifyReconcileWrite(p)
      BY <2>2 DEF ReconcileWrite, save, ModifyLoad, ModifyReconcileWrite, Same, Inv, RestOK, Copies
  <2>3. CASE ModifyWrite(p)
      BY <2>3 DEF ModifyWrite, Same, Inv, RestOK, Copies
  <2> QED  BY <2>1, <2>2, <2>3 DEF StateFileStep
<1>3. CASE Load(p) \/ ReconcileWrite(p) \/ save(p)
  <2>1. LocalOK(p)'
      BY <1>1, <1>3 DEF Load, ReconcileWrite, save, LocalOK, HasBoxAt, ClosureGoodAt, AttachedAt, Modifying,
                        Inv, RestOK, Copies
  <2>2. MonitorProbes'
      BY <1>1, <1>3, ProcFacts DEF Load, ReconcileWrite, save, MonitorProbes, Inv, RestOK
  <2> QED  BY <1>0, <1>1, <1>2, <2>1, <2>2, SideOne
<1>4. CASE ModifyLoad(p) \/ ModifyReconcileWrite(p)
  <2>1. LocalOK(p)'
      BY <1>1, <1>4 DEF ModifyLoad, ModifyReconcileWrite, LocalOK, HasBoxAt, ClosureGoodAt, AttachedAt, Modifying,
                        Inv, RestOK, Copies
  <2>2. MonitorProbes'
      BY <1>1, <1>4, ProcFacts DEF ModifyLoad, ModifyReconcileWrite, MonitorProbes, Inv, RestOK
  <2> QED  BY <1>0, <1>1, <1>2, <2>1, <2>2, SideOne
<1>5. CASE ModifyWrite(p)
  <2>1. /\ AfterModify(p) \in {"idle", "sleep", "pick", "probes", "boot", "cands"}
        /\ AfterModify(p) \in {"idle", "sleep"} <=> p \in Checkers
        /\ AfterModify(p) = "probes" => clo[p].f = "probe"
      BY DEF AfterModify
  <2>2. LocalOK(p)'
      BY <1>1, <1>5, <2>1, ProcFacts DEF ModifyWrite, NoClosure, LocalOK, HasBoxAt, ClosureGoodAt, AttachedAt,
                        Modifying, Inv, RestOK, Copies
  <2>3. MonitorProbes'
      BY <1>1, <1>5, <2>1, ProcFacts DEF ModifyWrite, NoClosure, MonitorProbes, Inv, RestOK
  <2> QED  BY <1>0, <1>1, <1>2, <2>2, <2>3, SideOne
<1> QED  BY <1>3, <1>4, <1>5 DEF StateFileStep

\* The graceful stop.
LEMMA StopSide ==
    ASSUME Inv, NEW p \in Procs, StopStep(p)
    PROVE  Side'
<1>0. Grown(vms, vms')
    BY StopGrown DEF Inv
<1>1. LocalOK(p) /\ MonitorProbes /\ Side /\ pc[p] \in {"signal", "await"} /\ todo' = todo
    BY DEF Inv, Side, StopStep, StopAlreadyExited, StopSignal, StopExited, StopTimeout
<1>2. \A x \in Procs : x # p => Same(x)
    BY DEF StopStep, StopAlreadyExited, StopSignal, StopExited, StopTimeout, StopDone, SetMem, Goto,
           Same, Inv, RestOK, Copies
<1>3. op' = op /\ cur' = cur
    BY DEF StopStep, StopAlreadyExited, StopSignal, StopExited, StopTimeout
<1>4. \/ pc'[p] = "await" /\ clo'[p] = clo[p]
      \/ pc'[p] = "save" /\ clo'[p] = clo[p] /\ p # Monitor
      \/ pc'[p] = "lock" /\ clo'[p] = [clo[p] EXCEPT !.f = "dead"] /\ p = Monitor
    BY DEF StopStep, StopAlreadyExited, StopSignal, StopExited, StopTimeout, StopDone, Goto, Inv, RestOK
<1>5. op[p] # "runfg"
    BY <1>1 DEF LocalOK, HasBoxAt
<1>6. LocalOK(p)'
  <2>1. clo[p] \in Closure
      BY DEF Inv, RestOK
  <2> QED  BY <1>1, <1>3, <1>4, <1>5, <2>1
           DEF LocalOK, HasBoxAt, ClosureGoodAt, AttachedAt, Modifying, Closure
<1>7. MonitorProbes'
    BY <1>1, <1>2, <1>4, ProcFacts DEF MonitorProbes, Same, Inv, RestOK, Closure
<1> QED  BY <1>0, <1>1, <1>2, <1>6, <1>7, SideOne

\* A command's work on one of its boxes.
LEMMA BoxStepSide ==
    ASSUME Inv, NEW p \in Cli, NEW b \in Boxes, BoxStep(p, b)
    PROVE  Side'
<1>0. p \in Procs /\ p # Monitor /\ p \notin Checkers
    BY ProcFacts
<1>1. Grown(vms, vms')
    BY <1>0, BoxStepGrown DEF Inv
<1>2. LocalOK(p) /\ Side /\ pc[p] = "pick"
    BY <1>0 DEF Inv, Side, BoxStep, Reject, start_one, stop_one, kill_one, SetPaused, SetRunning, KillOther,
           rm_one, PruneOne, TouchOne, Handle
<1>3. (\A x \in Procs : x # p => Same(x)) /\ todo'[Monitor] = todo[Monitor]
    BY <1>0, ProcFacts DEF BoxStep, Reject, start_one, stop_one, kill_one, SetPaused, SetRunning, KillOther,
           rm_one, PruneOne, TouchOne, Handle, SetMem, Goto, Same, Inv, RestOK, Copies
<1>4. /\ op' = op
      /\ \/ pc' = pc /\ cur' = cur /\ clo' = clo
         \/ /\ op[p] \notin {"run", "runfg", "fgend"}
            /\ cur'[p] = b
            /\ pc'[p] \in {"pick", "boot", "signal", "save", "lock"}
            /\ pc'[p] = "signal" => op[p] \in {"stop", "restart"}
            /\ \/ clo' = clo
               \/ clo'[p] = [clo[p] EXCEPT !.f = "remove"] /\ pc'[p] = "lock"
  <2>1. CASE Reject(p, b)
      BY <2>1 DEF Reject
  <2>2. CASE rm_one(p, b)
      BY <1>0, <2>2 DEF rm_one, Handle, Goto, Inv, RestOK
  <2>3. CASE \/ start_one(p, b) \/ stop_one(p, b) \/ kill_one(p, b) \/ SetPaused(p, b) \/ SetRunning(p, b)
             \/ KillOther(p, b) \/ PruneOne(p, b) \/ TouchOne(p, b)
      BY <1>0, <2>3 DEF start_one, stop_one, kill_one, SetPaused, SetRunning, KillOther,
           PruneOne, TouchOne, Handle, Goto, Inv, RestOK
  <2> QED  BY <2>1, <2>2, <2>3 DEF BoxStep
<1>5. LocalOK(p)'
  <2>1. clo[p] \in Closure
      BY <1>0 DEF Inv, RestOK
  <2> QED  BY <1>0, <1>1, <1>2, <1>4, <2>1
           DEF LocalOK, HasBoxAt, ClosureGoodAt, AttachedAt, Modifying, Closure, Grown
<1> QED  BY <1>0, <1>1, <1>2, <1>3, <1>5, SideCli

\* Spawning a health checker in a boot or after a foreground run's start: the
\* spawning process p and the checker move.
LEMMA SpawnSide ==
    ASSUME Inv, Grown(vms, vms'), NEW p \in Cli \cup {Monitor}, NEW b \in Boxes, NEW next \in PC,
           SpawnAndGo(p, b, next),
           op' = op, todo' = todo,
           \A x \in Procs : x # p => clo'[x] = clo[x] /\ mem'[x] = mem[x],
           LocalOK(p)', MonitorProbes'
    PROVE  Side'
<1>0. p \in Procs /\ p \notin Checkers
    BY ProcFacts
<1>1. ASSUME NEW x \in Procs, x # p
      PROVE  LocalOK(x)'
  <2>0. LocalOK(x)
      BY DEF Inv, Side
  <2>1. CASE Same(x)
      BY <2>0, <2>1, LocalFrame
  <2>2. CASE ~Same(x)
    <3>1. x \in Checkers /\ pc[x] = "idle" /\ pc'[x] = "sleep" /\ cur'[x] = b /\ b \in HasCheck
        BY <1>0, <1>1, <2>2, ProcFacts DEF SpawnAndGo, Same, Inv, RestOK
    <3> QED  BY <1>1, <2>0, <3>1, ProcFacts, RecordAssumption
             DEF LocalOK, HasBoxAt, ClosureGoodAt, AttachedAt, Modifying
  <2> QED  BY <2>1, <2>2
<1>2. ASSUME NEW x \in Procs
      PROVE  LocalOK(x)'
  <2>1. CASE x = p
      BY <2>1 DEF LocalOK, HasBoxAt, ClosureGoodAt, AttachedAt, Modifying
  <2>2. CASE x # p
      BY <1>1, <2>2
  <2> QED  BY <2>1, <2>2
<1> QED  BY <1>2 DEF Side

\* The boots.
LEMMA BootSide ==
    ASSUME Inv, NEW p \in Cli \cup {Monitor}, NEW q \in Pids,
           (p \in Cli /\ (BootCommand(p, q) \/ BootRun(p, q))) \/ (p = Monitor /\ BootMonitor(q))
    PROVE  Side'
<1> DEFINE b == cur[p]
<1>0. p \in Procs /\ p \notin Checkers /\ Side /\ LocalOK(p) /\ MonitorProbes /\ RestOK
    BY ProcFacts DEF Inv, Side
<1>1. pc[p] = "boot" /\ b \in Boxes /\ clo[p].pid = 0 /\ clo[p].f = "none"
    BY <1>0 DEF BootCommand, BootRun, BootMonitor, LocalOK, HasBoxAt, ClosureGoodAt, Modifying
<1>2. Grown(vms, vms') /\ vms'[q].state # "free" /\ vms'[q].box = b
    BY <1>0, GrownStart DEF BootCommand, BootRun, BootMonitor
<1>3. CASE p \in Cli /\ BootCommand(p, q)
  <2>1. SpawnAndGo(p, b, "save") /\ "save" \in PC /\ op' = op /\ todo' = todo /\ clo' = clo
      BY <1>3 DEF BootCommand, PC
  <2>2. cur'[p] = b /\ pc'[p] = "save"
      BY <1>0, <2>1 DEF SpawnAndGo, RestOK
  <2>3. \A x \in Procs : x # p => clo'[x] = clo[x] /\ mem'[x] = mem[x]
      BY <1>3 DEF BootCommand, Inv, Copies
  <2>4. op[p] \in {"start", "restart"}
      BY <1>3 DEF BootCommand
  <2>5. LocalOK(p)'
      BY <1>0, <1>1, <2>1, <2>2, <2>4, <1>3 DEF LocalOK, HasBoxAt, ClosureGoodAt, AttachedAt, Modifying
  <2>6. pc'[Monitor] = pc[Monitor]
      BY <1>0, <1>3, <2>1, ProcFacts DEF SpawnAndGo, RestOK
  <2>7. MonitorProbes'
      BY <1>0, <2>1, <2>6 DEF MonitorProbes
  <2> QED  BY <1>1, <1>2, <2>1, <2>3, <2>5, <2>7, SpawnSide
<1>4. CASE p \in Cli /\ BootRun(p, q)
  <2>1. /\ \A x \in Procs : x # p => Same(x)
        /\ todo' = todo /\ p # Monitor
        /\ op' = op /\ op[p] \in {"run", "runfg"} /\ cur' = cur
        /\ pc'[p] = "load" /\ clo'[p] = [clo[p] EXCEPT !.pid = q]
      BY <1>0, <1>4, ProcFacts DEF BootRun, Same, RestOK
  <2>2. LocalOK(p)'
    <3>1. clo[p] \in Closure
        BY <1>0 DEF RestOK
    <3> QED  BY <1>0, <1>1, <1>2, <2>1, <3>1
             DEF LocalOK, HasBoxAt, ClosureGoodAt, AttachedAt, Modifying, Closure
  <2> QED  BY <1>0, <1>2, <2>1, <2>2, SideCli
<1>5. CASE p = Monitor /\ BootMonitor(q)
  <2>1. /\ SpawnAndGo(p, b, "lock") /\ "lock" \in PC /\ op' = op /\ todo' = todo /\ mem' = mem
        /\ clo' = [clo EXCEPT ![p] = [f |-> "boot", pid |-> q, ok |-> FALSE]]
      BY <1>5 DEF BootMonitor, PC
  <2>2. cur'[p] = b /\ pc'[p] = "lock"
      BY <1>0, <2>1 DEF SpawnAndGo, RestOK
  <2>3. \A x \in Procs : x # p => clo'[x] = clo[x] /\ mem'[x] = mem[x]
      BY <2>1 DEF Inv, RestOK
  <2>4. clo'[p].f = "boot" /\ clo'[p].pid = q
      BY <1>0, <2>1 DEF RestOK
  <2>5. op[p] = "none"
      BY <1>0, <1>5, ProcFacts DEF LocalOK, HasBoxAt
  <2>6. LocalOK(p)'
      BY <1>0, <1>1, <1>2, <1>5, <2>1, <2>2, <2>4, <2>5, PidFacts
      DEF LocalOK, HasBoxAt, ClosureGoodAt, AttachedAt, Modifying
  <2>7. MonitorProbes'
      BY <1>5, <2>2, <2>4 DEF MonitorProbes
  <2> QED  BY <1>1, <1>2, <2>1, <2>3, <2>6, <2>7, SpawnSide
<1> QED  BY <1>3, <1>4, <1>5

\* The end of a process takes along the health checkers in its runtime.
LEMMA ExitSide ==
    ASSUME Inv, NEW p \in Cli \cup {Monitor}, Exit(p)
    PROVE  Side'
<1>0. Side /\ RestOK
    BY DEF Inv
<1>1. Grown(vms, vms')
    BY DEF Exit, Grown
<1>2. ASSUME NEW x \in Procs
      PROVE  LocalOK(x)'
  <2>1. CASE x \in Mine(p)
    <3>1. pc'[x] = "idle" /\ op'[x] = "none" /\ clo'[x] = NoClosure
        BY <2>1 DEF Exit
    <3> QED  BY <3>1 DEF LocalOK, HasBoxAt, ClosureGoodAt, AttachedAt, Modifying, NoClosure
  <2>2. CASE x \notin Mine(p)
    <3>1. Same(x)
        BY <2>2 DEF Exit, Same
    <3> QED  BY <1>0, <1>1, <3>1, LocalFrame DEF Side
  <2> QED  BY <2>1, <2>2
<1>3. MonitorProbes'
    BY <1>0, ProcFacts DEF Exit, MonitorProbes, NoClosure, Side
<1> QED  BY <1>2, <1>3 DEF Side

\* A failed boot.
LEMMA BootFailSide ==
    ASSUME Inv, NEW p \in Cli \cup {Monitor}, BootFail(p)
    PROVE  Side'
<1>0. Side /\ RestOK /\ p \in Procs /\ LocalOK(p) /\ MonitorProbes
    BY ProcFacts DEF Inv, Side
<1>1. /\ Grown(vms, vms')
      /\ \A x \in Procs : x # p => Same(x)
      /\ todo' = todo /\ op' = op /\ cur' = cur /\ clo' = clo /\ mem' = mem
      /\ pc[p] = "boot"
      /\ pc'[p] \in {"cands", "pick"}
    BY <1>0 DEF BootFail, Grown, Same, RestOK
<1>2. LocalOK(p)'
    BY <1>0, <1>1 DEF LocalOK, HasBoxAt, ClosureGoodAt, AttachedAt, Modifying
<1>3. MonitorProbes'
    BY <1>0, <1>1, ProcFacts DEF MonitorProbes, Same
<1> QED  BY <1>0, <1>1, <1>2, <1>3, SideOne

\* The call of a command.
LEMMA InvokeSide ==
    ASSUME Inv, NEW p \in Cli,
           \/ \E b \in Boxes : InvokeCreate(p, b) \/ \E o \in {"run", "runfg"} : InvokeRun(p, o, b)
           \/ \E o \in Ops : Invoke(p, o)
    PROVE  Side'
<1>0. Side /\ RestOK /\ p \in Procs /\ p # Monitor /\ p \notin Checkers /\ LocalOK(p) /\ clo[p] \in Closure
    BY ProcFacts DEF Inv, Side, RestOK
<1>1. /\ Grown(vms, vms')
      /\ \A x \in Procs : x # p => Same(x)
      /\ todo'[Monitor] = todo[Monitor]
      /\ pc[p] = "idle"
    BY <1>0, ProcFacts DEF InvokeCreate, InvokeRun, Invoke, Issue, Grown, Same, RestOK
<1>2. \/ pc'[p] = "lock" /\ cur'[p] \in Boxes /\ clo'[p] = [clo[p] EXCEPT !.f = "add"] /\ op'[p] = "create"
      \/ pc'[p] = "boot" /\ cur'[p] \in Boxes /\ clo' = clo /\ op'[p] \in {"run", "runfg"}
      \/ /\ pc'[p] = "load" /\ clo' = clo
         /\ op'[p] \in AllOps \ {"create", "run", "runfg"}
    BY <1>0, StateAssumption DEF InvokeCreate, InvokeRun, Invoke, Issue, RestOK
<1>3. LocalOK(p)'
    BY <1>0, <1>1, <1>2 DEF LocalOK, HasBoxAt, ClosureGoodAt, AttachedAt, Modifying, Closure, AllOps
<1> QED  BY <1>0, <1>1, <1>3, SideCli

\* `run` after its boot, and the rollbacks of `create` and `run`.
LEMMA RunSide ==
    ASSUME Inv, NEW p \in Cli,
           \/ RunAdd(p) \/ RunAttach(p) \/ RunStopped(p)
           \/ CreateRollback(p) \/ rollback_booted_setup(p) \/ cleanup_partial_box_record(p)
    PROVE  Side'
<1>0. Side /\ RestOK /\ p \in Procs /\ p # Monitor /\ p \notin Checkers /\ LocalOK(p) /\ clo[p] \in Closure
    BY ProcFacts DEF Inv, Side, RestOK
<1>1. Grown(vms, vms') /\ todo' = todo
  <2>1. CASE rollback_booted_setup(p)
      BY <1>0, <2>1, GrownState DEF rollback_booted_setup, SetVm
  <2> QED  BY <2>1 DEF RunAdd, RunAttach, RunStopped, CreateRollback, cleanup_partial_box_record, Grown
<1>2. CASE RunAttach(p)
  <2>1. SpawnAndGo(p, cur[p], "attached") /\ "attached" \in PC /\ op' = op /\ clo' = clo /\ mem' = mem
      BY <1>2 DEF RunAttach, PC
  <2>2. pc[p] = "attach" /\ cur[p] \in Boxes /\ clo[p].f = "none" /\ clo[p].pid = 0
      BY <1>0, <1>2 DEF RunAttach, LocalOK, HasBoxAt, ClosureGoodAt, Modifying
  <2>3. pc'[p] = "attached" /\ cur'[p] = cur[p] /\ pc'[Monitor] = pc[Monitor]
      BY <1>0, <2>1, ProcFacts DEF SpawnAndGo, RestOK
  <2>4. LocalOK(p)'
      BY <1>0, <2>1, <2>2, <2>3 DEF LocalOK, HasBoxAt, ClosureGoodAt, AttachedAt, Modifying
  <2>5. MonitorProbes'
      BY <1>0, <1>1, <2>1, <2>3 DEF MonitorProbes, Side
  <2> QED  BY <1>1, <2>1, <2>2, <2>4, <2>5, SpawnSide
<1>3. CASE RunAdd(p)
  <2>1. /\ \A x \in Procs : x # p => Same(x)
        /\ pc[p] = "pick" /\ pc'[p] = "save" /\ op' = op /\ cur' = cur /\ clo'[p] = NoClosure
        /\ op[p] \in {"run", "runfg"}
      BY <1>0, <1>3 DEF RunAdd, Goto, SetMem, Same, RestOK, Inv, Copies
  <2>2. clo[p].pid \in Nat /\ clo[p].pid # 0 /\ cur[p] \in Boxes
      BY <1>0, <1>3, <2>1 DEF RunAdd, Closure, LocalOK, HasBoxAt
  <2>3. mem'[p][cur[p]].pid = clo[p].pid
      BY <1>0, <1>3, <2>2 DEF RunAdd, SetMem, Put, apply_boot_result, Inv, Copies, Snapshot
  <2>4. LocalOK(p)'
      BY <1>0, <2>1, <2>2, <2>3 DEF LocalOK, HasBoxAt, ClosureGoodAt, AttachedAt, Modifying, NoClosure
  <2> QED  BY <1>0, <1>1, <2>1, <2>4, SideCli
<1>4. CASE RunStopped(p)
  <2>1. /\ \A x \in Procs : x # p => Same(x)
        /\ pc[p] = "pick" /\ pc'[p] \in {"pick", "save"} /\ op[p] = "fgend" /\ op'[p] = "end" /\ cur' = cur
        /\ clo'[p] = NoClosure
      BY <1>0, <1>4 DEF RunStopped, Goto, SetMem, Same, RestOK, Inv, Copies
  <2>2. LocalOK(p)'
      BY <1>0, <2>1 DEF LocalOK, HasBoxAt, ClosureGoodAt, AttachedAt, Modifying, NoClosure
  <2> QED  BY <1>0, <1>1, <2>1, <2>2, SideCli
<1>5. CASE CreateRollback(p) \/ cleanup_partial_box_record(p)
  <2>1. /\ \A x \in Procs : x # p => Same(x)
        /\ pc[p] = "pick" /\ pc'[p] \in {"load", "pick", "save"} /\ op[p] \in {"create", "rollback"}
        /\ op'[p] \in {"rollback", "end"} /\ cur' = cur /\ clo' = clo
      BY <1>0, <1>5 DEF CreateRollback, cleanup_partial_box_record, Goto, SetMem, Same, RestOK, Inv, Copies
  <2>2. LocalOK(p)'
      BY <1>0, <2>1 DEF LocalOK, HasBoxAt, ClosureGoodAt, AttachedAt, Modifying
  <2> QED  BY <1>0, <1>1, <2>1, <2>2, SideCli
<1>6. CASE rollback_booted_setup(p)
  <2>1. /\ \A x \in Procs : x # p => Same(x)
        /\ pc[p] \in {"attach", "pick"} /\ pc'[p] = "pick"
        /\ op'[p] = "rollback" /\ cur' = cur /\ clo' = clo
        /\ pc[p] = "pick" => clo[p] = NoClosure /\ op[p] = "run"
      BY <1>0, <1>6 DEF rollback_booted_setup, Goto, Same, RestOK
  <2>2. LocalOK(p)'
      BY <1>0, <2>1 DEF LocalOK, HasBoxAt, ClosureGoodAt, AttachedAt, Modifying, NoClosure
  <2> QED  BY <1>0, <1>1, <2>1, <2>2, SideCli
<1> QED  BY <1>2, <1>3, <1>4, <1>5, <1>6

\* The end of a foreground run: its sleeping checkers end, and it captures the
\* pid of its VM.
LEMMA RunEndSide ==
    ASSUME Inv, NEW p \in Cli, NEW byUser \in BOOLEAN, NEW code \in ExitCode, RunEnd(p, byUser, code)
    PROVE  Side'
<1> DEFINE q == mem[p][cur[p]].pid
<1>0. Side /\ RestOK /\ p \in Procs /\ p # Monitor /\ p \notin Checkers /\ LocalOK(p)
    BY ProcFacts DEF Inv, Side
<1>1. Grown(vms, vms')
    BY RunEndGrown DEF Inv
<1>2. pc[p] = "attached" /\ cur[p] \in Boxes /\ q # 0
    BY <1>0 DEF RunEnd, LocalOK, HasBoxAt, AttachedAt
<1>3. q \in Pids /\ vms[q].state # "free" /\ vms[q].box = cur[p]
    BY <1>0, <1>2 DEF Inv, Copies, Snap, GoodSnapshot, GoodRecord
<1>4. ASSUME NEW x \in Procs, x # p
      PROVE  LocalOK(x)'
  <2>0. LocalOK(x)
      BY <1>0 DEF Side
  <2>1. CASE Same(x)
      BY <1>1, <2>0, <2>1, LocalFrame
  <2>2. CASE ~Same(x)
    <3>1. x \in Checkers /\ pc[x] = "sleep" /\ pc'[x] = "idle" /\ op'[x] = op[x] /\ clo'[x] = clo[x]
        BY <1>0, <1>4, <2>2 DEF RunEnd, Mine, Same, RestOK
    <3> QED  BY <2>0, <3>1, ProcFacts DEF LocalOK, HasBoxAt, ClosureGoodAt, AttachedAt, Modifying
  <2> QED  BY <2>1, <2>2
<1>5. LocalOK(p)'
  <2>1. pc'[p] = "load" /\ op'[p] = "fgend" /\ cur'[p] = cur[p] /\ clo'[p].f = "none" /\ clo'[p].pid = q
      BY <1>0, <1>2 DEF RunEnd, RestOK
  <2>2. vms'[q].state # "free" /\ vms'[q].box = cur[p]
      BY <1>1, <1>3 DEF Grown
  <2> QED  BY <1>0, <1>2, <1>3, <2>1, <2>2 DEF LocalOK, HasBoxAt, ClosureGoodAt, AttachedAt, Modifying
<1>6. MonitorProbes'
  <2>1. pc'[Monitor] \in {pc[Monitor], "idle"} /\ clo'[Monitor] = clo[Monitor] /\ todo' = todo
      BY <1>0, ProcFacts DEF RunEnd, RestOK
  <2> QED  BY <1>0, <2>1 DEF MonitorProbes, Side
<1>7. ASSUME NEW x \in Procs
      PROVE  LocalOK(x)'
  <2>1. CASE x = p
      BY <1>5, <2>1 DEF LocalOK, HasBoxAt, ClosureGoodAt, AttachedAt, Modifying
  <2> QED  BY <1>4, <2>1
<1> QED  BY <1>6, <1>7 DEF Side

\* The monitor's own steps.
LEMMA MonitorSide ==
    ASSUME Inv,
           \/ MonitorPoll \/ MonitorDue \/ MonitorCandidates \/ MonitorSleep
           \/ \E b \in Boxes : MonitorBackOff(b) \/ MonitorRestart(b)
           \/ \E b \in Boxes, ok \in BOOLEAN : MonitorProbe(b, ok)
    PROVE  Side'
<1>0. /\ Side /\ RestOK /\ Monitor \in Procs /\ Monitor \notin Checkers /\ Monitor \notin Cli
      /\ LocalOK(Monitor) /\ MonitorProbes
    BY ProcFacts DEF Inv, Side
<1>1. /\ Grown(vms, vms')
      /\ op' = op
      /\ \A x \in Procs : x # Monitor => Same(x)
    BY <1>0 DEF MonitorPoll, MonitorDue, MonitorCandidates, MonitorSleep, MonitorBackOff, MonitorRestart,
                MonitorTake, MonitorProbe, Goto, Grown, Same, RestOK, Inv, Copies
<1>2. CASE MonitorPoll \/ MonitorCandidates \/ MonitorSleep \/ \E b \in Boxes : MonitorBackOff(b)
  <2>1. /\ pc[Monitor] \in {"idle", "probes", "cands"} /\ pc'[Monitor] \in {"load", "cands", "idle"}
        /\ clo' = clo
      BY <1>0, <1>2 DEF MonitorPoll, MonitorCandidates, MonitorSleep, MonitorBackOff, MonitorTake, Goto, RestOK
  <2>2. LocalOK(Monitor)' /\ MonitorProbes'
      BY <1>0, <1>1, <2>1 DEF LocalOK, HasBoxAt, ClosureGoodAt, AttachedAt, Modifying, MonitorProbes
  <2> QED  BY <1>0, <1>1, <2>2, SideOne
<1>3. CASE MonitorDue
  <2>1. /\ pc[Monitor] = "pick" /\ pc'[Monitor] = "probes"
        /\ clo' = clo /\ todo'[Monitor] \subseteq HasCheck
      BY <1>0, <1>3 DEF MonitorDue, Goto, RestOK
  <2>2. LocalOK(Monitor)' /\ MonitorProbes'
      BY <1>0, <1>1, <2>1 DEF LocalOK, HasBoxAt, ClosureGoodAt, AttachedAt, Modifying, MonitorProbes
  <2> QED  BY <1>0, <1>1, <2>2, SideOne
<1>4. ASSUME NEW b \in Boxes, MonitorRestart(b)
      PROVE  Side'
  <2>1. /\ pc[Monitor] = "cands" /\ pc'[Monitor] \in {"boot", "signal"}
        /\ clo' = clo /\ cur'[Monitor] = b
      BY <1>0, <1>4 DEF MonitorRestart, MonitorTake, Goto, RestOK
  <2>2. LocalOK(Monitor)' /\ MonitorProbes'
      BY <1>0, <1>1, <2>1 DEF LocalOK, HasBoxAt, ClosureGoodAt, AttachedAt, Modifying, MonitorProbes
  <2> QED  BY <1>0, <1>1, <2>2, SideOne
<1>5. ASSUME NEW b \in Boxes, NEW ok \in BOOLEAN, MonitorProbe(b, ok)
      PROVE  Side'
  <2>1. /\ pc[Monitor] = "probes" /\ pc'[Monitor] = "lock" /\ b \in todo[Monitor]
        /\ clo'[Monitor].f = "probe" /\ clo'[Monitor].pid = 0 /\ cur'[Monitor] = b
        /\ todo'[Monitor] \subseteq todo[Monitor]
      BY <1>0, <1>5 DEF MonitorProbe, Goto, RestOK
  <2>2. b \in HasCheck /\ todo'[Monitor] \subseteq HasCheck
      BY <1>0, <2>1 DEF MonitorProbes
  <2>3. LocalOK(Monitor)' /\ MonitorProbes'
      BY <1>0, <1>1, <2>1, <2>2 DEF LocalOK, HasBoxAt, ClosureGoodAt, AttachedAt, Modifying, MonitorProbes
  <2> QED  BY <1>0, <1>1, <2>3, SideOne
<1> QED  BY <1>2, <1>3, <1>4, <1>5

\* The health checkers' own steps.
LEMMA CheckerSide ==
    ASSUME Inv, NEW c \in Checkers, CheckerQuit(c) \/ \E ok \in BOOLEAN : CheckerProbe(c, ok)
    PROVE  Side'
<1>0. Side /\ RestOK /\ c \in Procs /\ c # Monitor /\ c \notin Cli /\ LocalOK(c)
    BY ProcFacts DEF Inv, Side
<1>1. /\ Grown(vms, vms')
      /\ \A x \in Procs : x # c => Same(x)
      /\ op' = op /\ todo' = todo /\ pc[c] = "sleep"
    BY <1>0 DEF CheckerQuit, CheckerProbe, Goto, Grown, Same, RestOK
<1>2. \/ pc'[c] = "idle" /\ clo' = clo
      \/ pc'[c] = "lock" /\ cur' = cur /\ clo'[c].f = "probe" /\ clo'[c].pid = 0
    BY <1>0 DEF CheckerQuit, CheckerProbe, Goto, RestOK
<1>3. LocalOK(c)'
    BY <1>0, <1>1, <1>2, RecordAssumption DEF LocalOK, HasBoxAt, ClosureGoodAt, AttachedAt, Modifying
<1> QED  BY <1>0, <1>1, <1>3, SideCli

\* The ends of VMs, and stuttering.
LEMMA StillSide ==
    ASSUME Inv, UNCHANGED local, Grown(vms, vms')
    PROVE  Side'
<1>1. ASSUME NEW x \in Procs
      PROVE  LocalOK(x)'
  <2>1. Same(x) /\ LocalOK(x)
      BY DEF local, Same, Inv, Side
  <2> QED  BY <2>1, LocalFrame
<1>2. MonitorProbes'
    BY DEF local, MonitorProbes, Inv, Side
<1> QED  BY <1>1, <1>2 DEF Side

\* Every step keeps what each process relies on.
LEMMA NextSide == Inv /\ [Next]_vars => Side'
<1> SUFFICES ASSUME Inv, [Next]_vars
             PROVE  Side'
    OBVIOUS
<1>0. /\ \A p \in Cli : p \in Procs /\ p \in Cli \cup {Monitor}
      /\ Monitor \in Procs /\ Monitor \in Cli \cup {Monitor}
      /\ \A c \in Checkers : c \in Procs
    BY ProcFacts
<1>1. ASSUME NEW p \in Cli, CliStep(p)
      PROVE  Side'
    BY <1>0, <1>1, StateFileSide, StopSide, BootSide, BootFailSide, BoxStepSide, RunSide, ExitSide
    DEF CliStep, Finish
<1>2. CASE MonitorStep
    BY <1>0, <1>2, StateFileSide, StopSide, BootSide, BootFailSide, MonitorSide DEF MonitorStep
<1>3. ASSUME NEW c \in Checkers, CheckerStep(c)
      PROVE  Side'
    BY <1>0, <1>3, StateFileSide, CheckerSide DEF CheckerStep, StateFileStep
<1>4. CASE UNCHANGED vars \/ \E q \in Pids : VmCrash(q) \/ \E code \in GuestCode : VmExit(q, code)
  <2>1. UNCHANGED local
      BY <1>4 DEF VmCrash, VmExit, vars, local
  <2>2. Grown(vms, vms')
      BY <1>4, VmEndGrown DEF vars, Grown, Inv
  <2> QED  BY <2>1, <2>2, StillSide
<1>5. CASE Environment
    BY <1>0, <1>4, <1>5, InvokeSide, RunEndSide, ExitSide DEF Environment, Crash
<1> QED  BY <1>1, <1>2, <1>3, <1>4, <1>5 DEF Next

-----------------------------------------------------------------------------
(* The theorems.                                                           *)

\* The invariant holds initially ...
LEMMA InitInv == Init => Inv
<1> SUFFICES ASSUME Init
             PROVE  Inv
    OBVIOUS
<1>1. RestOK
    BY StateAssumption DEF Init, RestOK, PC, Vm, ExitCode, GuestCode, NoClosure, Closure
<1>2. Copies(vms, file, mem, buf)
  <2>1. Snap(vms, file)
      BY NewGood DEF Init, Snap, Snapshot, GoodSnapshot
  <2> QED  BY <2>1, SnapEmpty DEF Init, Copies, Snap
<1>3. LockHeldInModify
    BY ProcFacts DEF Init, LockHeldInModify, Procs
<1>4. Side
    BY ProcFacts DEF Init, Side, LocalOK, HasBoxAt, ClosureGoodAt, AttachedAt, Modifying, MonitorProbes, NoClosure
<1> QED  BY <1>1, <1>2, <1>3, <1>4 DEF Inv

\* ... and is kept by every step.
LEMMA NextInv == Inv /\ [Next]_vars => Inv'
<1> SUFFICES ASSUME Inv, [Next]_vars
             PROVE  Inv'
    OBVIOUS
<1>1. Copies(vms, file, mem, buf)'
    BY NextCopies
<1> QED  BY <1>1, NextType, NextLock, NextSide DEF Inv

\* Every reachable state is described by the invariant.
LEMMA Invariance == Spec => []Inv
    BY InitInv, NextInv, PTL DEF Spec

\* Every variable keeps its type, for any number of boxes, commands, checkers,
\* restarts and crashes.
THEOREM TypeCorrect == Spec => []TypeOK
<1>1. Inv => TypeOK
    BY DEF Inv, RestOK, Copies, Snap, TypeOK
<1> QED  BY <1>1, Invariance, PTL

\* No interleaving of load, save and modify by commands, monitor and health
\* checkers, with crashes and VM deaths anywhere, writes a self-contradictory
\* record: boxes.json and all copies in memory stay consistent.
THEOREM Consistent == Spec => []RecordsConsistent
<1>1. Inv => RecordsConsistent
    BY DEF Inv, Copies, Snap, RecordsConsistent
<1> QED  BY <1>1, Invariance, PTL

\* StateLock excludes: at most one process is inside `modify`, and a process
\* killed there leaves the lock free.
THEOREM ModifyExcludes == Spec => []LockHeldInModify
<1>1. Inv => LockHeldInModify
    BY DEF Inv
<1> QED  BY <1>1, Invariance, PTL
=============================================================================
