---------------------------- MODULE BoxUse_proofs ----------------------------
(***************************************************************************)
(* What boxes.json promises to particular uses of the CLI.  One command at *)
(* a time beside the monitor keeps the restart limit, for boxes without a  *)
(* health check; one command at a time without the monitor neither orphans *)
(* a VM nor leaves one frozen, with health checkers running beside it.     *)
(***************************************************************************)
EXTENDS BoxState_proofs

Present(s, b) == s[b].status # "absent"

InModify(p) == pc[p] \in {"mrwrite", "mwrite"}

\* There is one slot for commands at most.
OneCommand == \A p, q \in Cli : p = q

\* Every copy holds records, and a missing record is NoRecord.
LEMMA CopyFacts ==
    ASSUME NEW v, NEW f, NEW m, NEW k, Copies(v, f, m, k), NEW b \in Boxes
    PROVE  /\ f[b] \in Record /\ (~Present(f, b) => f[b] = NoRecord)
           /\ \A p \in Procs : /\ m[p][b] \in Record /\ (~Present(m[p], b) => m[p][b] = NoRecord)
                               /\ k[p][b] \in Record /\ (~Present(k[p], b) => k[p][b] = NoRecord)
    BY DEF Copies, Snap, Snapshot, GoodSnapshot, GoodRecord, Present

\* Counts are numbers, before and after a step.
LEMMA Counts ==
    ASSUME Inv, Inv', NEW b \in Boxes, NEW p \in Procs
    PROVE  /\ file[b].count \in Nat /\ mem[p][b].count \in Nat /\ buf[p][b].count \in Nat
           /\ file'[b].count \in Nat /\ mem'[p][b].count \in Nat /\ buf'[p][b].count \in Nat
<1>1. Copies(vms, file, mem, buf) /\ Copies(vms', file', mem', buf')
    BY DEF Inv
<1> QED  BY <1>1, CopyFacts DEF Record

\* The missing record and the empty snapshot count nothing.
LEMMA NoCount ==
    /\ NoRecord.count = 0 /\ NoRecord.status = "absent" /\ NoRecord.pid = 0
    /\ NewRecord.count = 0 /\ NewRecord.status = "created" /\ NewRecord.pid = 0
    /\ \A b \in Boxes : Empty[b] = NoRecord
    BY DEF NoRecord, NewRecord, Empty

\* Reconciliation drops a record or keeps its count.
LEMMA ReconcileCount ==
    ASSUME Inv, NEW s \in Snapshot, NEW b \in Boxes
    PROVE  /\ reconcile(s)[b] \in {s[b], NoRecord, MarkDead(s[b], LeftCode(b))}
           /\ reconcile(s)[b].count <= s[b].count
           /\ Present(reconcile(s), b) => reconcile(s)[b].count = s[b].count /\ (is_active(s[b]) \/ Present(s, b))
<1>1. s[b] \in Record
    BY DEF Snapshot
<1>2. reconcile(s)[b] = ReconcileRecord(b, s[b], is_process_alive(s[b].pid), LeftCode(b))
    BY DEF reconcile
<1>3. MarkDead(s[b], LeftCode(b)).count = s[b].count
    BY <1>1 DEF MarkDead, Record
<1>4. s[b].count \in Nat /\ NoRecord.count = 0 /\ NoRecord.status = "absent"
    BY <1>1, NoCount DEF Record
<1>5. is_active(s[b]) => s[b].status # "absent"
    BY DEF is_active
<1> QED  BY <1>2, <1>3, <1>4, <1>5 DEF ReconcileRecord, Present

-----------------------------------------------------------------------------
(* The restart limit                                                       *)

\* Command p counts no more than n restarts of b, in either of its copies.
Below(p, b, n) == mem[p][b].count <= n /\ buf[p][b].count <= n

\* The file and the commands count no more restarts of b than s does.
Tops(s, b) == file[b].count <= s[b].count /\ \A p \in Cli : Below(p, b, s[b].count)

\* The monitor records the verdict of a probe.
Probing == Modifying(Monitor) /\ clo[Monitor].f = "probe"

\* The monitor stops or boots the box at hand, or records that.
Acting == pc[Monitor] \in {"signal", "await", "boot"} \/ (Modifying(Monitor) /\ ~Probing)

\* The boxes whose record the monitor may still act upon in this poll.
Pending ==
    IF pc[Monitor] \in {"rwrite", "pick", "probes"} \/ Probing THEN Boxes
    ELSE IF pc[Monitor] = "cands" THEN todo[Monitor]
    ELSE IF Acting THEN todo[Monitor] \cup {cur[Monitor]}
    ELSE {}

BelowLimit(b, r) == MaxRestart[b] > 0 => r.count < MaxRestart[b]

\* The boxes the monitor has chosen were below the limit when it loaded the file.
MonitorOK ==
    /\ pc[Monitor] \in {"idle", "load", "rwrite", "pick", "probes", "cands"} \/ Acting \/ Probing
    /\ Modifying(Monitor) => clo[Monitor].f \in {"probe", "dead", "boot"}
    /\ ~InModify(Monitor) => buf[Monitor] = Empty
    /\ pc[Monitor] = "cands" \/ Acting =>
         \A b \in Pending : Present(mem[Monitor], b) /\ BelowLimit(b, mem[Monitor][b])
    /\ Acting => cur[Monitor] \notin todo[Monitor]

\* A command modifies the file to add a record, before it loads any, or to remove one,
\* which it has dropped itself.
CommandOK(p) ==
    /\ pc[p] = "idle" => mem[p] = Empty
    /\ Modifying(p) => \/ clo[p].f = "add" /\ mem[p] = Empty
                       \/ clo[p].f = "remove" /\ mem[p][cur[p]] = NoRecord
    /\ ~InModify(p) => buf[p] = Empty
    /\ \A b \in Boxes : Present(buf[p], b) => mem[p][b].count <= buf[p][b].count

\* Only the monitor raises a count, so what a command holds is not above the file, and
\* nothing is above what the monitor decided upon.
Ordered ==
    /\ \A b \in Boxes : Present(file, b) => \A p \in Cli : Below(p, b, file[b].count)
    /\ \A b \in Pending : Present(mem[Monitor], b) =>
         Tops(mem[Monitor], b) /\ buf[Monitor][b].count <= mem[Monitor][b].count
    /\ \A b \in Boxes : Present(buf[Monitor], b) => Tops(buf[Monitor], b)

Limited(s) == \A b \in Boxes : MaxRestart[b] > 0 => s[b].count <= MaxRestart[b]

Limits == RestartsBounded /\ \A p \in Cli \cup {Monitor} : Limited(mem[p]) /\ Limited(buf[p])

LimitInv == MonitorOK /\ (\A p \in Cli : CommandOK(p)) /\ Ordered /\ Limits

\* Process x keeps its local state.
Still(x) ==
    /\ pc'[x] = pc[x] /\ todo'[x] = todo[x] /\ cur'[x] = cur[x]
    /\ mem'[x] = mem[x] /\ buf'[x] = buf[x] /\ clo'[x] = clo[x]

\* A step of a command on its own copies, which raises no count in them.
LEMMA CommandKept ==
    ASSUME Inv, Inv', LimitInv, file' = file, Still(Monitor),
           \A x \in Cli : CommandOK(x)',
           \A x \in Cli : \A b \in Boxes : /\ mem'[x][b].count <= mem[x][b].count
                                           /\ buf'[x][b].count <= buf[x][b].count
    PROVE  LimitInv'
<1>1. MonitorOK' /\ Pending' = Pending
    BY DEF LimitInv, MonitorOK, Pending, Acting, Probing, Modifying, InModify, Still, Present, BelowLimit
<1>2. ASSUME NEW x \in Cli, NEW b \in Boxes, NEW n \in Nat, Below(x, b, n)
      PROVE  Below(x, b, n)'
  <2>1. x \in Procs
      BY ProcFacts
  <2>2. /\ mem[x][b].count \in Nat /\ buf[x][b].count \in Nat
        /\ mem'[x][b].count \in Nat /\ buf'[x][b].count \in Nat
      BY <2>1, Counts
  <2> QED  BY <1>2, <2>2 DEF Below
<1>3. /\ \A b \in Boxes : file[b].count \in Nat
      /\ \A b \in Boxes : mem[Monitor][b].count \in Nat /\ buf[Monitor][b].count \in Nat
    BY Counts, ProcFacts
<1>4. Pending \subseteq Boxes
    BY ProcFacts DEF Pending, Acting, Probing, Inv, RestOK, Side, LocalOK, HasBoxAt, Modifying
<1>5. Ordered'
    BY <1>1, <1>2, <1>3, <1>4 DEF LimitInv, Ordered, Tops, Still, Present, Below
<1>6. ASSUME NEW x \in Cli
      PROVE  Limited(mem'[x]) /\ Limited(buf'[x])
  <2>1. x \in Procs /\ Limited(mem[x]) /\ Limited(buf[x]) /\ MaxRestart \in [Boxes -> Nat]
      BY ProcFacts, RecordAssumption DEF LimitInv, Limits
  <2> QED  BY <2>1, Counts DEF Limited
<1>7. Limits'
    BY <1>6 DEF LimitInv, Limits, RestartsBounded, Still
<1> QED  BY <1>1, <1>5, <1>7 DEF LimitInv

\* Command p changes at most one record of its snapshot and does not raise its count.
Unraised(p) ==
    \/ mem' = mem
    \/ \E b \in Boxes : \E r : /\ mem' = [mem EXCEPT ![p] = Put(@, b, r)]
                           /\ r.count <= mem[p][b].count

\* Such a step, when it touches neither the file nor the monitor and is not part of modify.
LEMMA CommandStep ==
    ASSUME Inv, Inv', LimitInv, OneCommand, NEW p \in Cli, file' = file, Still(Monitor),
           Unraised(p), buf' = buf, ~Modifying(p), ~Modifying(p)', pc'[p] # "idle"
    PROVE  LimitInv'
<1>1. p \in Procs /\ mem \in [Procs -> Snapshot] /\ \A x \in Cli : x = p
    BY ProcFacts DEF Inv, Copies, OneCommand
<1>2. buf[p] = Empty /\ buf'[p] = Empty
    BY DEF LimitInv, CommandOK, Modifying, InModify
<1>3. \A b \in Boxes : ~Present(Empty, b)
    BY NoCount DEF Present
<1>4. CommandOK(p)'
    BY <1>2, <1>3 DEF CommandOK, Modifying, InModify
<1>5. \A b \in Boxes : mem[p][b].count \in Nat /\ buf[p][b].count \in Nat
    BY <1>1, Counts
<1>6. ASSUME NEW b \in Boxes
      PROVE  mem'[p][b].count <= mem[p][b].count /\ buf'[p][b].count <= buf[p][b].count
    BY <1>1, <1>5 DEF Put, Snapshot, Unraised
<1>7. /\ \A x \in Cli : CommandOK(x)'
      /\ \A x \in Cli : \A b \in Boxes : /\ mem'[x][b].count <= mem[x][b].count
                                         /\ buf'[x][b].count <= buf[x][b].count
  <2> SUFFICES ASSUME NEW x \in Cli
               PROVE  /\ CommandOK(x)'
                      /\ \A b \in Boxes : /\ mem'[x][b].count <= mem[x][b].count
                                          /\ buf'[x][b].count <= buf[x][b].count
      OBVIOUS
  <2>1. x = p
      BY <1>1
  <2> QED  BY <2>1, <1>4, <1>6 DEF CommandOK, Modifying, InModify
<1> QED  BY <1>7, CommandKept

\* The counts that the functions on records leave.
LEMMA RecordCounts ==
    ASSUME NEW r \in Record
    PROVE  /\ \A b, q : /\ apply_boot_result(b, r, q, "Reset").count = 0
                        /\ apply_boot_result(b, r, q, "Preserve").count = r.count
                        /\ apply_boot_result(b, r, q, "Increment").count = r.count + 1
                        /\ apply_boot_result(b, r, q, "Increment").status = "running"
           /\ \A c : MarkStopped(r, c).count = r.count
           /\ MarkRestarting(r).count = r.count
           /\ \A c, u : mark_record_stopped(r, c, u).count = r.count
           /\ \A s : [r EXCEPT !.status = s].count = r.count
    BY DEF Record, apply_boot_result, RestartCount, MarkStopped, MarkRestarting, mark_record_stopped

\* The graceful stop.
LEMMA StopLimit ==
    ASSUME Inv, Inv', LimitInv, OneCommand, NEW p \in Cli, StopStep(p)
    PROVE  LimitInv'
<1>1. /\ p \in Procs /\ p # Monitor /\ Monitor \in Procs
      /\ cur[p] \in Boxes
    BY ProcFacts DEF Inv, Side, LocalOK, HasBoxAt, StopStep, StopAlreadyExited, StopSignal, StopExited, StopTimeout
<1>2. /\ mem[p][cur[p]] \in Record /\ GoodRecord(vms, cur[p], mem[p][cur[p]])
      /\ NoRecord \in Record /\ NoRecord.count = 0
    BY <1>1, NewGood, NoCount DEF Inv, Copies, Snap, Snapshot, GoodSnapshot
<1>3. ASSUME NEW code \in ExitCode, StopDone(p, code), pc \in [Procs -> PC]
      PROVE  Unraised(p) /\ pc' = [pc EXCEPT ![p] = "save"] /\ clo' = clo
  <2>1. /\ MarkRestarting(mem[p][cur[p]]) \in Record
        /\ MarkStopped(mem[p][cur[p]], code) \in Record
      BY <1>1, <1>2, StopGood, DownGood
  <2>2. mem[p][cur[p]].count \in Nat
      BY <1>2 DEF Record
  <2>3. PICK r \in Record : mem' = [mem EXCEPT ![p] = Put(@, cur[p], r)] /\ r.count <= mem[p][cur[p]].count
      BY <1>1, <1>2, <1>3, <2>1, <2>2, RecordCounts DEF StopDone, SetMem
  <2> QED  BY <1>1, <1>3, <2>3 DEF StopDone, Goto, Unraised
<1>4. /\ file' = file /\ buf' = buf /\ todo' = todo /\ cur' = cur /\ clo' = clo /\ Unraised(p)
      /\ \/ pc' = [pc EXCEPT ![p] = "save"]
         \/ pc' = [pc EXCEPT ![p] = "await"]
  <2>1. pc \in [Procs -> PC] /\ {"none", "signalled", "killed"} \subseteq ExitCode
      BY DEF Inv, RestOK, ExitCode
  <2>2. CASE StopSignal(p)
      BY <2>1, <2>2 DEF StopSignal, Goto, shared, Unraised
  <2>3. CASE StopAlreadyExited(p)
      BY <2>1, <2>3, <1>3 DEF StopAlreadyExited, shared
  <2>4. CASE StopExited(p)
      BY <2>1, <2>4, <1>3 DEF StopExited, shared
  <2>5. CASE StopTimeout(p)
      BY <2>1, <2>5, <1>3 DEF StopTimeout, shared
  <2> QED  BY <2>2, <2>3, <2>4, <2>5 DEF StopStep
<1>5. pc[p] \in {"signal", "await"} /\ pc \in [Procs -> PC] /\ mem \in [Procs -> Snapshot]
    BY DEF StopStep, StopAlreadyExited, StopSignal, StopExited, StopTimeout, Inv, RestOK, Copies
<1>6. Still(Monitor) /\ ~Modifying(p) /\ ~Modifying(p)' /\ pc'[p] # "idle"
    BY <1>1, <1>4, <1>5 DEF Still, Modifying, Unraised
<1> QED  BY <1>4, <1>6, CommandStep

\* A step into modify: of `create`, whose snapshot is still empty, or of `rm`.
LEMMA LockLimit ==
    ASSUME Inv, Inv', LimitInv, OneCommand, NEW p \in Cli,
           \E b \in Boxes : InvokeCreate(p, b) \/ rm_one(p, b)
    PROVE  LimitInv'
<1>1. /\ p \in Procs /\ p # Monitor /\ Monitor \in Procs /\ \A x \in Cli : x = p
      /\ mem \in [Procs -> Snapshot] /\ pc \in [Procs -> PC] /\ cur \in [Procs -> Boxes \cup {NoBox}]
      /\ clo \in [Procs -> Closure] /\ todo \in [Procs -> SUBSET Boxes]
    BY ProcFacts DEF Inv, Copies, OneCommand, RestOK
<1>2. PICK b \in Boxes : InvokeCreate(p, b) \/ rm_one(p, b)
    OBVIOUS
<1>3. /\ file' = file /\ buf' = buf /\ Still(Monitor) /\ pc[p] \in {"idle", "pick"}
      /\ pc'[p] = "lock"
    BY <1>1, <1>2 DEF InvokeCreate, Issue, rm_one, Handle, Goto, SetMem, shared, Still
<1>4. buf[p] = Empty
    BY <1>3 DEF LimitInv, CommandOK, InModify
<1>5. \A b1 \in Boxes : mem'[p][b1] \in {mem[p][b1], NoRecord}
    BY <1>1, <1>2 DEF InvokeCreate, rm_one, SetMem, Put, Snapshot
<1>6. \/ clo'[p].f = "add" /\ mem'[p] = Empty
      \/ clo'[p].f = "remove" /\ mem'[p][cur'[p]] = NoRecord
  <2>1. CASE InvokeCreate(p, b)
    <3>1. mem[p] = Empty
        BY <2>1 DEF InvokeCreate, Issue, LimitInv, CommandOK
    <3>2. mem' = mem /\ clo' = [clo EXCEPT ![p].f = "add"]
        BY <2>1 DEF InvokeCreate
    <3>3. clo'[p].f = "add"
        BY <1>1, <3>2 DEF Closure
    <3> QED  BY <3>1, <3>2, <3>3
  <2>2. CASE rm_one(p, b)
      BY <1>1, <2>2 DEF rm_one, Handle, SetMem, Put, Snapshot, Closure
  <2> QED  BY <1>2, <2>1, <2>2
<1>7. \A b1 \in Boxes : ~Present(Empty, b1)
    BY NoCount DEF Present
<1>8. CommandOK(p)'
    BY <1>3, <1>4, <1>6, <1>7 DEF CommandOK, Modifying, InModify
<1>9. \A b1 \in Boxes : /\ mem'[p][b1].count <= mem[p][b1].count
                        /\ buf'[p][b1].count <= buf[p][b1].count
    BY <1>1, <1>3, <1>5, NoCount, Counts
<1>10. \A x \in Cli : CommandOK(x)'
  <2> SUFFICES ASSUME NEW x \in Cli
               PROVE  CommandOK(x)'
      OBVIOUS
  <2>1. x = p
      BY <1>1
  <2> QED  BY <2>1, <1>8 DEF CommandOK, Modifying, InModify
<1> QED  BY <1>1, <1>3, <1>9, <1>10, CommandKept

\* The work of a command on one of its boxes.
LEMMA BoxStepLimit ==
    ASSUME Inv, Inv', LimitInv, OneCommand, NEW p \in Cli, NEW b \in Boxes, BoxStep(p, b)
    PROVE  LimitInv'
<1>1. /\ p \in Procs /\ p # Monitor /\ Monitor \in Procs
      /\ pc \in [Procs -> PC] /\ cur \in [Procs -> Boxes \cup {NoBox}] /\ todo \in [Procs -> SUBSET Boxes]
      /\ mem \in [Procs -> Snapshot] /\ mem[p][b] \in Record /\ mem[p][b].count \in Nat
    BY ProcFacts DEF Inv, Copies, RestOK, Snapshot, Record
<1>2. CASE rm_one(p, b)
    BY <1>2, LockLimit
<1>3. CASE ~rm_one(p, b)
  <2>1. /\ file' = file /\ buf' = buf /\ clo' = clo /\ pc[p] = "pick"
        /\ \E l \in {"pick", "boot", "signal", "save"} : pc' = [pc EXCEPT ![p] = l]
        /\ todo' = [todo EXCEPT ![p] = @ \ {b}]
        /\ cur' = cur \/ cur' = [cur EXCEPT ![p] = b]
      BY <1>1, <1>3 DEF BoxStep, Reject, start_one, stop_one, kill_one, SetPaused, SetRunning, KillOther,
                PruneOne, TouchOne, Handle, Goto, shared
  <2>2. Unraised(p)
    <3>1. ASSUME NEW r, mem' = [mem EXCEPT ![p] = Put(@, b, r)], r.count = 0 \/ r.count = mem[p][b].count
          PROVE  Unraised(p)
      <4>1. r.count <= mem[p][b].count
          BY <1>1, <3>1
      <4> QED  BY <3>1, <4>1, Zenon DEF Unraised
    <3>2. CASE kill_one(p, b)
        BY <1>1, <3>1, <3>2, NoCount, RecordCounts DEF kill_one, SetMem
    <3>3. CASE SetPaused(p, b) \/ SetRunning(p, b)
      <4>1. PICK s : mem' = [mem EXCEPT ![p] = Put(@, b, [mem[p][b] EXCEPT !.status = s])]
          BY <3>3 DEF SetPaused, SetRunning, SetMem
      <4>2. [mem[p][b] EXCEPT !.status = s].count = mem[p][b].count
          BY <1>1, RecordCounts
      <4> QED  BY <3>1, <4>1, <4>2
    <3>4. CASE PruneOne(p, b)
        BY <3>1, <3>4, NoCount DEF PruneOne, SetMem
    <3>5. CASE mem' = mem
        BY <3>5 DEF Unraised
    <3> QED  BY <1>3, <3>2, <3>3, <3>4, <3>5
             DEF BoxStep, Reject, start_one, stop_one, KillOther, TouchOne
  <2>3. mem'[Monitor] = mem[Monitor]
      BY <1>1, <2>2 DEF Unraised
  <2>4. Still(Monitor) /\ ~Modifying(p) /\ ~Modifying(p)' /\ pc'[p] # "idle"
      BY <1>1, <2>1, <2>3 DEF Still, Modifying
  <2> QED  BY <2>1, <2>2, <2>4, CommandStep
<1> QED  BY <1>2, <1>3

\* Boots: `start` resets the count, `restart` and `run` keep it.
LEMMA BootLimit ==
    ASSUME Inv, Inv', LimitInv, OneCommand, Checkers = {}, NEW p \in Cli,
           \/ BootFail(p)
           \/ \E q \in Pids : BootCommand(p, q) \/ BootRun(p, q)
    PROVE  LimitInv'
<1>1. /\ p \in Procs /\ p # Monitor /\ Monitor \in Procs /\ pc[p] = "boot" /\ cur[p] \in Boxes
      /\ pc \in [Procs -> PC] /\ clo \in [Procs -> Closure] /\ mem \in [Procs -> Snapshot]
    BY ProcFacts DEF Inv, RestOK, Copies, Side, LocalOK, HasBoxAt, BootFail, BootCommand, BootRun
<1>2. mem[p][cur[p]] \in Record /\ mem[p][cur[p]].count \in Nat
    BY <1>1 DEF Snapshot, Record
<1>3. /\ file' = file /\ buf' = buf /\ todo' = todo /\ cur' = cur
      /\ \E l \in {"pick", "save", "load"} : pc' = [pc EXCEPT ![p] = l]
      /\ clo' = clo \/ \E q \in Pids : clo' = [clo EXCEPT ![p].pid = q]
    BY <1>1 DEF BootFail, BootCommand, BootRun, SpawnAndGo, shared
<1>4. Unraised(p)
  <2>1. CASE mem' = mem
      BY <2>1 DEF Unraised
  <2>2. ASSUME NEW q \in Pids, BootCommand(p, q)
        PROVE  Unraised(p)
    <3> DEFINE r == apply_boot_result(cur[p], mem[p][cur[p]], q, IF op[p] = "start" THEN "Reset" ELSE "Preserve")
    <3>1. mem' = [mem EXCEPT ![p] = Put(@, cur[p], r)]
        BY <2>2 DEF BootCommand
    <3>2. r.count <= mem[p][cur[p]].count
        BY <1>2, RecordCounts
    <3> HIDE DEF r
    <3> QED  BY <1>1, <3>1, <3>2, Zenon DEF Unraised
  <2> QED  BY <2>1, <2>2 DEF BootFail, BootRun
<1>5. mem'[Monitor] = mem[Monitor]
    BY <1>1, <1>4 DEF Unraised
<1>6. Still(Monitor) /\ ~Modifying(p) /\ ~Modifying(p)' /\ pc'[p] # "idle"
    BY <1>1, <1>3, <1>5 DEF Still, Modifying
<1> QED  BY <1>3, <1>4, <1>6, CommandStep

\* `run` after its boot, its end in the foreground, and the rollbacks.
LEMMA RunLimit ==
    ASSUME Inv, Inv', LimitInv, OneCommand, Checkers = {}, NEW p \in Cli,
           \/ RunAdd(p) \/ RunAttach(p) \/ RunStopped(p)
           \/ \E byUser \in BOOLEAN, code \in ExitCode : RunEnd(p, byUser, code)
           \/ CreateRollback(p) \/ rollback_booted_setup(p) \/ cleanup_partial_box_record(p)
    PROVE  LimitInv'
<1>1. /\ p \in Procs /\ p # Monitor /\ Monitor \in Procs /\ Monitor \notin Mine(p)
      /\ pc \in [Procs -> PC] /\ clo \in [Procs -> Closure] /\ mem \in [Procs -> Snapshot]
      /\ cur \in [Procs -> Boxes \cup {NoBox}]
      /\ pc[p] \in {"pick", "attach", "attached"}
    BY ProcFacts DEF Inv, RestOK, Copies, Mine, RunAdd, RunAttach, RunStopped, RunEnd, CreateRollback,
       rollback_booted_setup, cleanup_partial_box_record
<1>2. /\ file' = file /\ buf' = buf /\ todo' = todo
    BY DEF RunAdd, RunAttach, RunStopped, RunEnd, CreateRollback, rollback_booted_setup,
       cleanup_partial_box_record, shared
<1>3. /\ pc'[p] \in {"pick", "load", "save", "attached"} /\ pc'[Monitor] = pc[Monitor]
      /\ cur'[Monitor] = cur[Monitor] /\ clo'[Monitor] = clo[Monitor]
  <2>1. ASSUME NEW byUser, NEW code, RunEnd(p, byUser, code)
        PROVE  /\ pc'[p] = "load" /\ pc'[Monitor] = pc[Monitor]
               /\ cur'[Monitor] = cur[Monitor] /\ clo'[Monitor] = clo[Monitor]
      BY <1>1, <2>1 DEF RunEnd
  <2>2. CASE RunAdd(p) \/ RunAttach(p) \/ RunStopped(p)
      BY <1>1, <2>2 DEF RunAdd, RunAttach, RunStopped, Goto, SpawnAndGo
  <2>3. CASE CreateRollback(p) \/ rollback_booted_setup(p) \/ cleanup_partial_box_record(p)
      BY <1>1, <2>3 DEF CreateRollback, rollback_booted_setup, cleanup_partial_box_record, Goto
  <2> QED  BY <2>1, <2>2, <2>3
<1>4. Unraised(p)
  <2>1. CASE mem' = mem
      BY <2>1 DEF Unraised
  <2>2. ASSUME NEW r, mem' = [mem EXCEPT ![p] = Put(@, cur[p], r)], cur[p] \in Boxes,
               r.count = 0 \/ r.count = mem[p][cur[p]].count
        PROVE  Unraised(p)
    <3>1. mem[p][cur[p]].count \in Nat
        BY <1>1, <2>2 DEF Snapshot, Record
    <3>2. r.count <= mem[p][cur[p]].count
        BY <2>2, <3>1
    <3> QED  BY <2>2, <3>2, Zenon DEF Unraised
  <2>3. RunAdd(p) \/ RunStopped(p) \/ cleanup_partial_box_record(p) => cur[p] \in Boxes
      BY <1>1 DEF RunAdd, RunStopped, cleanup_partial_box_record, Inv, Side, LocalOK, HasBoxAt
  <2>4. CASE RunAdd(p)
    <3> DEFINE r == apply_boot_result(cur[p], NewRecord, clo[p].pid, "Reset")
    <3>1. mem' = [mem EXCEPT ![p] = Put(@, cur[p], r)]
        BY <2>4 DEF RunAdd, SetMem
    <3>2. r.count = 0
        BY NewGood, RecordCounts
    <3> HIDE DEF r
    <3> QED  BY <2>2, <2>3, <2>4, <3>1, <3>2
  <2>5. CASE cleanup_partial_box_record(p)
      BY <2>2, <2>3, <2>5, NoCount DEF cleanup_partial_box_record, SetMem
  <2>6. CASE RunStopped(p)
    <3> DEFINE r == mark_record_stopped(mem[p][cur[p]], vms[clo[p].pid].code, clo[p].ok)
    <3>1. \/ mem' = [mem EXCEPT ![p] = Put(@, cur[p], r)]
          \/ mem' = [mem EXCEPT ![p] = Put(@, cur[p], NoRecord)]
        BY <2>6 DEF RunStopped, SetMem
    <3>2. r.count = mem[p][cur[p]].count
      <4>1. mem[p][cur[p]] \in Record
          BY <1>1, <2>3, <2>6 DEF Snapshot
      <4> QED  BY <4>1, RecordCounts
    <3> HIDE DEF r
    <3> QED  BY <2>2, <2>3, <2>6, <3>1, <3>2, NoCount
  <2> QED  BY <2>1, <2>4, <2>5, <2>6 DEF RunAttach, RunEnd, CreateRollback, rollback_booted_setup
<1>5. mem'[Monitor] = mem[Monitor]
    BY <1>1, <1>4 DEF Unraised
<1>6. Still(Monitor) /\ ~Modifying(p) /\ ~Modifying(p)' /\ pc'[p] # "idle"
    BY <1>1, <1>2, <1>3, <1>5 DEF Still, Modifying
<1> QED  BY <1>2, <1>4, <1>6, CommandStep

\* A command is issued.
LEMMA InvokeLimit ==
    ASSUME Inv, Inv', LimitInv, OneCommand, NEW p \in Cli,
           \/ \E b \in Boxes, o \in {"run", "runfg"} : InvokeRun(p, o, b)
           \/ \E o \in Ops : Invoke(p, o)
    PROVE  LimitInv'
<1>1. /\ p \in Procs /\ p # Monitor /\ Monitor \in Procs
      /\ pc \in [Procs -> PC] /\ todo \in [Procs -> SUBSET Boxes] /\ cur \in [Procs -> Boxes \cup {NoBox}]
    BY ProcFacts DEF Inv, RestOK
<1>2. /\ file' = file /\ buf' = buf /\ mem' = mem /\ clo' = clo /\ pc[p] = "idle"
      /\ \E l \in {"boot", "load"} : pc' = [pc EXCEPT ![p] = l]
      /\ todo' = todo \/ \E s : todo' = [todo EXCEPT ![p] = s]
      /\ cur' = cur \/ \E b : cur' = [cur EXCEPT ![p] = b]
    BY DEF InvokeRun, Invoke, Issue
<1>3. Still(Monitor) /\ ~Modifying(p) /\ ~Modifying(p)' /\ pc'[p] # "idle" /\ Unraised(p)
    BY <1>1, <1>2 DEF Still, Modifying, Unraised
<1> QED  BY <1>2, <1>3, CommandStep

\* A command or the monitor ends, by itself or killed.
LEMMA ExitLimit ==
    ASSUME Inv, Inv', LimitInv, OneCommand, NEW p \in Cli \cup {Monitor}, Exit(p)
    PROVE  LimitInv'
<1>0. \A b \in Boxes : ~Present(Empty, b) /\ Empty[b].count = 0
    BY NoCount DEF Present
<1>1. CASE p \in Cli
  <2>1. p \in Procs /\ Monitor \in Procs /\ Monitor \notin Mine(p) /\ p \in Mine(p) /\ \A x \in Cli : x = p
      BY <1>1, ProcFacts DEF Mine, OneCommand
  <2>2. Still(Monitor) /\ file' = file
      BY <2>1 DEF Exit, Still
  <2>3. pc'[p] = "idle" /\ mem'[p] = Empty /\ buf'[p] = Empty
      BY <2>1 DEF Exit
  <2>4. CommandOK(p)'
      BY <1>0, <2>3 DEF CommandOK, Modifying, InModify
  <2>5. \A b \in Boxes : /\ mem'[p][b].count <= mem[p][b].count
                         /\ buf'[p][b].count <= buf[p][b].count
      BY <1>0, <2>1, <2>3, Counts
  <2>6. \A x \in Cli : CommandOK(x)'
    <3> SUFFICES ASSUME NEW x \in Cli
                 PROVE  CommandOK(x)'
        OBVIOUS
    <3>1. x = p
        BY <2>1
    <3> QED  BY <3>1, <2>4 DEF CommandOK, Modifying, InModify
  <2> QED  BY <2>1, <2>2, <2>5, <2>6, CommandKept
<1>2. CASE p = Monitor
  <2>1. Monitor \in Procs /\ Monitor \in Mine(p) /\ \A x \in Cli : x \in Procs /\ x \notin Mine(p)
      BY <1>2, ProcFacts DEF Mine
  <2>2. /\ file' = file /\ \A x \in Cli : Still(x)
        /\ pc'[Monitor] = "idle" /\ cur'[Monitor] = NoBox /\ todo'[Monitor] = {}
        /\ mem'[Monitor] = Empty /\ buf'[Monitor] = Empty
      BY <2>1 DEF Exit, Still
  <2>3. MonitorOK'
      BY <2>2 DEF MonitorOK, Pending, Acting, Probing, Modifying, InModify
  <2>4. \A x \in Cli : CommandOK(x)'
      BY <2>2 DEF LimitInv, CommandOK, Modifying, InModify, Still, Present
  <2>5. Ordered'
      BY <1>0, <2>2 DEF LimitInv, Ordered, Pending, Acting, Probing, Modifying, Below, Still, Present
  <2>6. Limited(Empty)
      BY <1>0, RecordAssumption DEF Limited
  <2>7. Limits'
      BY <2>2, <2>6 DEF LimitInv, Limits, RestartsBounded, Still
  <2> QED  BY <2>2, <2>3, <2>4, <2>5, <2>7 DEF LimitInv
<1> QED  BY <1>1, <1>2

\* A command writes one of its two copies to the file.
LEMMA WriteLimit ==
    ASSUME Inv, Inv', LimitInv, OneCommand, NEW p \in Cli, Still(Monitor),
           \A b \in Boxes : file'[b].count <= mem[p][b].count \/ file'[b].count <= buf[p][b].count,
           \A b \in Boxes : Present(file', b) => /\ mem[p][b].count <= file'[b].count
                                                 /\ buf'[p][b].count <= file'[b].count,
           mem' = mem, \A b \in Boxes : buf'[p][b].count <= buf[p][b].count,
           CommandOK(p)'
    PROVE  LimitInv'
<1>0. p \in Procs /\ Monitor \in Procs /\ \A x \in Cli : x = p
    BY ProcFacts DEF OneCommand
<1>1. MonitorOK' /\ Pending' = Pending
    BY DEF LimitInv, MonitorOK, Pending, Acting, Probing, Modifying, InModify, Still, Present, BelowLimit
<1>2. Pending \subseteq Boxes
    BY <1>0 DEF Pending, Acting, Probing, Inv, RestOK, Side, LocalOK, HasBoxAt, Modifying
<1>3. \A x \in Cli : CommandOK(x)'
  <2> SUFFICES ASSUME NEW x \in Cli
               PROVE  CommandOK(x)'
      OBVIOUS
  <2>1. x = p
      BY <1>0
  <2> QED  BY <2>1 DEF CommandOK, Modifying, InModify
<1>4. \A b \in Boxes : /\ file[b].count \in Nat /\ mem[p][b].count \in Nat /\ buf[p][b].count \in Nat
                       /\ file'[b].count \in Nat /\ buf'[p][b].count \in Nat
                       /\ mem[Monitor][b].count \in Nat /\ buf[Monitor][b].count \in Nat
    BY <1>0, Counts
<1>5. ASSUME NEW b \in Boxes, NEW n \in Nat, Below(p, b, n)
      PROVE  file'[b].count <= n /\ \A x \in Cli : Below(x, b, n)'
  <2>1. file'[b].count <= n /\ mem'[p][b].count <= n /\ buf'[p][b].count <= n
      BY <1>4, <1>5 DEF Below
  <2> QED  BY <1>0, <2>1 DEF Below
<1>6. ASSUME NEW s, NEW b \in Boxes, s[b].count \in Nat, Tops(s, b)
      PROVE  file'[b].count <= s[b].count /\ \A x \in Cli : Below(x, b, s[b].count)'
    BY <1>5, <1>6 DEF Tops
<1>7. Ordered'
  <2>1. ASSUME NEW b \in Boxes, Present(file', b), NEW x \in Cli
        PROVE  Below(x, b, file[b].count)'
      BY <1>0, <2>1 DEF Below
  <2>2. ASSUME NEW b \in Pending, Present(mem[Monitor], b)
        PROVE  Tops(mem[Monitor], b)' /\ buf'[Monitor][b].count <= mem'[Monitor][b].count
    <3>1. Tops(mem[Monitor], b) /\ buf[Monitor][b].count <= mem[Monitor][b].count
        BY <2>2 DEF LimitInv, Ordered
    <3>2. mem'[Monitor] = mem[Monitor] /\ buf'[Monitor] = buf[Monitor]
        BY DEF Still
    <3> QED  BY <1>2, <1>4, <1>6, <3>1, <3>2 DEF Tops
  <2>3. ASSUME NEW b \in Boxes, Present(buf[Monitor], b)
        PROVE  Tops(buf[Monitor], b)'
    <3>1. Tops(buf[Monitor], b)
        BY <2>3 DEF LimitInv, Ordered
    <3>2. buf'[Monitor] = buf[Monitor]
        BY DEF Still
    <3> QED  BY <1>4, <1>6, <3>1, <3>2 DEF Tops
  <2> QED  BY <1>1, <2>1, <2>2, <2>3 DEF Ordered, Still, Present
<1>8. Limits'
  <2>1. Limited(mem[p]) /\ Limited(buf[p]) /\ MaxRestart \in [Boxes -> Nat]
      BY RecordAssumption DEF LimitInv, Limits
  <2>2. Limited(file') /\ Limited(buf'[p]) /\ Limited(mem'[p])
      BY <1>4, <2>1 DEF Limited
  <2> QED  BY <1>0, <2>2 DEF LimitInv, Limits, Limited, RestartsBounded, Still
<1> QED  BY <1>1, <1>3, <1>7, <1>8 DEF LimitInv

\* A command loads the file, for itself or inside modify.
LEMMA ReadLimit ==
    ASSUME Inv, Inv', LimitInv, OneCommand, NEW p \in Cli, Load(p) \/ ModifyLoad(p)
    PROVE  LimitInv'
<1>0. /\ p \in Procs /\ Monitor \in Procs /\ p # Monitor /\ \A x \in Cli : x = p
      /\ file \in Snapshot /\ mem \in [Procs -> Snapshot] /\ buf \in [Procs -> Snapshot]
      /\ pc \in [Procs -> PC]
    BY ProcFacts DEF Inv, Copies, Snap, RestOK, OneCommand
<1>1. file' = file /\ Still(Monitor)
    BY <1>0 DEF Load, ModifyLoad, Still, shared
<1>2. MonitorOK' /\ Pending' = Pending
    BY <1>1 DEF LimitInv, MonitorOK, Pending, Acting, Probing, Modifying, InModify, Still, Present, BelowLimit
<1>3. Pending \subseteq Boxes
    BY <1>0 DEF Pending, Acting, Probing, Inv, RestOK, Side, LocalOK, HasBoxAt, Modifying
<1>4. \A b \in Boxes : /\ file[b].count \in Nat /\ mem[p][b].count \in Nat /\ buf[p][b].count \in Nat
                       /\ mem'[p][b].count \in Nat /\ buf'[p][b].count \in Nat
                       /\ mem[Monitor][b].count \in Nat /\ buf[Monitor][b].count \in Nat
    BY <1>0, Counts
<1>5. \A b \in Boxes : /\ reconcile(file)[b].count <= file[b].count
                       /\ Present(reconcile(file), b) => reconcile(file)[b].count = file[b].count /\ Present(file, b)
    BY <1>0, ReconcileCount DEF is_active, Present
<1>6. \A b \in Boxes : ~Present(Empty, b) /\ Empty[b].count = 0
    BY NoCount DEF Present
<1>7. /\ CommandOK(p)'
      /\ \A b \in Boxes : /\ mem'[p][b].count <= file[b].count \/ mem'[p][b].count <= mem[p][b].count
                          /\ buf'[p][b].count <= file[b].count \/ buf'[p][b].count <= buf[p][b].count
  <2>1. CASE Load(p)
    <3>1. mem'[p] = reconcile(file) /\ buf'[p] = Empty /\ buf[p] = Empty /\ pc'[p] \in {"rwrite", "pick"}
        BY <1>0, <2>1 DEF Load, LimitInv, CommandOK, InModify
    <3> QED  BY <1>4, <1>5, <1>6, <3>1 DEF CommandOK, Modifying, InModify
  <2>2. CASE ModifyLoad(p)
    <3>1. /\ buf'[p] = reconcile(file) /\ mem'[p] = mem[p] /\ pc[p] = "lock" /\ pc'[p] \in {"mrwrite", "mwrite"}
          /\ clo'[p] = clo[p] /\ cur'[p] = cur[p]
        BY <1>0, <2>2 DEF ModifyLoad
    <3>2. ASSUME NEW b \in Boxes, Present(buf'[p], b)
          PROVE  mem'[p][b].count <= buf'[p][b].count
        BY <1>5, <3>1, <3>2 DEF LimitInv, Ordered, Below
    <3> QED  BY <1>4, <1>5, <3>1, <3>2 DEF LimitInv, CommandOK, Modifying, InModify, Present
  <2> QED  BY <2>1, <2>2
<1>8. \A x \in Cli : CommandOK(x)'
  <2> SUFFICES ASSUME NEW x \in Cli
               PROVE  CommandOK(x)'
      OBVIOUS
  <2>1. x = p
      BY <1>0
  <2> QED  BY <2>1, <1>7 DEF CommandOK, Modifying, InModify
<1>9. ASSUME NEW b \in Boxes, NEW n \in Nat, Below(p, b, n), file[b].count <= n
      PROVE  \A x \in Cli : Below(x, b, n)'
  <2>1. mem'[p][b].count <= n /\ buf'[p][b].count <= n
      BY <1>4, <1>7, <1>9 DEF Below
  <2> QED  BY <1>0, <2>1 DEF Below
<1>10. Ordered'
  <2>1. ASSUME NEW b \in Boxes, Present(file, b), NEW x \in Cli
        PROVE  Below(x, b, file[b].count)'
    <3>1. Below(p, b, file[b].count)
        BY <2>1 DEF LimitInv, Ordered
    <3>2. Below(x, b, file[b].count) /\ mem'[p][b].count <= file[b].count /\ buf'[p][b].count <= file[b].count
        BY <1>0, <1>4, <1>7, <3>1 DEF Below
    <3> QED  BY <1>0, <1>1, <3>2 DEF Below
  <2>2. ASSUME NEW s, NEW b \in Boxes, s[b].count \in Nat, Tops(s, b)
        PROVE  file'[b].count <= s[b].count /\ \A x \in Cli : Below(x, b, s[b].count)'
      BY <1>1, <1>9, <2>2 DEF Tops
  <2> QED  BY <1>1, <1>2, <1>3, <1>4, <2>1, <2>2 DEF LimitInv, Ordered, Tops, Still, Present
<1>11. Limits'
  <2>1. Limited(file) /\ Limited(mem[p]) /\ Limited(buf[p]) /\ MaxRestart \in [Boxes -> Nat]
      BY RecordAssumption DEF LimitInv, Limits, Limited, RestartsBounded
  <2>2. Limited(buf'[p]) /\ Limited(mem'[p])
      BY <1>4, <1>7, <2>1 DEF Limited
  <2> QED  BY <1>0, <1>1, <2>1, <2>2 DEF LimitInv, Limits, Limited, RestartsBounded, Still
<1> QED  BY <1>2, <1>8, <1>10, <1>11 DEF LimitInv

\* A command reads or writes the file.
LEMMA FileLimit ==
    ASSUME Inv, Inv', LimitInv, OneCommand, NEW p \in Cli, StateFileStep(p)
    PROVE  LimitInv'
<1>0. /\ p \in Procs /\ Monitor \in Procs /\ p # Monitor /\ p \notin Checkers
      /\ mem \in [Procs -> Snapshot] /\ buf \in [Procs -> Snapshot]
      /\ pc \in [Procs -> PC] /\ clo \in [Procs -> Closure] /\ cur \in [Procs -> Boxes \cup {NoBox}]
    BY ProcFacts DEF Inv, Copies, RestOK
<1>1. CommandOK(p)
    BY DEF LimitInv
<1>2. \A b \in Boxes : ~Present(Empty, b) /\ Empty[b].count = 0
    BY NoCount DEF Present
<1>3. \A b \in Boxes : mem[p][b].count \in Nat /\ buf[p][b].count \in Nat
    BY <1>0, Counts
<1>4. CASE Load(p) \/ ModifyLoad(p)
    BY <1>4, ReadLimit
<1>5. CASE ReconcileWrite(p) \/ save(p)
  <2>1. /\ file' = mem[p] /\ mem' = mem /\ buf' = buf /\ Still(Monitor) /\ buf[p] = Empty
        /\ pc'[p] \in {"pick", "boot", "attach"}
      BY <1>0, <1>1, <1>5 DEF ReconcileWrite, save, Still, CommandOK, InModify
  <2>2. CommandOK(p)'
      BY <1>2, <2>1 DEF CommandOK, Modifying, InModify
  <2> QED  BY <1>2, <1>3, <2>1, <2>2, WriteLimit
<1>6. CASE ModifyReconcileWrite(p)
  <2>1. /\ file' = buf[p] /\ mem' = mem /\ buf' = buf /\ Still(Monitor)
        /\ pc[p] = "mrwrite" /\ pc'[p] = "mwrite" /\ clo' = clo /\ cur' = cur
      BY <1>0, <1>6 DEF ModifyReconcileWrite, Still
  <2>2. CommandOK(p)'
      BY <1>1, <2>1 DEF CommandOK, Modifying, InModify
  <2>3. \A b \in Boxes : Present(buf[p], b) => mem[p][b].count <= buf[p][b].count
      BY <1>1 DEF CommandOK
  <2> QED  BY <1>3, <2>1, <2>2, <2>3, WriteLimit
<1>7. CASE ModifyWrite(p)
  <2> DEFINE r == ApplyClosure(clo[p], cur[p], buf[p][cur[p]])
  <2>1. /\ file' = Put(buf[p], cur[p], r) /\ mem' = mem /\ buf' = [buf EXCEPT ![p] = Empty]
        /\ pc'[p] = "pick" /\ Still(Monitor) /\ pc[p] = "mwrite"
    <3>1. AfterModify(p) = "pick"
        BY <1>0 DEF AfterModify
    <3>2. cur' = cur
        BY <1>0, <1>7, <3>1 DEF ModifyWrite
    <3> QED  BY <1>0, <1>7, <3>1, <3>2 DEF ModifyWrite, Still
  <2>2. \/ r = NewRecord /\ mem[p] = Empty
        \/ r = NoRecord
      BY <1>1, <2>1 DEF CommandOK, Modifying, ApplyClosure
  <2>3. cur[p] \in Boxes
      BY <1>0, <2>1 DEF Inv, Side, LocalOK, HasBoxAt, Modifying
  <2>4. CommandOK(p)'
      BY <1>0, <1>2, <2>1 DEF CommandOK, Modifying, InModify
  <2> HIDE DEF r
  <2>5. ASSUME NEW b \in Boxes
        PROVE  /\ file'[b].count <= buf[p][b].count
               /\ Present(file', b) => /\ mem[p][b].count <= file'[b].count
                                       /\ buf'[p][b].count <= file'[b].count
               /\ buf'[p][b].count <= buf[p][b].count
    <3>1. buf'[p][b].count = 0
        BY <1>0, <1>2, <2>1
    <3>2. CASE b = cur[p]
      <4>1. file'[b] = r
          BY <1>0, <2>1, <2>3, <3>2 DEF Put, Snapshot
      <4> QED  BY <1>2, <1>3, <2>2, <3>1, <4>1, NoCount DEF Present
    <3>3. CASE b # cur[p]
      <4>1. file'[b] = buf[p][b]
          BY <1>0, <2>1, <3>3 DEF Put, Snapshot
      <4>2. Present(buf[p], b) => mem[p][b].count <= buf[p][b].count
          BY <1>1 DEF CommandOK
      <4> QED  BY <1>3, <3>1, <4>1, <4>2 DEF Present
    <3> QED  BY <3>2, <3>3
  <2> QED  BY <2>1, <2>4, <2>5, WriteLimit
<1> QED  BY <1>4, <1>5, <1>6, <1>7 DEF StateFileStep

\* The commands stand still while the monitor steps, and what it may still act upon
\* is what it held before.
LEMMA MonitorKept ==
    ASSUME Inv, LimitInv, \A x \in Cli : Still(x), MonitorOK',
           file' = file, buf'[Monitor] = buf[Monitor],
           \/ mem'[Monitor] = mem[Monitor] /\ Pending' \subseteq Pending
           \/ mem'[Monitor] = Empty /\ Pending' = {}
    PROVE  LimitInv'
<1>0. \A b \in Boxes : ~Present(Empty, b) /\ Empty[b].count = 0
    BY NoCount DEF Present
<1>1. \A x \in Cli : CommandOK(x)'
    BY DEF LimitInv, CommandOK, Modifying, InModify, Still, Present
<1>3. Ordered'
    BY <1>0 DEF LimitInv, Ordered, Tops, Below, Still, Present
<1>4. Limited(Empty)
    BY <1>0, RecordAssumption DEF Limited
<1>5. Limits'
    BY <1>4 DEF LimitInv, Limits, RestartsBounded, Still
<1> QED  BY <1>1, <1>3, <1>5 DEF LimitInv

\* The monitor loads and writes the file.
LEMMA MonitorFileLimit ==
    ASSUME Inv, Inv', LimitInv, Checkers = {}, StateFileStep(Monitor)
    PROVE  LimitInv'
<1>0. /\ Monitor \in Procs /\ Monitor \notin Cli /\ Monitor \notin Checkers
      /\ \A x \in Cli : x \in Procs /\ x # Monitor
      /\ file \in Snapshot /\ mem \in [Procs -> Snapshot] /\ buf \in [Procs -> Snapshot]
      /\ pc \in [Procs -> PC] /\ clo \in [Procs -> Closure] /\ cur \in [Procs -> Boxes \cup {NoBox}]
    BY ProcFacts DEF Inv, Copies, RestOK, Snap
<1>1. /\ MonitorOK /\ Ordered /\ Limits
      /\ \A x \in Cli : CommandOK(x)
    BY DEF LimitInv
<1>2. \A x \in Cli : Still(x)
    BY <1>0 DEF StateFileStep, Load, ReconcileWrite, save, ModifyLoad, ModifyReconcileWrite, ModifyWrite,
                Still, shared
<1>3. \A x \in Cli : CommandOK(x)'
    BY <1>1, <1>2 DEF CommandOK, Modifying, InModify, Still, Present
<1>5. /\ \A b \in Boxes : file[b].count \in Nat /\ mem[Monitor][b].count \in Nat /\ buf[Monitor][b].count \in Nat
      /\ \A x \in Cli : \A b \in Boxes : mem[x][b].count \in Nat /\ buf[x][b].count \in Nat
    BY <1>0, Counts
<1>6. \A b \in Boxes : /\ reconcile(file)[b].count <= file[b].count
                       /\ Present(reconcile(file), b) => reconcile(file)[b].count = file[b].count /\ Present(file, b)
    BY <1>0, ReconcileCount DEF is_active, Present
<1>7. \A b \in Boxes : ~Present(Empty, b) /\ Empty[b].count = 0
    BY NoCount DEF Present
<1>8. Pending \subseteq Boxes
    BY <1>0 DEF Pending, Acting, Probing, Inv, RestOK, Side, LocalOK, HasBoxAt, Modifying
<1>9. CASE Load(Monitor)
  <2>1. /\ mem'[Monitor] = reconcile(file) /\ file' = file /\ pc[Monitor] = "load"
        /\ pc'[Monitor] \in {"rwrite", "pick"} /\ buf' = buf /\ cur' = cur /\ todo' = todo /\ clo' = clo
      BY <1>0, <1>9 DEF Load, shared
  <2>2. MonitorOK' /\ Pending' = Boxes /\ buf[Monitor] = Empty
      BY <1>1, <2>1 DEF MonitorOK, Pending, Acting, Probing, Modifying, InModify
  <2>3. Ordered'
      BY <1>1, <1>2, <1>5, <1>6, <1>7, <2>1, <2>2 DEF Ordered, Tops, Below, Still, Present
  <2>4. Limited(file) /\ MaxRestart \in [Boxes -> Nat] /\ \A b \in Boxes : reconcile(file)[b].count \in Nat
    <3>1. \A b \in Boxes : mem'[Monitor][b].count \in Nat
        BY <1>0, Counts
    <3> QED  BY <1>1, <2>1, <3>1, RecordAssumption DEF Limits, RestartsBounded, Limited
  <2>5. Limited(reconcile(file))
      BY <1>5, <1>6, <2>4 DEF Limited
  <2>6. Limits'
      BY <1>1, <1>2, <2>1, <2>5 DEF Limits, RestartsBounded, Still
  <2> QED  BY <1>3, <2>2, <2>3, <2>6 DEF LimitInv
<1>10. CASE ReconcileWrite(Monitor)
  <2>1. /\ file' = mem[Monitor] /\ mem' = mem /\ buf' = buf /\ cur' = cur /\ todo' = todo /\ clo' = clo
        /\ pc[Monitor] = "rwrite" /\ pc'[Monitor] = "pick"
      BY <1>0, <1>10 DEF ReconcileWrite
  <2>2. MonitorOK' /\ Pending' = Boxes /\ Pending = Boxes /\ buf[Monitor] = Empty
      BY <1>1, <2>1 DEF MonitorOK, Pending, Acting, Probing, Modifying, InModify
  <2>3. Ordered'
      BY <1>1, <1>5, <1>7, <2>1, <2>2 DEF Ordered, Tops, Below, Present
  <2>4. Limits'
      BY <1>1, <2>1 DEF Limits, RestartsBounded, Limited
  <2> QED  BY <1>3, <2>2, <2>3, <2>4 DEF LimitInv
<1>11. ~save(Monitor)
    BY <1>1 DEF save, MonitorOK, Acting, Probing, Modifying
<1>12. CASE ModifyLoad(Monitor)
  <2>1. /\ buf'[Monitor] = reconcile(file) /\ file' = file /\ mem' = mem /\ pc[Monitor] = "lock"
        /\ pc'[Monitor] \in {"mrwrite", "mwrite"} /\ cur' = cur /\ todo' = todo /\ clo' = clo
      BY <1>0, <1>12 DEF ModifyLoad
  <2>2. MonitorOK' /\ Pending' = Pending
      BY <1>1, <2>1 DEF MonitorOK, Pending, Acting, Probing, Modifying, InModify
  <2>3. \A b \in Boxes : reconcile(file)[b].count \in Nat
      BY <1>0, <2>1, Counts
  <2>4. Ordered'
      BY <1>1, <1>2, <1>5, <1>6, <1>8, <2>1, <2>2, <2>3 DEF Ordered, Tops, Below, Still, Present
  <2>5. Limited(reconcile(file))
      BY <1>1, <1>5, <1>6, <2>3, RecordAssumption DEF Limited, Limits, RestartsBounded
  <2>6. Limits'
      BY <1>1, <1>2, <2>1, <2>5 DEF Limits, RestartsBounded, Still
  <2> QED  BY <1>3, <2>2, <2>4, <2>6 DEF LimitInv
<1>13. CASE ModifyReconcileWrite(Monitor)
  <2>1. /\ file' = buf[Monitor] /\ mem' = mem /\ buf' = buf /\ cur' = cur /\ todo' = todo /\ clo' = clo
        /\ pc[Monitor] = "mrwrite" /\ pc'[Monitor] = "mwrite"
      BY <1>0, <1>13 DEF ModifyReconcileWrite
  <2>2. MonitorOK' /\ Pending' = Pending
      BY <1>1, <2>1 DEF MonitorOK, Pending, Acting, Probing, Modifying, InModify
  <2>3. Ordered'
      BY <1>1, <1>5, <1>8, <2>1, <2>2 DEF Ordered, Tops, Below, Present
  <2>4. Limits'
      BY <1>1, <2>1 DEF Limits, RestartsBounded, Limited
  <2> QED  BY <1>3, <2>2, <2>3, <2>4 DEF LimitInv
<1>14. CASE ModifyWrite(Monitor)
  <2> DEFINE b0 == cur[Monitor]
             k == clo[Monitor].f
             r == ApplyClosure(clo[Monitor], b0, buf[Monitor][b0])
  <2>1. /\ file' = Put(buf[Monitor], b0, r) /\ mem' = mem /\ buf'[Monitor] = Empty
        /\ pc[Monitor] = "mwrite" /\ cur' = cur /\ todo' = todo
        /\ \/ k = "probe" /\ pc'[Monitor] = "probes"
           \/ k = "dead" /\ pc'[Monitor] = "boot"
           \/ k = "boot" /\ pc'[Monitor] = "cands"
    <3>1. k \in {"probe", "dead", "boot"}
        BY <1>1, <1>14 DEF MonitorOK, ModifyWrite, Modifying
    <3>2. /\ k = "probe" => AfterModify(Monitor) = "probes"
          /\ k = "dead" => AfterModify(Monitor) = "boot"
          /\ k = "boot" => AfterModify(Monitor) = "cands"
        BY <1>0 DEF AfterModify
    <3>3. cur' = cur
        BY <1>0, <1>14, <3>1, <3>2 DEF ModifyWrite
    <3> QED  BY <1>0, <1>14, <3>1, <3>2, <3>3 DEF ModifyWrite
  <2>2. b0 \in Boxes /\ b0 \in Pending /\ buf[Monitor][b0] \in Record
    <3>1. b0 \in Boxes
        BY <1>0, <2>1 DEF Inv, Side, LocalOK, HasBoxAt, Modifying
    <3> QED  BY <1>0, <2>1, <3>1 DEF Modifying, Pending, Acting, Probing, Snapshot
  <2>3. MonitorOK' /\ Pending' \subseteq Pending /\ (k = "boot" => b0 \notin Pending')
    <3>1. CASE k = "probe"
        BY <1>1, <1>8, <2>1, <3>1 DEF MonitorOK, Pending, Acting, Probing, Modifying, InModify
    <3>2. CASE k = "dead"
        BY <1>1, <2>1, <3>2 DEF MonitorOK, Pending, Acting, Probing, Modifying, InModify, Present, BelowLimit
    <3>3. CASE k = "boot"
        BY <1>1, <2>1, <3>3 DEF MonitorOK, Pending, Acting, Probing, Modifying, InModify, Present, BelowLimit
    <3> QED  BY <2>1, <3>1, <3>2, <3>3
  <2>4. k = "boot" => /\ Present(mem[Monitor], b0) /\ BelowLimit(b0, mem[Monitor][b0])
                      /\ buf[Monitor][b0].count <= mem[Monitor][b0].count
      BY <1>1, <2>1, <2>2 DEF MonitorOK, Ordered, Acting, Probing, Modifying
  <2>5. \/ r.count = buf[Monitor][b0].count /\ (r.status # "absent" => Present(buf[Monitor], b0))
        \/ k = "boot" /\ r.count = buf[Monitor][b0].count + 1 /\ Present(buf[Monitor], b0)
    <3>1. /\ \A ok : apply_probe_result(b0, buf[Monitor][b0], ok).count = buf[Monitor][b0].count
          /\ MarkUnhealthyDead(buf[Monitor][b0]).count = buf[Monitor][b0].count
        BY <2>2 DEF Record, apply_probe_result, MarkUnhealthyDead
    <3> QED  BY <2>1, <2>2, <3>1, RecordCounts DEF ApplyClosure, Present
  <2> HIDE DEF r, k
  <2>6. /\ file'[b0] = r
        /\ \A b \in Boxes : b # b0 => file'[b] = buf[Monitor][b]
      BY <1>0, <2>1, <2>2 DEF Put, Snapshot
  <2>7. Ordered'
    <3>1. ASSUME NEW b \in Boxes, Present(file', b), NEW x \in Cli
          PROVE  Below(x, b, file[b].count)'
      <4>1. Present(buf[Monitor], b) /\ buf[Monitor][b].count <= file'[b].count /\ file'[b].count \in Nat
          BY <1>5, <2>5, <2>6, <3>1 DEF Present
      <4>2. Below(x, b, buf[Monitor][b].count)
          BY <1>1, <4>1 DEF Ordered, Tops
      <4> QED  BY <1>2, <1>5, <4>1, <4>2 DEF Below, Still
    <3>2. ASSUME NEW b \in Pending', Present(mem[Monitor], b)
          PROVE  Tops(mem[Monitor], b)' /\ buf'[Monitor][b].count <= mem'[Monitor][b].count
      <4>1. b \in Boxes /\ file'[b].count = buf[Monitor][b].count /\ buf'[Monitor][b].count = 0
          BY <1>7, <1>8, <2>1, <2>3, <2>5, <2>6, <3>2
      <4>2. Tops(mem[Monitor], b) /\ buf[Monitor][b].count <= mem[Monitor][b].count
          BY <1>1, <2>3, <3>2 DEF Ordered
      <4> QED  BY <1>2, <1>5, <2>1, <4>1, <4>2 DEF Tops, Below, Still
    <3> QED  BY <1>7, <2>1, <3>1, <3>2 DEF Ordered, Present
  <2>8. Limits'
    <3>1. /\ Limited(buf[Monitor]) /\ MaxRestart \in [Boxes -> Nat]
          /\ \A b \in Boxes : file'[b].count \in Nat
        BY <1>0, <1>1, RecordAssumption, Counts DEF Limits
    <3>2. Limited(file') /\ Limited(Empty)
        BY <1>5, <1>7, <2>2, <2>4, <2>5, <2>6, <3>1 DEF Limited, BelowLimit
    <3> QED  BY <1>1, <1>2, <2>1, <3>2 DEF Limits, Limited, RestartsBounded, Still
  <2> QED  BY <1>3, <2>3, <2>7, <2>8 DEF LimitInv
<1> QED  BY <1>9, <1>10, <1>11, <1>12, <1>13, <1>14 DEF StateFileStep

\* poll_once.
LEMMA PollLimit ==
    ASSUME Inv, Inv', LimitInv, Checkers = {}, MonitorStep, ~StateFileStep(Monitor)
    PROVE  LimitInv'
<1>0. /\ Monitor \in Procs /\ Monitor \notin Cli /\ Monitor \notin Checkers
      /\ \A x \in Cli : x \in Procs /\ x # Monitor
      /\ mem \in [Procs -> Snapshot] /\ buf \in [Procs -> Snapshot]
      /\ pc \in [Procs -> PC] /\ clo \in [Procs -> Closure] /\ cur \in [Procs -> Boxes \cup {NoBox}]
      /\ todo \in [Procs -> SUBSET Boxes] /\ NoBox \notin Boxes
    BY ProcFacts, StateAssumption DEF Inv, Copies, RestOK
<1>1. MonitorOK
    BY DEF LimitInv
<1>2. /\ clo[Monitor].f # "none" => Modifying(Monitor)
      /\ Pending \subseteq Boxes
    BY <1>0 DEF Pending, Acting, Probing, Modifying, Inv, RestOK, Side, LocalOK, HasBoxAt, ClosureGoodAt
<1>3. ASSUME NEW l \in PC, pc' = [pc EXCEPT ![Monitor] = l], file' = file, mem' = mem, buf' = buf,
             todo' = todo \/ \E t : todo' = [todo EXCEPT ![Monitor] = t],
             cur' = cur \/ \E b : cur' = [cur EXCEPT ![Monitor] = b],
             clo' = clo \/ \E k : clo' = [clo EXCEPT ![Monitor] = k],
             MonitorOK', Pending' \subseteq Pending
      PROVE  LimitInv'
  <2>1. \A x \in Cli : Still(x)
      BY <1>0, <1>3 DEF Still
  <2> QED  BY <1>3, <2>1, MonitorKept
<1>4. CASE StopStep(Monitor)
  <2>1. /\ pc[Monitor] \in {"signal", "await"}
        /\ file' = file /\ mem' = mem /\ buf' = buf /\ todo' = todo /\ cur' = cur
        /\ \/ pc' = [pc EXCEPT ![Monitor] = "await"] /\ clo' = clo
           \/ pc' = [pc EXCEPT ![Monitor] = "lock"] /\ clo' = [clo EXCEPT ![Monitor].f = "dead"]
      BY <1>4 DEF StopStep, StopAlreadyExited, StopSignal, StopExited, StopTimeout, StopDone, Goto, shared
  <2>2. /\ pc'[Monitor] \in {"await", "lock"} /\ {"await", "lock"} \subseteq PC
        /\ pc'[Monitor] = "lock" => clo'[Monitor].f = "dead"
      BY <1>0, <2>1 DEF PC, Closure
  <2>3. MonitorOK' /\ Pending' = Pending
      BY <1>1, <2>1, <2>2 DEF MonitorOK, Pending, Acting, Probing, Modifying, InModify, Present, BelowLimit
  <2>4. \E k : clo' = [clo EXCEPT ![Monitor] = k]
    <3>1. clo = [clo EXCEPT ![Monitor] = clo[Monitor]]
        BY <1>0
    <3>2. [clo EXCEPT ![Monitor].f = "dead"] = [clo EXCEPT ![Monitor] = [clo[Monitor] EXCEPT !.f = "dead"]]
        OBVIOUS
    <3>3. CASE clo' = clo
        BY <3>1, <3>3, Zenon
    <3>4. CASE clo' = [clo EXCEPT ![Monitor].f = "dead"]
        BY <3>2, <3>4, Zenon
    <3> QED  BY <2>1, <3>3, <3>4
  <2> QED  BY <1>3, <2>1, <2>2, <2>3, <2>4
<1>5. CASE BootFail(Monitor)
  <2>1. /\ pc' = [pc EXCEPT ![Monitor] = "cands"] /\ pc[Monitor] = "boot"
        /\ file' = file /\ mem' = mem /\ buf' = buf /\ todo' = todo /\ cur' = cur /\ clo' = clo
      BY <1>5 DEF BootFail, shared
  <2>2. pc'[Monitor] = "cands" /\ "cands" \in PC
      BY <1>0, <2>1 DEF PC
  <2>3. MonitorOK' /\ Pending' \subseteq Pending
      BY <1>1, <2>1, <2>2 DEF MonitorOK, Pending, Acting, Probing, Modifying, InModify
  <2> QED  BY <1>3, <2>1, <2>2, <2>3
<1>6. ASSUME NEW q \in Pids, BootMonitor(q)
      PROVE  LimitInv'
  <2>1. /\ pc' = [pc EXCEPT ![Monitor] = "lock"] /\ pc[Monitor] = "boot"
        /\ file' = file /\ mem' = mem /\ buf' = buf /\ todo' = todo /\ cur' = cur
        /\ clo' = [clo EXCEPT ![Monitor] = [f |-> "boot", pid |-> q, ok |-> FALSE]]
      BY <1>6 DEF BootMonitor, SpawnAndGo, shared
  <2>2. pc'[Monitor] = "lock" /\ "lock" \in PC /\ clo'[Monitor].f = "boot"
      BY <1>0, <2>1 DEF PC
  <2>3. MonitorOK' /\ Pending' = Pending
      BY <1>1, <2>1, <2>2 DEF MonitorOK, Pending, Acting, Probing, Modifying, InModify
  <2> QED  BY <1>3, <2>1, <2>2, <2>3
<1>7. CASE MonitorPoll
  <2>1. /\ pc' = [pc EXCEPT ![Monitor] = "load"] /\ pc[Monitor] = "idle"
        /\ file' = file /\ mem' = mem /\ buf' = buf /\ todo' = todo /\ cur' = cur /\ clo' = clo
      BY <1>7 DEF MonitorPoll, Goto, shared
  <2>2. pc'[Monitor] = "load" /\ "load" \in PC
      BY <1>0, <2>1 DEF PC
  <2>3. MonitorOK' /\ Pending' = {}
      BY <1>1, <2>1, <2>2 DEF MonitorOK, Pending, Acting, Probing, Modifying, InModify
  <2> QED  BY <1>3, <2>1, <2>2, <2>3
<1>8. CASE MonitorDue
  <2>1. /\ pc' = [pc EXCEPT ![Monitor] = "probes"] /\ pc[Monitor] = "pick"
        /\ file' = file /\ mem' = mem /\ buf' = buf /\ cur' = cur /\ clo' = clo
        /\ \E t : todo' = [todo EXCEPT ![Monitor] = t]
      BY <1>8 DEF MonitorDue, Goto, shared
  <2>2. pc'[Monitor] = "probes" /\ "probes" \in PC
      BY <1>0, <2>1 DEF PC
  <2>3. MonitorOK' /\ Pending' = Pending
      BY <1>1, <2>1, <2>2 DEF MonitorOK, Pending, Acting, Probing, Modifying, InModify
  <2> QED  BY <1>3, <2>1, <2>2, <2>3
<1>9. CASE MonitorCandidates
  <2>1. /\ pc' = [pc EXCEPT ![Monitor] = "cands"] /\ pc[Monitor] = "probes"
        /\ file' = file /\ mem' = mem /\ buf' = buf /\ cur' = cur /\ clo' = clo
        /\ todo' = [todo EXCEPT ![Monitor] = Candidates(mem[Monitor])]
      BY <1>9 DEF MonitorCandidates, Goto, shared
  <2>2. pc'[Monitor] = "cands" /\ "cands" \in PC /\ todo'[Monitor] = Candidates(mem[Monitor])
      BY <1>0, <2>1 DEF PC
  <2>3. \A b \in Candidates(mem[Monitor]) :
          b \in Boxes /\ Present(mem[Monitor], b) /\ BelowLimit(b, mem[Monitor][b])
      BY DEF Candidates, pending_restart, is_unhealthy_restart_candidate, should_restart, BelowLimit, Present
  <2>5. MonitorOK' /\ Pending' \subseteq Pending
      BY <1>0, <1>1, <1>2, <2>1, <2>2, <2>3 DEF MonitorOK, Pending, Acting, Probing, Modifying, InModify
  <2> QED  BY <1>3, <2>1, <2>2, <2>5
<1>10. ASSUME NEW b \in Boxes, MonitorBackOff(b)
       PROVE  LimitInv'
  <2>1. /\ pc' = [pc EXCEPT ![Monitor] = "cands"] /\ pc[Monitor] = "cands"
        /\ file' = file /\ mem' = mem /\ buf' = buf /\ cur' = cur /\ clo' = clo
        /\ todo' = [todo EXCEPT ![Monitor] = @ \ {b}]
      BY <1>0, <1>10 DEF MonitorBackOff, MonitorTake, shared
  <2>2. pc'[Monitor] = "cands" /\ "cands" \in PC /\ todo'[Monitor] = todo[Monitor] \ {b}
      BY <1>0, <2>1 DEF PC
  <2>3. MonitorOK' /\ Pending' \subseteq Pending
      BY <1>1, <2>1, <2>2 DEF MonitorOK, Pending, Acting, Probing, Modifying, InModify
  <2> QED  BY <1>3, <2>1, <2>2, <2>3
<1>11. ASSUME NEW b \in Boxes, MonitorRestart(b)
       PROVE  LimitInv'
  <2>1. /\ pc[Monitor] = "cands" /\ b \in todo[Monitor]
        /\ file' = file /\ mem' = mem /\ buf' = buf /\ clo' = clo
        /\ todo' = [todo EXCEPT ![Monitor] = @ \ {b}] /\ cur' = [cur EXCEPT ![Monitor] = b]
      BY <1>11 DEF MonitorRestart, MonitorTake, shared
  <2>2. \E l \in {"boot", "signal"} : pc' = [pc EXCEPT ![Monitor] = l]
      BY <1>11 DEF MonitorRestart, Goto
  <2>3. /\ pc'[Monitor] \in {"boot", "signal"} /\ {"boot", "signal"} \subseteq PC
        /\ todo'[Monitor] = todo[Monitor] \ {b} /\ cur'[Monitor] = b
      BY <1>0, <2>1, <2>2 DEF PC
  <2>4. MonitorOK' /\ Pending' = Pending
      BY <1>1, <1>2, <2>1, <2>3 DEF MonitorOK, Pending, Acting, Probing, Modifying, InModify, Present, BelowLimit
  <2> QED  BY <1>3, <2>1, <2>2, <2>3, <2>4
<1>12. CASE MonitorSleep
  <2>1. /\ pc' = [pc EXCEPT ![Monitor] = "idle"] /\ mem' = [mem EXCEPT ![Monitor] = Empty]
        /\ cur' = [cur EXCEPT ![Monitor] = NoBox] /\ pc[Monitor] = "cands" /\ todo[Monitor] = {}
        /\ file' = file /\ buf' = buf /\ todo' = todo /\ clo' = clo
      BY <1>12 DEF MonitorSleep, Goto, shared
  <2>2. pc'[Monitor] = "idle" /\ mem'[Monitor] = Empty /\ cur'[Monitor] = NoBox
      BY <1>0, <2>1
  <2>3. MonitorOK' /\ Pending' = {} /\ \A x \in Cli : Still(x)
      BY <1>0, <1>1, <2>1, <2>2 DEF MonitorOK, Pending, Acting, Probing, Modifying, InModify, Still
  <2> QED  BY <2>1, <2>2, <2>3, MonitorKept
<1>13. ASSUME NEW b \in Boxes, NEW ok \in BOOLEAN, MonitorProbe(b, ok)
       PROVE  LimitInv'
  <2> DEFINE k == [f |-> "probe", pid |-> 0, ok |-> ok]
  <2>1. /\ pc' = [pc EXCEPT ![Monitor] = "lock"] /\ pc[Monitor] = "probes"
        /\ file' = file /\ mem' = mem /\ buf' = buf
        /\ todo' = [todo EXCEPT ![Monitor] = @ \ {b}] /\ cur' = [cur EXCEPT ![Monitor] = b]
        /\ clo' = [clo EXCEPT ![Monitor] = k]
      BY <1>13 DEF MonitorProbe, Goto, shared
  <2>2. pc'[Monitor] = "lock" /\ "lock" \in PC /\ clo'[Monitor].f = "probe"
      BY <1>0, <2>1 DEF PC
  <2> HIDE DEF k
  <2>3. MonitorOK' /\ Pending' = Pending
      BY <1>1, <2>1, <2>2 DEF MonitorOK, Pending, Acting, Probing, Modifying, InModify
  <2> QED  BY <1>3, <2>1, <2>2, <2>3
<1> QED  BY <1>4, <1>5, <1>6, <1>7, <1>8, <1>9, <1>10, <1>11, <1>12, <1>13 DEF MonitorStep

\* Nothing is counted at the start.
LEMMA InitLimit == Init => LimitInv
<1> SUFFICES ASSUME Init
             PROVE  LimitInv
    OBVIOUS
<1>0. \A b \in Boxes : ~Present(Empty, b) /\ Empty[b].count = 0
    BY NoCount DEF Present
<1>1. /\ pc[Monitor] = "idle" /\ cur[Monitor] = NoBox /\ todo[Monitor] = {}
      /\ mem[Monitor] = Empty /\ buf[Monitor] = Empty
      /\ \A p \in Cli : pc[p] = "idle" /\ mem[p] = Empty /\ buf[p] = Empty
      /\ \A b \in Boxes : file[b].count = 0
    BY ProcFacts, NoCount DEF Init
<1>2. MonitorOK /\ \A p \in Cli : CommandOK(p)
    BY <1>0, <1>1 DEF MonitorOK, CommandOK, Acting, Probing, Modifying, InModify
<1>3. Ordered
    BY <1>0, <1>1 DEF Ordered, Pending, Acting, Probing, Modifying, Below
<1>4. Limits
    BY <1>0, <1>1, RecordAssumption DEF Limits, Limited, RestartsBounded
<1> QED  BY <1>2, <1>3, <1>4 DEF LimitInv

\* Every step keeps the counts in order.
LEMMA NextLimit ==
    ASSUME OneCommand, Checkers = {}, Inv, LimitInv, [Next]_vars
    PROVE  LimitInv'
<1>0. Inv'
    BY NextInv
<1>1. ASSUME NEW p \in Cli, CliStep(p)
      PROVE  LimitInv'
    BY <1>0, <1>1, FileLimit, StopLimit, BootLimit, BoxStepLimit, RunLimit, ExitLimit DEF CliStep, Finish
<1>2. CASE MonitorStep
    BY <1>0, <1>2, MonitorFileLimit, PollLimit
<1>3. ASSUME NEW c \in Checkers, CheckerStep(c)
      PROVE  LimitInv'
    BY <1>3
<1>4. CASE UNCHANGED vars \/ \E q \in Pids : VmCrash(q) \/ \E code \in GuestCode : VmExit(q, code)
  <2>1. /\ file' = file /\ pc' = pc /\ todo' = todo /\ cur' = cur /\ mem' = mem /\ buf' = buf /\ clo' = clo
      BY <1>4 DEF VmCrash, VmExit, vars, local, shared
  <2> QED  BY <2>1 DEF LimitInv, MonitorOK, CommandOK, Ordered, Limits, RestartsBounded, Pending, Tops, Below,
                       Acting, Probing, Modifying, InModify, Present
<1>5. CASE Environment
    BY <1>0, <1>4, <1>5, InvokeLimit, LockLimit, RunLimit, ExitLimit DEF Environment, Crash
<1> QED  BY <1>1, <1>2, <1>3, <1>4, <1>5 DEF Next

\* max_restart_count bounds the restarts between two starts by the user, with at most
\* one command at a time beside the monitor and no health checker of its own: the
\* monitor probes, stops and boots, load writes back without the lock, and processes
\* are killed anywhere (should_restart, poll_once, apply_boot_result).
THEOREM RestartLimit ==
    ASSUME OneCommand, Checkers = {}
    PROVE  Spec => []RestartsBounded
<1>1. Inv /\ LimitInv /\ [Next]_vars => LimitInv'
    BY NextLimit
<1>2. LimitInv => RestartsBounded
    BY DEF LimitInv, Limits
<1> QED  BY Invariance, InitLimit, <1>1, <1>2, PTL DEF Spec

-----------------------------------------------------------------------------
(* Sequential use                                                          *)

\* One command at a time, which nobody kills, and no monitor.
SequentialUse == Cli # {} /\ OneCommand /\ ~MonitorRuns /\ ~MayCrash

\* VM q runs or is frozen: nobody has told it to stop.
Live(v, q) == v[q].state \in {"up", "frozen"}

NoneLive(v, b) == \A q \in Pids : ~(Live(v, q) /\ v[q].box = b)

\* In snapshot s every live VM but n is the recorded process of its box, which is
\* paused if the VM is frozen.
Tracks(v, s, n) ==
    \A q \in Pids : Live(v, q) /\ q # n =>
      /\ s[v[q].box].pid = q
      /\ v[q].state = "frozen" => s[v[q].box].status = "paused"

\* A `create` or `run` that has not loaded the file yet.
Blank(p) ==
    /\ mem[p] = Empty /\ clo[p].pid = 0
    /\ op[p] \in {"create", "run", "runfg"}
    /\ pc[p] \in {"boot", "pick", "lock", "mrwrite", "mwrite"}

\* Where the box at hand has no live VM.
Bare(p) == pc[p] \in {"boot", "lock", "mrwrite", "mwrite"} \/ op[p] \in {"create", "rollback", "fgend"}

\* What is in the file, or about to be written to it inside modify.
StoredAt(p) ==
    /\ Tracks(vms, file, clo[p].pid)
    /\ \A x \in Procs : InModify(x) => Tracks(vms, buf[x], clo[p].pid)

\* The command's own snapshot; the VM a run has just booted and not yet recorded, or
\* the one a foreground run has ended, is in its closure.
LocalAt(p) ==
    /\ pc[p] \notin {"idle", "load"} => Tracks(vms, mem[p], clo[p].pid) \/ Blank(p)
    /\ pc[p] = "idle" => mem[p] = Empty
    /\ Bare(p) => NoneLive(vms, cur[p])
    /\ clo[p].pid # 0 =>
         \A q \in Pids : Live(vms, q) /\ vms[q].box = cur[p] => q = clo[p].pid /\ vms[q].state = "up"
    /\ Modifying(p) => clo[p].f \in {"add", "remove"}

\* The boxes with a record in some copy.
Seen(b) == Present(file, b) \/ \E x \in Procs : Present(mem[x], b) \/ Present(buf[x], b)

\* Only boxes that were created have records or VMs.
Known ==
    /\ \A q \in Pids : vms[q].state # "free" => vms[q].box \in used
    /\ \A b \in Boxes : Seen(b) => b \in used
    /\ \A p \in Cli : cur[p] \in used \cup {NoBox}

\* The monitor sleeps and checkers only probe.
Quietly == pc[Monitor] = "idle" /\ \A c \in Checkers : clo[c].f \in {"none", "probe"}

SeqInv ==
    /\ Quietly
    /\ Known
    /\ \A p \in Cli : LocalAt(p) /\ (pc[p] # "save" => StoredAt(p))

\* VMs w, without n, are some of the live VMs of v without m, outside box b.
CalmBeside(v, m, w, n, b) ==
    \A q \in Pids : Live(w, q) /\ q # n /\ w[q].box # b =>
      /\ Live(v, q) /\ q # m /\ v[q].box = w[q].box
      /\ w[q].state = "frozen" => v[q].state = "frozen"

\* The same of all boxes.
Calm(v, m, w, n) ==
    \A q \in Pids : Live(w, q) /\ q # n =>
      /\ Live(v, q) /\ q # m /\ v[q].box = w[q].box
      /\ w[q].state = "frozen" => v[q].state = "frozen"

\* VM q is the process that record r names, frozen only if r is paused.
Named(v, q, r) == r.pid = q /\ (v[q].state = "frozen" => r.status = "paused")

\* VMs that end or stop being exempt leave the others tracked.
LEMMA CalmTracks ==
    ASSUME NEW v, NEW s, NEW m, Tracks(v, s, m), NEW w, NEW n, Calm(v, m, w, n)
    PROVE  Tracks(w, s, n)
    BY DEF Tracks, Calm

\* One record is replaced.
LEMMA PutTracks ==
    ASSUME NEW v, NEW s \in Snapshot, NEW m, Tracks(v, s, m), NEW w, NEW n, NEW b \in Boxes, NEW r,
           CalmBeside(v, m, w, n, b),
           \A q \in Pids : Live(w, q) => w[q].box \in Boxes,
           \A q \in Pids : Live(w, q) /\ q # n /\ w[q].box = b => Named(w, q, r)
    PROVE  Tracks(w, Put(s, b, r), n)
<1> SUFFICES ASSUME NEW q \in Pids, Live(w, q), q # n
             PROVE  Named(w, q, Put(s, b, r)[w[q].box])
    BY DEF Tracks, Named
<1>1. CASE w[q].box = b
    BY <1>1 DEF Put, Snapshot
<1>2. CASE w[q].box # b
    BY <1>2 DEF CalmBeside, Tracks, Put, Snapshot, Named
<1> QED  BY <1>1, <1>2

\* The record of a box without live VM is replaced.
LEMMA PutBare ==
    ASSUME NEW v, NEW s \in Snapshot, NEW m, Tracks(v, s, m), NEW w, NEW n, NEW b \in Boxes, NEW r,
           Calm(v, m, w, n), \A q \in Pids : Live(w, q) => w[q].box \in Boxes, NoneLive(w, b)
    PROVE  Tracks(w, Put(s, b, r), n)
<1>1. CalmBeside(v, m, w, n, b)
    BY DEF Calm, CalmBeside
<1>2. \A q \in Pids : Live(w, q) /\ q # n /\ w[q].box = b => Named(w, q, r)
    BY DEF NoneLive
<1> QED  BY <1>1, <1>2, PutTracks

\* A box whose recorded process is not live has no live VM.
LEMMA BareBox ==
    ASSUME NEW v, NEW s, Tracks(v, s, 0), NEW w, Calm(v, 0, w, 0), NEW b,
           \A q \in Pids : q = s[b].pid => ~Live(w, q)
    PROVE  NoneLive(w, b)
    BY PidFacts DEF NoneLive, Tracks, Calm

\* A signal to one VM, which does not bring it to life and does not freeze it.
LEMMA SignalCalm ==
    ASSUME NEW v \in [Pids -> Vm], NEW q, NEW s, NEW n,
           s = "up" => Live(v, q), s = "frozen" => v[q].state = "frozen"
    PROVE  Calm(v, n, [v EXCEPT ![q].state = s], n)
    BY DEF Calm, Live, Vm

\* Nothing happens to the VMs.
LEMMA SameCalm == \A v, n : Calm(v, n, v, n)
    BY DEF Calm

\* load keeps the records of live VMs.
LEMMA ReconcileTracks ==
    ASSUME NEW s \in Snapshot, NEW n, Tracks(vms, s, n),
           \A q \in Pids : Live(vms, q) => vms[q].box \in Boxes
    PROVE  Tracks(vms, reconcile(s), n)
<1> SUFFICES ASSUME NEW q \in Pids, Live(vms, q), q # n
             PROVE  reconcile(s)[vms[q].box] = s[vms[q].box]
    BY DEF Tracks
<1>1. s[vms[q].box].pid = q /\ is_process_alive(q)
    BY DEF Tracks, is_process_alive, Live
<1> QED  BY <1>1 DEF reconcile, ReconcileRecord

\* A probe verdict keeps process id and status.
LEMMA ProbeKeeps ==
    ASSUME NEW b, NEW r \in Record, NEW ok
    PROVE  /\ apply_probe_result(b, r, ok).pid = r.pid
           /\ apply_probe_result(b, r, ok).status = r.status
    BY DEF apply_probe_result, Record

\* What the invariants say of command p.
LEMMA SeqFacts ==
    ASSUME Inv, SeqInv, NEW p \in Cli
    PROVE  /\ p \in Procs /\ p # Monitor /\ p \notin Checkers
           /\ vms \in [Pids -> Vm] /\ pc \in [Procs -> PC] /\ cur \in [Procs -> Boxes \cup {NoBox}]
           /\ clo \in [Procs -> Closure] /\ mem \in [Procs -> Snapshot] /\ buf \in [Procs -> Snapshot]
           /\ file \in Snapshot
           /\ \A q \in Pids : Live(vms, q) => vms[q].box \in Boxes
           /\ \A b \in Boxes : mem[p][b] \in Record /\ GoodRecord(vms, b, mem[p][b])
           /\ clo[p].pid # 0 => /\ clo[p].pid \in Pids /\ vms[clo[p].pid].box = cur[p]
                                /\ op[p] \in {"run", "runfg", "fgend"} /\ pc[p] \in {"load", "rwrite", "pick"}
           /\ LocalAt(p) /\ (pc[p] # "save" => StoredAt(p))
<1>1. p \in Procs /\ p # Monitor /\ p \notin Checkers
    BY ProcFacts
<1>2. \A q \in Pids : Live(vms, q) => vms[q].box \in Boxes
    BY DEF SeqInv, Known, Live, Inv, RestOK
<1>3. Snap(vms, mem[p])
    BY <1>1 DEF Inv, Copies
<1>4. ClosureGoodAt(p)
    BY <1>1 DEF Inv, Side, LocalOK
<1> QED  BY <1>1, <1>2, <1>3, <1>4 DEF Inv, RestOK, Copies, Snap, Snapshot, GoodSnapshot, ClosureGoodAt, SeqInv

-----------------------------------------------------------------------------
(* Only boxes that were created have records or VMs.                       *)

VmsKnown == \A q \in Pids : vms'[q].state # "free" => vms'[q].box \in used'

\* Records, VMs and boxes at hand appear for created boxes only.
LEMMA KnownStep ==
    ASSUME Known, used \subseteq used', VmsKnown,
           \A b \in Boxes : Seen(b)' => Seen(b) \/ b \in used',
           \A p \in Cli : cur'[p] \in {cur[p], NoBox} \cup used'
    PROVE  Known'
    BY DEF Known, VmsKnown

\* A VM that exists changes its state.
LEMMA VmsStateKnown ==
    ASSUME Inv, Known, used \subseteq used', NEW q, NEW s, q \in Pids => vms[q].state # "free",
           vms' = vms \/ vms' = [vms EXCEPT ![q].state = s]
    PROVE  VmsKnown
    BY DEF Inv, RestOK, Vm, Known, VmsKnown

\* A command changes one record of its snapshot, that of a created box.
LEMMA MemKnown ==
    ASSUME Inv, Known, used \subseteq used', VmsKnown, file' = file, buf' = buf, NEW p \in Procs,
           NEW c, c \in used,
           mem' = mem \/ \E r : mem' = [mem EXCEPT ![p] = Put(@, c, r)],
           \A x \in Cli : cur'[x] \in {cur[x], NoBox} \cup used'
    PROVE  Known'
<1>1. ASSUME NEW b \in Boxes, NEW x \in Procs, Present(mem'[x], b)
      PROVE  Present(mem[x], b) \/ b \in used
  <2>1. CASE mem' = mem
      BY <1>1, <2>1
  <2>2. ASSUME NEW r, mem' = [mem EXCEPT ![p] = Put(@, c, r)]
        PROVE  Present(mem[x], b) \/ b \in used
    <3>1. mem \in [Procs -> Snapshot]
        BY DEF Inv, Copies
    <3>2. CASE x = p /\ b = c
        BY <3>2
    <3>3. CASE x # p \/ b # c
      <4>1. mem'[x][b] = mem[x][b]
          BY <2>2, <3>1, <3>3 DEF Put, Snapshot
      <4> QED  BY <1>1, <4>1 DEF Present
    <3> QED  BY <3>2, <3>3
  <2> QED  BY <2>1, <2>2
<1>2. \A b \in Boxes : Seen(b)' => Seen(b) \/ b \in used'
    BY <1>1 DEF Seen, Present
<1> QED  BY <1>2, KnownStep

\* Reading and writing boxes.json.
LEMMA FileKnown ==
    ASSUME Inv, Known, Quietly, NEW p \in Cli \cup Checkers, StateFileStep(p)
    PROVE  Known'
<1>1. p \in Procs /\ p # Monitor
    BY ProcFacts
<1>2. /\ used' = used /\ vms' = vms /\ cur \in [Procs -> Boxes \cup {NoBox}]
      /\ \A x \in Cli : cur'[x] \in {cur[x], NoBox}
    BY <1>1, ProcFacts DEF StateFileStep, Load, ReconcileWrite, save, ModifyLoad, ModifyReconcileWrite, ModifyWrite,
       shared, Inv, RestOK
<1>3. /\ file \in Snapshot /\ mem \in [Procs -> Snapshot] /\ buf \in [Procs -> Snapshot]
      /\ clo[p].f = "add" => p \in Cli
    BY DEF Inv, Copies, Snap, Quietly
<1>4. ASSUME NEW b \in Boxes, Present(reconcile(file), b)
      PROVE  Present(file, b)
  <2>1. CASE is_active(file[b])
      BY <2>1 DEF is_active, Present
  <2>2. CASE ~is_active(file[b])
      BY <1>4, <2>2 DEF reconcile, ReconcileRecord, Present
  <2> QED  BY <2>1, <2>2
<1>5. ASSUME NEW b \in Boxes, Seen(b)'
      PROVE  Seen(b) \/ b \in used'
  <2>1. CASE Load(p)
      BY <1>1, <1>3, <1>4, <1>5, <2>1 DEF Load, shared, Seen
  <2>2. CASE ReconcileWrite(p) \/ save(p) \/ ModifyReconcileWrite(p)
      BY <1>1, <1>3, <1>5, <2>2 DEF ReconcileWrite, save, ModifyReconcileWrite, Seen
  <2>3. CASE ModifyLoad(p)
      BY <1>1, <1>3, <1>4, <1>5, <2>3 DEF ModifyLoad, Seen
  <2>4. CASE ModifyWrite(p)
    <3>1. cur[p] \in Boxes
        BY <1>1, <2>4 DEF ModifyWrite, Inv, Side, LocalOK, HasBoxAt, Modifying
    <3>2. p \in Cli => cur[p] \in used
        BY <3>1, StateAssumption DEF Known
    <3>3. ~Present(Empty, b)
        BY NoCount DEF Present
    <3>4. CASE Present(file', b)
      <4>1. CASE b # cur[p]
          BY <1>1, <1>3, <2>4, <3>4, <4>1 DEF ModifyWrite, Put, Snapshot, Present, Seen
      <4>2. CASE b = cur[p]
        <5>1. file'[b] = ApplyClosure(clo[p], b, buf[p][b])
            BY <1>1, <1>3, <2>4, <4>2 DEF ModifyWrite, Put, Snapshot
        <5>2. CASE clo[p].f = "add"
            BY <1>2, <1>3, <3>2, <4>2, <5>2
        <5>3. CASE clo[p].f = "remove"
            BY <3>4, <5>1, <5>3, NoCount DEF ApplyClosure, Present
        <5>4. CASE clo[p].f \notin {"add", "remove"}
            BY <1>1, <3>4, <5>1, <5>4 DEF ApplyClosure, Present, Seen
        <5> QED  BY <5>2, <5>3, <5>4
      <4> QED  BY <4>1, <4>2
    <3>5. CASE ~Present(file', b)
        BY <1>1, <1>3, <1>5, <2>4, <3>3, <3>5 DEF ModifyWrite, Seen
    <3> QED  BY <3>4, <3>5
  <2> QED  BY <2>1, <2>2, <2>3, <2>4 DEF StateFileStep
<1>6. VmsKnown
    BY <1>2 DEF Known, VmsKnown
<1> QED  BY <1>2, <1>5, <1>6, KnownStep

\* A record that a command accepts is one.
LEMMA AcceptsPresent ==
    ASSUME NEW o, NEW r, Accepts(o, r)
    PROVE  r.status # "absent"
    BY DEF Accepts, Inactive, is_active

\* A process id in a consistent snapshot is that of a VM, or of none.
LEMMA RecordedVm ==
    ASSUME Inv, NEW p \in Procs, NEW b \in Boxes
    PROVE  mem[p][b].pid \in Pids => vms[mem[p][b].pid].state # "free" /\ vms[mem[p][b].pid].box = b
    BY PidFacts DEF Inv, Copies, Snap, GoodSnapshot, GoodRecord

\* Stops, boots and what `run` does after its boot.
LEMMA OneBoxKnown ==
    ASSUME Inv, Known, NEW p \in Cli,
           \/ StopStep(p) \/ BootFail(p)
           \/ \E q \in Pids : BootCommand(p, q) \/ BootRun(p, q)
           \/ RunAdd(p) \/ RunAttach(p) \/ RunStopped(p)
           \/ \E byUser \in BOOLEAN, code \in ExitCode : RunEnd(p, byUser, code)
           \/ CreateRollback(p) \/ rollback_booted_setup(p) \/ cleanup_partial_box_record(p)
    PROVE  Known'
<1>1. /\ p \in Procs /\ p # Monitor /\ HasBoxAt(p) /\ vms \in [Pids -> Vm]
      /\ cur \in [Procs -> Boxes \cup {NoBox}]
    BY ProcFacts DEF Inv, RestOK, Side, LocalOK
<1>2. cur[p] \in Boxes
  <2>1. CASE rollback_booted_setup(p)
      BY <1>1, <2>1 DEF rollback_booted_setup, HasBoxAt
  <2>2. CASE ~rollback_booted_setup(p)
      BY <1>1, <2>2 DEF HasBoxAt, StopStep, StopAlreadyExited, StopSignal, StopExited, StopTimeout, BootFail,
         BootCommand, BootRun, RunAdd, RunAttach, RunStopped, RunEnd, CreateRollback, cleanup_partial_box_record
  <2> QED  BY <2>1, <2>2
<1>3. cur[p] \in used
    BY <1>2, StateAssumption DEF Known
<1>4. file' = file /\ buf' = buf /\ used' = used
    BY DEF StopStep, StopAlreadyExited, StopSignal, StopExited, StopTimeout, BootFail,
       BootCommand, BootRun, RunAdd, RunAttach, RunStopped, RunEnd, CreateRollback, cleanup_partial_box_record,
       rollback_booted_setup, shared
<1>5. \A x \in Cli : cur'[x] \in {cur[x], NoBox}
  <2>1. ASSUME NEW l, SpawnAndGo(p, cur[p], l)
        PROVE  \A x \in Cli : cur'[x] = cur[x]
      BY <1>1, <2>1, ProcFacts DEF SpawnAndGo
  <2>2. ASSUME NEW byUser, NEW code, RunEnd(p, byUser, code)
        PROVE  \A x \in Cli : cur'[x] \in {cur[x], NoBox}
      BY <2>2, ProcFacts DEF RunEnd
  <2> QED  BY <2>1, <2>2 DEF StopStep, StopAlreadyExited, StopSignal, StopExited, StopTimeout, BootFail,
              BootCommand, BootRun, RunAdd, RunAttach, RunStopped, CreateRollback, cleanup_partial_box_record,
              rollback_booted_setup
<1>6. mem' = mem \/ \E r : mem' = [mem EXCEPT ![p] = Put(@, cur[p], r)]
  <2>1. CASE StopStep(p)
      BY <1>1, <2>1 DEF StopStep, StopAlreadyExited, StopSignal, StopExited, StopTimeout, StopDone, SetMem
  <2>2. ASSUME NEW q \in Pids, BootCommand(p, q)
        PROVE  \E r : mem' = [mem EXCEPT ![p] = Put(@, cur[p], r)]
      BY <2>2, Zenon DEF BootCommand
  <2>3. CASE RunAdd(p) \/ RunStopped(p) \/ cleanup_partial_box_record(p)
      BY <2>3 DEF RunAdd, RunStopped, cleanup_partial_box_record, SetMem
  <2> QED  BY <2>1, <2>2, <2>3 DEF BootFail, BootRun, RunAttach, RunEnd, CreateRollback, rollback_booted_setup
<1>7. VmsKnown
  <2> DEFINE q0 == mem[p][cur[p]].pid
  <2>1. q0 \in Pids => vms[q0].state # "free"
      BY <1>1, <1>2, RecordedVm
  <2>2. ASSUME NEW q \in Pids, StartVm(q, cur[p])
        PROVE  VmsKnown
      BY <1>1, <1>3, <1>4, <2>2 DEF StartVm, VmsKnown, Known
  <2>3. ASSUME NEW byUser, NEW code, RunEnd(p, byUser, code)
        PROVE  VmsKnown
    <3>1. vms' = [vms EXCEPT ![q0].state = "gone", ![q0].code = code]
        BY <2>3 DEF RunEnd
    <3>2. \A q \in Pids : vms'[q].box = vms[q].box /\ (vms'[q].state # "free" => vms[q].state # "free")
        BY <1>1, <2>1, <3>1 DEF Vm
    <3> QED  BY <1>4, <3>2 DEF VmsKnown, Known
  <2>4. vms' = vms => VmsKnown
      BY <1>4 DEF VmsKnown, Known
  <2>5. ASSUME NEW s, vms' = [vms EXCEPT ![q0].state = s]
        PROVE  VmsKnown
      BY <1>4, <2>1, <2>5, VmsStateKnown
  <2>6. CASE StopStep(p)
      BY <2>4, <2>5, <2>6 DEF StopStep, StopAlreadyExited, StopSignal, StopExited, StopTimeout, SetVm
  <2>7. CASE rollback_booted_setup(p)
      BY <2>5, <2>7 DEF rollback_booted_setup, SetVm
  <2> QED  BY <2>2, <2>3, <2>4, <2>6, <2>7 DEF BootFail, BootCommand, BootRun, RunAdd, RunAttach, RunStopped,
              CreateRollback, cleanup_partial_box_record
<1> QED  BY <1>1, <1>3, <1>4, <1>5, <1>6, <1>7, MemKnown

\* A command's work on one of its boxes.
LEMMA BoxStepKnown ==
    ASSUME Inv, Known, NEW p \in Cli, NEW b \in Boxes, BoxStep(p, b)
    PROVE  Known'
<1>1. p \in Procs /\ p # Monitor /\ cur \in [Procs -> Boxes \cup {NoBox}]
    BY ProcFacts DEF Inv, RestOK
<1>2. /\ file' = file /\ buf' = buf /\ used' = used
      /\ \/ Reject(p, b)
         \/ Accepts(op[p], mem[p][b]) /\ cur' = [cur EXCEPT ![p] = b]
    BY DEF BoxStep, Reject, start_one, stop_one, kill_one, SetPaused, SetRunning, KillOther, rm_one,
       PruneOne, TouchOne, Handle, shared
<1>3. CASE Reject(p, b)
    BY <1>3 DEF Reject, shared, Known, Seen
<1>4. CASE ~Reject(p, b)
  <2>1. b \in used
      BY <1>1, <1>2, <1>4, AcceptsPresent DEF Known, Seen, Present
  <2>2. \A x \in Cli : cur'[x] \in {cur[x], NoBox} \cup used'
      BY <1>1, <1>2, <1>4, <2>1, ProcFacts
  <2>3. mem' = mem \/ \E r : mem' = [mem EXCEPT ![p] = Put(@, b, r)]
      BY <1>4 DEF BoxStep, start_one, stop_one, kill_one, SetPaused, SetRunning, KillOther, rm_one,
         PruneOne, TouchOne, SetMem
  <2>4. vms' = vms \/ \E s : vms' = [vms EXCEPT ![mem[p][b].pid].state = s]
      BY <1>4 DEF BoxStep, start_one, stop_one, kill_one, SetPaused, SetRunning, KillOther, rm_one,
         PruneOne, TouchOne, rm_vms
  <2>5. VmsKnown
    <3>1. CASE vms' = vms
        BY <1>2, <3>1 DEF VmsKnown, Known
    <3>2. mem[p][b].pid \in Pids => vms[mem[p][b].pid].state # "free"
        BY <1>1, RecordedVm
    <3>3. ASSUME NEW s, vms' = [vms EXCEPT ![mem[p][b].pid].state = s]
          PROVE  VmsKnown
        BY <1>2, <3>2, <3>3, VmsStateKnown
    <3> QED  BY <2>4, <3>1, <3>3
  <2> QED  BY <1>1, <1>2, <2>1, <2>2, <2>3, <2>5, MemKnown
<1> QED  BY <1>3, <1>4

\* A command is issued or ends.
LEMMA CommandKnown ==
    ASSUME Inv, Known, NEW p \in Cli,
           \/ Exit(p)
           \/ \E b \in Boxes : InvokeCreate(p, b)
           \/ \E b \in Boxes, o \in {"run", "runfg"} : InvokeRun(p, o, b)
           \/ \E o \in Ops : Invoke(p, o)
    PROVE  Known'
<1>1. p \in Procs /\ cur \in [Procs -> Boxes \cup {NoBox}] /\ mem \in [Procs -> Snapshot] /\ buf \in [Procs -> Snapshot]
    BY ProcFacts DEF Inv, RestOK, Copies
<1>2. \A b \in Boxes : ~Present(Empty, b)
    BY NoCount DEF Present
<1>3. used \subseteq used' /\ vms' = vms /\ file' = file
    BY DEF Exit, InvokeCreate, InvokeRun, Invoke
<1>4. VmsKnown
    BY <1>3 DEF VmsKnown, Known
<1>5. \A b \in Boxes : Seen(b)' => Seen(b)
  <2>1. CASE Exit(p)
      BY <1>2, <1>3, <2>1 DEF Exit, Seen
  <2>2. CASE mem' = mem /\ buf' = buf
      BY <1>3, <2>2 DEF Seen
  <2> QED  BY <2>1, <2>2 DEF InvokeCreate, InvokeRun, Invoke
<1>6. \A x \in Cli : cur'[x] \in {cur[x], NoBox} \cup used'
  <2>1. CASE Exit(p)
      BY <2>1, ProcFacts DEF Exit
  <2>2. CASE ~Exit(p)
      BY <1>1, <2>2, ProcFacts DEF InvokeCreate, InvokeRun, Invoke
  <2> QED  BY <2>1, <2>2
<1> QED  BY <1>3, <1>4, <1>5, <1>6, KnownStep

-----------------------------------------------------------------------------
(* Steps of a command outside of load, save and modify.                    *)

\* The file, the processes inside modify and the monitor are left alone.
Apart ==
    /\ file' = file /\ pc'[Monitor] = pc[Monitor]
    /\ \A c \in Checkers : clo'[c].f \in {clo[c].f, "none"}
    /\ \A x \in Procs : InModify(x)' => InModify(x) /\ buf'[x] = buf[x]

\* Such a step leaves all tracked, if the command is about to save or ends VMs only.
LEMMA ApartSeq ==
    ASSUME SeqInv, Known', OneCommand, NEW p \in Cli, Apart, LocalAt(p)',
           pc'[p] = "save" \/ (pc[p] # "save" /\ Calm(vms, clo[p].pid, vms', clo'[p].pid))
    PROVE  SeqInv'
<1>1. Quietly'
    BY DEF SeqInv, Quietly, Apart
<1>2. pc'[p] # "save" => StoredAt(p)'
  <2> SUFFICES ASSUME pc'[p] # "save"
               PROVE  StoredAt(p)'
      OBVIOUS
  <2>1. StoredAt(p) /\ Calm(vms, clo[p].pid, vms', clo'[p].pid)
      BY DEF SeqInv
  <2>2. Tracks(vms', file', clo'[p].pid)
      BY <2>1, CalmTracks DEF StoredAt, Apart
  <2>3. ASSUME NEW x \in Procs, InModify(x)'
        PROVE  Tracks(vms', buf'[x], clo'[p].pid)
    <3>1. InModify(x) /\ buf'[x] = buf[x]
        BY <2>3 DEF Apart
    <3>2. Tracks(vms, buf[x], clo[p].pid)
        BY <2>1, <3>1 DEF StoredAt
    <3> QED  BY <2>1, <3>1, <3>2, CalmTracks
  <2> QED  BY <2>2, <2>3 DEF StoredAt
<1>3. ASSUME NEW x \in Cli
      PROVE  LocalAt(x)' /\ (pc'[x] # "save" => StoredAt(x)')
  <2>1. x = p
      BY DEF OneCommand
  <2> QED  BY <1>2, <2>1
<1> QED  BY <1>1, <1>3 DEF SeqInv

\* A command steps, or starts or ends a checker that is not inside modify.
LEMMA ApartStep ==
    ASSUME Inv, NEW p \in Cli, file' = file, buf' = buf, ~InModify(p)', pc'[Monitor] = pc[Monitor],
           \A x \in Procs \ {p} : clo'[x] = clo[x] /\ pc'[x] \in {pc[x], "sleep", "idle"}
    PROVE  Apart
    BY ProcFacts DEF Apart, InModify

\* Live VMs belong to boxes, after a step.
LEMMA LiveBoxes ==
    ASSUME Inv', Known'
    PROVE  \A q \in Pids : Live(vms', q) => vms'[q].box \in Boxes
    BY DEF Inv, RestOK, Known, Live

\* The graceful stop.
LEMMA StopSeq ==
    ASSUME Inv, Inv', SeqInv, Known', OneCommand, NEW p \in Cli, StopStep(p)
    PROVE  SeqInv'
<1>1. /\ p \in Procs /\ p # Monitor /\ vms \in [Pids -> Vm] /\ pc \in [Procs -> PC]
      /\ mem \in [Procs -> Snapshot] /\ LocalAt(p) /\ pc[p] \in {"signal", "await"} /\ clo[p].pid = 0
    BY SeqFacts DEF StopStep, StopAlreadyExited, StopSignal, StopExited, StopTimeout
<1>2. cur[p] \in Boxes /\ op[p] \in {"stop", "restart", "none"}
    BY <1>1 DEF Inv, Side, LocalOK, HasBoxAt
<1>3. Tracks(vms, mem[p], 0)
    BY <1>1 DEF LocalAt, Blank
<1>4. /\ file' = file /\ buf' = buf /\ cur' = cur /\ op' = op /\ clo' = clo
      /\ pc' = [pc EXCEPT ![p] = IF StopSignal(p) THEN "await" ELSE "save"]
      /\ StopSignal(p) => mem' = mem
      /\ ~StopSignal(p) => \E r : mem' = [mem EXCEPT ![p] = Put(@, cur[p], r)]
    BY <1>1 DEF StopStep, StopAlreadyExited, StopSignal, StopExited, StopTimeout, StopDone, Goto, SetMem, shared
<1>5. Apart
    BY <1>1, <1>4, ApartStep, ProcFacts DEF InModify
<1>6. Calm(vms, 0, vms', 0)
  <2>1. CASE StopSignal(p)
    <3> DEFINE q == mem[p][cur[p]].pid
               s == Terminating(vms[q].state)
    <3>1. vms' = [vms EXCEPT ![q].state = s]
        BY <2>1 DEF StopSignal
    <3>2. s # "up" /\ (s = "frozen" => vms[q].state = "frozen")
        BY DEF Terminating
    <3> HIDE DEF q, s
    <3> QED  BY <1>1, <3>1, <3>2, SignalCalm
  <2>2. CASE StopTimeout(p)
      BY <1>1, <2>2, SignalCalm DEF StopTimeout, SetVm
  <2>3. CASE vms' = vms
      BY <2>3, SameCalm
  <2> QED  BY <2>1, <2>2, <2>3 DEF StopStep, StopAlreadyExited, StopExited
<1>7. LocalAt(p)'
  <2>1. CASE StopSignal(p)
    <3>1. Tracks(vms', mem'[p], 0)
        BY <1>3, <1>4, <1>6, <2>1, CalmTracks
    <3> QED  BY <1>1, <1>2, <1>4, <2>1, <3>1 DEF LocalAt, Bare, Modifying
  <2>2. CASE ~StopSignal(p)
    <3>1. \A q \in Pids : q = mem[p][cur[p]].pid => ~Live(vms', q)
      <4>1. CASE StopTimeout(p)
          BY <1>1, <4>1 DEF StopTimeout, SetVm, Live
      <4>2. CASE StopAlreadyExited(p) \/ StopExited(p)
          BY <4>2 DEF StopAlreadyExited, StopExited, LivePid, is_process_alive, Live
      <4> QED  BY <2>2, <4>1, <4>2 DEF StopStep
    <3>2. NoneLive(vms', cur[p])
        BY <1>3, <1>6, <3>1, BareBox
    <3>3. PICK r : mem' = [mem EXCEPT ![p] = Put(@, cur[p], r)]
        BY <1>4, <2>2
    <3>4. mem[p] \in Snapshot /\ mem'[p] = Put(mem[p], cur[p], r)
        BY <1>1, <3>3
    <3>5. Tracks(vms', Put(mem[p], cur[p], r), 0)
        BY <1>2, <1>3, <1>6, <3>2, <3>4, LiveBoxes, PutBare
    <3> QED  BY <1>1, <1>2, <1>4, <2>2, <3>4, <3>5 DEF LocalAt, Bare, Modifying
  <2> QED  BY <2>1, <2>2
<1> QED  BY <1>1, <1>4, <1>5, <1>6, <1>7, ApartSeq

\* Boots: a command boots only a box without a live VM.
LEMMA BootSeq ==
    ASSUME Inv, Inv', SeqInv, Known', OneCommand, NEW p \in Cli,
           \/ BootFail(p)
           \/ \E q \in Pids : BootCommand(p, q) \/ BootRun(p, q)
    PROVE  SeqInv'
<1>1. /\ p \in Procs /\ p # Monitor /\ vms \in [Pids -> Vm] /\ pc \in [Procs -> PC] /\ clo \in [Procs -> Closure]
      /\ mem \in [Procs -> Snapshot] /\ LocalAt(p) /\ pc[p] = "boot" /\ clo[p].pid = 0
    BY SeqFacts DEF BootFail, BootCommand, BootRun
<1>2. cur[p] \in Boxes /\ NoneLive(vms, cur[p]) /\ (Tracks(vms, mem[p], 0) \/ Blank(p))
    BY <1>1 DEF Inv, Side, LocalOK, HasBoxAt, LocalAt, Bare
<1>3. CASE BootFail(p)
  <2>1. /\ file' = file /\ buf' = buf /\ cur' = cur /\ op' = op /\ clo' = clo /\ mem' = mem /\ vms' = vms
        /\ pc' = [pc EXCEPT ![p] = "pick"]
      BY <1>1, <1>3 DEF BootFail, shared
  <2>2. Apart
      BY <1>1, <2>1, ApartStep, ProcFacts DEF InModify
  <2>3. LocalAt(p)'
      BY <1>1, <1>2, <2>1 DEF LocalAt, Bare, Blank, Modifying
  <2> QED  BY <1>1, <2>1, <2>2, <2>3, SameCalm, ApartSeq
<1>4. ASSUME NEW q \in Pids, BootCommand(p, q)
      PROVE  SeqInv'
  <2> DEFINE r == apply_boot_result(cur[p], mem[p][cur[p]], q, IF op[p] = "start" THEN "Reset" ELSE "Preserve")
  <2>1. /\ file' = file /\ buf' = buf /\ op' = op /\ clo' = clo /\ op[p] \in {"start", "restart"}
        /\ mem' = [mem EXCEPT ![p] = Put(@, cur[p], r)]
        /\ pc'[p] = "save" /\ pc'[Monitor] = pc[Monitor]
        /\ \A x \in Procs \ {p} : pc'[x] \in {pc[x], "sleep"}
      BY <1>1, <1>4, ProcFacts DEF BootCommand, SpawnAndGo, shared
  <2>2. Apart
      BY <1>1, <2>1, ApartStep, ProcFacts DEF InModify
  <2>3. vms' = [vms EXCEPT ![q] = [state |-> "up", box |-> cur[p], code |-> "none"]]
      BY <1>4 DEF BootCommand, StartVm
  <2>4. CalmBeside(vms, 0, vms', 0, cur[p])
      BY <1>1, <2>3, PidFacts DEF CalmBeside, Live
  <2>5. \A x \in Pids : Live(vms', x) /\ x # 0 /\ vms'[x].box = cur[p] => Named(vms', x, r)
      BY <1>1, <1>2, <2>3 DEF NoneLive, Named, Live, apply_boot_result
  <2>6. Tracks(vms, mem[p], 0) /\ mem[p] \in Snapshot
      BY <1>1, <1>2, <2>1 DEF Blank
  <2> HIDE DEF r
  <2>7. Tracks(vms', Put(mem[p], cur[p], r), 0)
      BY <1>2, <2>4, <2>5, <2>6, LiveBoxes, PutTracks
  <2>8. mem'[p] = Put(mem[p], cur[p], r)
      BY <1>1, <2>1
  <2>9. LocalAt(p)'
      BY <1>1, <2>1, <2>7, <2>8 DEF LocalAt, Bare, Modifying
  <2> QED  BY <2>1, <2>2, <2>9, ApartSeq
<1>5. ASSUME NEW q \in Pids, BootRun(p, q)
      PROVE  SeqInv'
  <2>1. /\ file' = file /\ buf' = buf /\ op' = op /\ mem' = mem /\ cur' = cur /\ op[p] \in {"run", "runfg"}
        /\ pc' = [pc EXCEPT ![p] = "load"]
        /\ clo' = [clo EXCEPT ![p].pid = q]
        /\ vms' = [vms EXCEPT ![q] = [state |-> "up", box |-> cur[p], code |-> "none"]]
      BY <1>5 DEF BootRun, StartVm, shared
  <2>2. clo'[p].pid = q /\ \A x \in Procs \ {p} : clo'[x] = clo[x]
      BY <1>1, <2>1 DEF Closure
  <2>3. Apart
      BY <1>1, <2>1, <2>2, ApartStep, ProcFacts DEF InModify
  <2>4. Calm(vms, 0, vms', q)
      BY <1>1, <2>1, PidFacts DEF Calm, Live
  <2>5. \A x \in Pids : Live(vms', x) /\ vms'[x].box = cur[p] => x = q /\ vms'[x].state = "up"
      BY <1>1, <1>2, <2>1 DEF NoneLive, Live
  <2>6. LocalAt(p)'
      BY <1>1, <2>1, <2>2, <2>5 DEF LocalAt, Bare, Modifying
  <2> QED  BY <1>1, <2>2, <2>3, <2>4, <2>6, ApartSeq
<1> QED  BY <1>3, <1>4, <1>5

\* A command's work on one of its boxes.
LEMMA BoxStepSeq ==
    ASSUME Inv, Inv', SeqInv, Known', OneCommand, NEW p \in Cli, NEW b \in Boxes, BoxStep(p, b)
    PROVE  SeqInv'
<1> DEFINE r == mem[p][b]
           q0 == r.pid
<1>1. /\ p \in Procs /\ p # Monitor /\ vms \in [Pids -> Vm] /\ pc \in [Procs -> PC] /\ clo \in [Procs -> Closure]
      /\ mem \in [Procs -> Snapshot] /\ mem[p] \in Snapshot /\ cur \in [Procs -> Boxes \cup {NoBox}]
      /\ LocalAt(p) /\ r \in Record /\ GoodRecord(vms, b, r)
      /\ clo[p].pid # 0 => op[p] \in {"run", "runfg", "fgend"}
    BY SeqFacts
<1>2. CASE Reject(p, b)
  <2>1. /\ file' = file /\ buf' = buf /\ cur' = cur /\ op' = op /\ clo' = clo /\ mem' = mem /\ vms' = vms
        /\ pc' = pc /\ pc[p] = "pick"
      BY <1>2 DEF Reject, shared
  <2>2. Apart
      BY <1>1, <2>1, ApartStep, ProcFacts DEF InModify
  <2>3. LocalAt(p)'
      BY <1>1, <2>1 DEF LocalAt, Bare, Blank, Modifying
  <2> QED  BY <2>1, <2>2, <2>3, SameCalm, ApartSeq
<1>3. CASE ~Reject(p, b)
  <2>1. /\ file' = file /\ buf' = buf /\ op' = op /\ cur' = [cur EXCEPT ![p] = b]
        /\ op[p] \notin {"create", "run", "runfg", "rollback", "fgend"} /\ pc[p] = "pick"
        /\ clo' = IF rm_one(p, b) THEN [clo EXCEPT ![p].f = "remove"] ELSE clo
        /\ \E l \in {"pick", "boot", "signal", "save", "lock"} :
             /\ pc' = [pc EXCEPT ![p] = l]
             /\ l = "lock" => rm_one(p, b)
             /\ l = "boot" => start_one(p, b)
             /\ SetPaused(p, b) => l = "save"
      BY <1>1, <1>3 DEF BoxStep, start_one, stop_one, kill_one, SetPaused, SetRunning, KillOther, rm_one,
              PruneOne, TouchOne, Handle, Goto, shared
  <2>2. clo[p].pid = 0 /\ Tracks(vms, mem[p], 0)
      BY <1>1, <2>1 DEF LocalAt, Blank
  <2>3. /\ clo'[p].pid = 0 /\ (Modifying(p)' => clo'[p].f = "remove")
        /\ \A x \in Procs \ {p} : clo'[x] = clo[x] /\ pc'[x] = pc[x]
        /\ pc'[p] # "idle" /\ ~InModify(p)'
      BY <1>1, <2>1, <2>2 DEF Modifying, InModify, Closure
  <2>4. Apart
      BY <1>1, <2>1, <2>3, ApartStep, ProcFacts
  <2>5. q0 \in Pids => vms[q0].box = b
      BY <1>1, RecordedVm
  <2>6. Inactive(r) => NoneLive(vms, b)
    <3>1. Inactive(r) => r.pid = 0
        BY <1>1 DEF Inactive, is_active, GoodRecord
    <3> QED  BY <2>2, <3>1, PidFacts DEF NoneLive, Tracks
  <2>7. SetPaused(p, b) \/ Calm(vms, 0, vms', 0)
    <3>1. ASSUME NEW s, vms' = [vms EXCEPT ![q0].state = s], s = "up" => Live(vms, q0),
                 s = "frozen" => vms[q0].state = "frozen"
          PROVE  Calm(vms, 0, vms', 0)
        BY <1>1, <3>1, SignalCalm
    <3>2. CASE stop_one(p, b) \/ SetRunning(p, b)
      <4>1. vms' = vms \/ vms' = [vms EXCEPT ![q0].state = Resumed(vms[q0].state)]
          BY <3>2 DEF stop_one, SetRunning
      <4>2. /\ Resumed(vms[q0].state) = "up" => Live(vms, q0)
            /\ Resumed(vms[q0].state) # "frozen"
          BY DEF Resumed, Live
      <4> QED  BY <3>1, <4>1, <4>2, SameCalm
    <3>3. CASE kill_one(p, b)
      <4> DEFINE s == IF op[p] = "killkill" /\ vms[q0].state = "frozen" THEN "gone"
                      ELSE IF op[p] = "killkill" \/ r.status = "paused" THEN "dying"
                      ELSE Terminating(vms[q0].state)
      <4>1. vms' = [vms EXCEPT ![q0].state = s]
          BY <3>3 DEF kill_one
      <4>2. s # "up" /\ (s = "frozen" => vms[q0].state = "frozen")
          BY DEF Terminating
      <4> HIDE DEF s
      <4> QED  BY <3>1, <4>1, <4>2
    <3>4. CASE rm_one(p, b)
      <4>1. vms' = vms \/ vms' = [vms EXCEPT ![q0].state = "gone"]
          BY <3>4 DEF rm_one, rm_vms
      <4> QED  BY <3>1, <4>1, SameCalm
    <3>5. CASE vms' = vms
        BY <3>5, SameCalm
    <3> QED  BY <1>3, <3>2, <3>3, <3>4, <3>5 DEF BoxStep, start_one, KillOther, PruneOne, TouchOne
  <2>8. kill_one(p, b) \/ rm_one(p, b) => NoneLive(vms', b)
    <3> SUFFICES ASSUME kill_one(p, b) \/ rm_one(p, b)
                 PROVE  NoneLive(vms', b)
        OBVIOUS
    <3>1. \A q \in Pids : q = q0 => ~Live(vms', q)
      <4> SUFFICES ASSUME q0 \in Pids
                   PROVE  ~Live(vms', q0)
          OBVIOUS
      <4>1. vms[q0].state = "frozen" => r.status = "paused"
          BY <2>2, <2>5, PidFacts DEF Tracks, Live
      <4>2. CASE kill_one(p, b)
        <5> DEFINE s == IF op[p] = "killkill" /\ vms[q0].state = "frozen" THEN "gone"
                        ELSE IF op[p] = "killkill" \/ r.status = "paused" THEN "dying"
                        ELSE Terminating(vms[q0].state)
        <5>1. vms' = [vms EXCEPT ![q0].state = s]
            BY <4>2 DEF kill_one
        <5>2. s \notin {"up", "frozen"}
            BY <4>1 DEF Terminating
        <5> HIDE DEF s
        <5> QED  BY <1>1, <5>1, <5>2 DEF Live, Vm
      <4>3. CASE rm_one(p, b)
        <5>1. q0 # 0 => is_active(r)
            BY <1>1 DEF GoodRecord
        <5>2. Live(vms, q0) => LivePid(r)
            BY DEF Live, LivePid, is_process_alive
        <5> QED  BY <1>1, <4>3, <5>1, <5>2, PidFacts DEF rm_one, rm_vms, Live, Vm
      <4> QED  BY <4>2, <4>3
    <3>2. Calm(vms, 0, vms', 0)
      <4>1. ~SetPaused(p, b)
          BY DEF kill_one, rm_one, SetPaused, Handle
      <4> QED  BY <2>7, <4>1
    <3> QED  BY <2>2, <3>1, <3>2, BareBox
  <2>9. Tracks(vms', mem'[p], 0)
    <3>1. CASE mem' = mem /\ ~SetPaused(p, b)
        BY <2>2, <2>7, <3>1, CalmTracks
    <3>2. ASSUME NEW n, mem' = [mem EXCEPT ![p] = Put(@, b, n)], NoneLive(vms', b), Calm(vms, 0, vms', 0)
          PROVE  Tracks(vms', mem'[p], 0)
      <4>1. Tracks(vms', Put(mem[p], b, n), 0)
          BY <1>1, <2>2, <3>2, LiveBoxes, PutBare
      <4> QED  BY <1>1, <3>2, <4>1
    <3>3. CASE kill_one(p, b) \/ rm_one(p, b)
      <4>1. ~SetPaused(p, b)
          BY <3>3 DEF kill_one, rm_one, SetPaused, Handle
      <4> QED  BY <2>7, <2>8, <3>2, <3>3, <4>1 DEF kill_one, rm_one, SetMem
    <3>4. CASE PruneOne(p, b)
      <4>1. NoneLive(vms', b)
          BY <2>6, <3>4 DEF PruneOne, Handle, Accepts
      <4>2. Calm(vms, 0, vms', 0)
          BY <3>4, SameCalm DEF PruneOne
      <4> QED  BY <3>2, <3>4, <4>1, <4>2 DEF PruneOne, SetMem
    <3>5. ASSUME NEW s, mem' = [mem EXCEPT ![p] = Put(@, b, [r EXCEPT !.status = s])],
                 \/ s = "paused" /\ SetPaused(p, b)
                 \/ s = "running" /\ SetRunning(p, b)
          PROVE  Tracks(vms', mem'[p], 0)
      <4> DEFINE n == [r EXCEPT !.status = s]
      <4>1. n.pid = q0 /\ n.status = s
          BY <1>1 DEF Record
      <4> HIDE DEF n
      <4>2. \/ vms' = vms /\ s = "paused"
            \/ vms' = [vms EXCEPT ![q0].state = "frozen"] /\ s = "paused"
            \/ vms' = [vms EXCEPT ![q0].state = Resumed(vms[q0].state)] /\ s = "running"
          BY <3>5 DEF SetPaused, SetRunning
      <4>3. q0 \in Pids
          BY <3>5 DEF SetPaused, SetRunning, Handle, Accepts, Kills, LivePid, is_process_alive
      <4>4. /\ \A q \in Pids : q # q0 => vms'[q] = vms[q]
            /\ vms'[q0].box = b
            /\ vms'[q0].state = "frozen" => s = "paused"
          BY <1>1, <2>2, <2>5, <4>2, <4>3, PidFacts DEF Vm, Resumed, Tracks, Live
      <4>5. CalmBeside(vms, 0, vms', 0, b)
          BY <4>4, PidFacts DEF CalmBeside, Live
      <4>6. \A q \in Pids : Live(vms', q) /\ q # 0 /\ vms'[q].box = b => Named(vms', q, n)
          BY <2>2, <4>1, <4>3, <4>4 DEF Tracks, Named, Live
      <4>7. Tracks(vms', Put(mem[p], b, n), 0)
          BY <1>1, <2>2, <4>5, <4>6, LiveBoxes, PutTracks
      <4>8. mem' = [mem EXCEPT ![p] = Put(@, b, n)]
          BY <3>5 DEF n
      <4> QED  BY <1>1, <4>7, <4>8
    <3>6. CASE SetPaused(p, b) \/ SetRunning(p, b)
        BY <3>5, <3>6 DEF SetPaused, SetRunning, SetMem
    <3> QED  BY <1>3, <3>1, <3>3, <3>4, <3>6 DEF BoxStep, start_one, stop_one, KillOther, TouchOne
  <2>10. start_one(p, b) => NoneLive(vms', b)
      BY <2>6 DEF start_one
  <2>11. Bare(p)' => NoneLive(vms', b)
      BY <1>1, <2>1, <2>8, <2>10 DEF Bare
  <2>12. cur'[p] = b
      BY <1>1, <2>1
  <2>13. LocalAt(p)'
      BY <2>3, <2>9, <2>11, <2>12 DEF LocalAt
  <2>14. pc'[p] = "save" \/ (pc[p] # "save" /\ Calm(vms, clo[p].pid, vms', clo'[p].pid))
      BY <1>1, <2>1, <2>2, <2>3, <2>7
  <2> QED  BY <2>4, <2>13, <2>14, ApartSeq
<1> QED  BY <1>2, <1>3

\* `run` after its boot, its end in the foreground, and the rollbacks.
LEMMA RunSeq ==
    ASSUME Inv, Inv', SeqInv, Known', OneCommand, NEW p \in Cli,
           \/ RunAdd(p) \/ RunAttach(p) \/ RunStopped(p)
           \/ \E byUser \in BOOLEAN, code \in ExitCode : RunEnd(p, byUser, code)
           \/ CreateRollback(p) \/ rollback_booted_setup(p) \/ cleanup_partial_box_record(p)
    PROVE  SeqInv'
<1> DEFINE b == cur[p]
           q0 == mem[p][b].pid
           n == clo[p].pid
<1>1. /\ p \in Procs /\ p # Monitor /\ vms \in [Pids -> Vm] /\ pc \in [Procs -> PC] /\ clo \in [Procs -> Closure]
      /\ mem \in [Procs -> Snapshot] /\ mem[p] \in Snapshot /\ LocalAt(p)
      /\ cur \in [Procs -> Boxes \cup {NoBox}]
      /\ n # 0 => /\ n \in Pids /\ vms[n].box = b /\ op[p] \in {"run", "runfg", "fgend"}
                  /\ pc[p] \in {"load", "rwrite", "pick"}
      /\ \A q \in Pids : Live(vms, q) => vms[q].box \in Boxes
    BY SeqFacts
<1>2. pc[p] \in {"pick", "attach", "attached"}
    BY DEF RunAdd, RunAttach, RunStopped, RunEnd, CreateRollback, rollback_booted_setup, cleanup_partial_box_record
<1>3. b \in Boxes
  <2>1. HasBoxAt(p)
      BY <1>1 DEF Inv, Side, LocalOK
  <2>2. CASE rollback_booted_setup(p)
      BY <2>1, <2>2 DEF rollback_booted_setup, HasBoxAt
  <2>3. CASE ~rollback_booted_setup(p)
      BY <2>1, <2>3 DEF RunAdd, RunAttach, RunStopped, RunEnd, CreateRollback, cleanup_partial_box_record, HasBoxAt
  <2> QED  BY <2>2, <2>3
<1>4. /\ file' = file /\ buf' = buf
    BY DEF RunAdd, RunAttach, RunStopped, RunEnd, CreateRollback, rollback_booted_setup,
       cleanup_partial_box_record, shared
<1>5. CASE RunAdd(p)
  <2> DEFINE r == apply_boot_result(b, NewRecord, n, "Reset")
  <2>1. /\ vms' = vms /\ op' = op /\ cur' = cur /\ pc' = [pc EXCEPT ![p] = "save"]
        /\ mem' = [mem EXCEPT ![p] = Put(@, b, r)] /\ clo' = [clo EXCEPT ![p] = NoClosure]
        /\ n # 0 /\ op[p] \in {"run", "runfg"}
      BY <1>5 DEF RunAdd, SetMem, Goto
  <2>2. Apart
      BY <1>1, <1>4, <2>1, ApartStep, ProcFacts DEF InModify
  <2>3. Tracks(vms, mem[p], n)
      BY <1>1, <1>2, <2>1 DEF LocalAt, Blank
  <2>4. \A q \in Pids : Live(vms, q) /\ vms[q].box = b => q = n /\ vms[q].state = "up"
      BY <1>1, <2>1 DEF LocalAt
  <2>5. CalmBeside(vms, n, vms, 0, b)
      BY <1>1, <2>1 DEF CalmBeside
  <2>6. \A q \in Pids : Live(vms, q) /\ q # 0 /\ vms[q].box = b => Named(vms, q, r)
      BY <2>4 DEF Named, apply_boot_result
  <2> HIDE DEF r
  <2>7. Tracks(vms, Put(mem[p], b, r), 0)
      BY <1>1, <1>3, <2>3, <2>5, <2>6, PutTracks
  <2>8. mem'[p] = Put(mem[p], b, r) /\ clo'[p].pid = 0 /\ pc'[p] = "save"
      BY <1>1, <2>1 DEF NoClosure
  <2>9. LocalAt(p)'
      BY <2>1, <2>7, <2>8 DEF LocalAt, Bare, Modifying
  <2> QED  BY <2>2, <2>8, <2>9, ApartSeq
<1>6. CASE RunAttach(p)
  <2>1. /\ vms' = vms /\ op' = op /\ clo' = clo /\ mem' = mem /\ cur'[p] = b /\ pc[p] = "attach"
        /\ pc'[p] = "attached" /\ pc'[Monitor] = pc[Monitor]
        /\ \A x \in Procs \ {p} : pc'[x] \in {pc[x], "sleep"}
      BY <1>1, <1>6, ProcFacts DEF RunAttach, SpawnAndGo
  <2>2. Apart
      BY <1>1, <1>4, <2>1, ApartStep, ProcFacts DEF InModify
  <2>3. LocalAt(p)'
      BY <1>1, <2>1 DEF LocalAt, Bare, Blank, Modifying
  <2> QED  BY <2>1, <2>2, <2>3, SameCalm, ApartSeq
<1>7. CASE RunStopped(p)
  <2>1. /\ vms' = vms /\ cur' = cur /\ clo' = [clo EXCEPT ![p] = NoClosure] /\ op[p] = "fgend" /\ pc[p] = "pick"
        /\ \E l \in {"pick", "save"} : pc' = [pc EXCEPT ![p] = l]
      BY <1>7 DEF RunStopped, Goto
  <2>2. op' = [op EXCEPT ![p] = "end"] /\ op'[p] = "end"
      BY <1>1, <1>7 DEF RunStopped, Inv, RestOK
  <2>3. PICK r : mem' = [mem EXCEPT ![p] = Put(@, b, r)]
      BY <1>7, Zenon DEF RunStopped, SetMem
  <2>4. Apart
      BY <1>1, <1>4, <2>1, ApartStep, ProcFacts DEF InModify
  <2>5. NoneLive(vms, b) /\ Tracks(vms, mem[p], n)
      BY <1>1, <2>1 DEF LocalAt, Bare, Blank
  <2>6. Calm(vms, n, vms, 0)
      BY <1>1, <2>5 DEF Calm, NoneLive
  <2>7. Tracks(vms, Put(mem[p], b, r), 0)
      BY <1>1, <1>3, <2>5, <2>6, PutBare
  <2>8. mem'[p] = Put(mem[p], b, r) /\ clo'[p].pid = 0 /\ pc'[p] \in {"pick", "save"}
      BY <1>1, <2>1, <2>3 DEF NoClosure
  <2>9. LocalAt(p)'
      BY <2>1, <2>2, <2>7, <2>8 DEF LocalAt, Bare, Modifying
  <2> QED  BY <2>1, <2>4, <2>6, <2>8, <2>9, ApartSeq
<1>8. ASSUME NEW byUser, NEW code, RunEnd(p, byUser, code)
      PROVE  SeqInv'
  <2>1. /\ mem' = mem /\ pc'[p] = "load" /\ pc'[Monitor] = pc[Monitor] /\ pc[p] = "attached"
        /\ cur'[p] \in {b, NoBox} /\ clo' = [clo EXCEPT ![p] = [f |-> "none", pid |-> q0, ok |-> byUser]]
        /\ vms' = [vms EXCEPT ![q0].state = "gone", ![q0].code = code]
        /\ \A x \in Procs \ {p} : pc'[x] \in {pc[x], "idle"}
      BY <1>1, <1>8, ProcFacts DEF RunEnd, Mine
  <2>2. cur'[p] = b
      BY <1>1, <1>8, <2>1 DEF RunEnd
  <2>3. clo'[p].pid = q0 /\ \A x \in Procs \ {p} : clo'[x] = clo[x]
      BY <1>1, <2>1
  <2>4. Apart
      BY <1>1, <1>4, <2>1, <2>3, ApartStep, ProcFacts DEF InModify
  <2>5. Tracks(vms, mem[p], 0) /\ n = 0
      BY <1>1, <2>1 DEF LocalAt, Blank
  <2>6. q0 \in Pids
    <3>1. q0 # 0 /\ Snap(vms, mem[p])
        BY <1>1, <2>1 DEF Inv, Side, LocalOK, AttachedAt, Copies
    <3> QED  BY <1>3, <3>1 DEF Snap, GoodSnapshot, GoodRecord
  <2>7. \A q \in Pids : /\ q # q0 => vms'[q] = vms[q]
                        /\ q = q0 => vms'[q].state = "gone"
      BY <1>1, <2>1 DEF Vm
  <2>8. Calm(vms, 0, vms', q0)
      BY <2>7, PidFacts DEF Calm, Live
  <2>9. NoneLive(vms', b)
      BY <2>5, <2>7, PidFacts DEF NoneLive, Live, Tracks
  <2>10. LocalAt(p)'
      BY <2>1, <2>2, <2>3, <2>9 DEF LocalAt, NoneLive, Modifying
  <2> QED  BY <2>1, <2>3, <2>4, <2>5, <2>8, <2>10, ApartSeq
<1>9. CASE CreateRollback(p)
  <2>1. /\ vms' = vms /\ cur' = cur /\ clo' = clo /\ mem' = mem /\ pc[p] = "pick" /\ op[p] = "create"
        /\ pc' = [pc EXCEPT ![p] = "load"]
      BY <1>9 DEF CreateRollback, Goto
  <2>2. Apart
      BY <1>1, <1>4, <2>1, ApartStep, ProcFacts DEF InModify
  <2>3. LocalAt(p)'
      BY <1>1, <2>1 DEF LocalAt, Bare, Modifying
  <2> QED  BY <2>1, <2>2, <2>3, SameCalm, ApartSeq
<1>10. CASE rollback_booted_setup(p)
  <2>1. /\ cur' = cur /\ clo' = clo /\ mem' = mem /\ pc[p] \in {"pick", "attach"} /\ n = 0 /\ q0 # 0
        /\ vms' = [vms EXCEPT ![q0].state = "gone"]
        /\ pc' = [pc EXCEPT ![p] = "pick"]
      BY <1>1, <1>10 DEF rollback_booted_setup, Goto, SetVm, NoClosure
  <2>2. Apart
      BY <1>1, <1>4, <2>1, ApartStep, ProcFacts DEF InModify
  <2>3. Calm(vms, 0, vms', 0)
      BY <1>1, <2>1, SignalCalm
  <2>4. mem[p] # Empty
      BY <1>3, <2>1, NoCount
  <2>5. Tracks(vms, mem[p], 0)
      BY <1>1, <2>1, <2>4 DEF LocalAt, Blank
  <2>6. NoneLive(vms', b)
    <3>1. \A q \in Pids : q = q0 => ~Live(vms', q)
        BY <1>1, <2>1 DEF Live, Vm
    <3> QED  BY <2>3, <2>5, <3>1, BareBox
  <2>7. Tracks(vms', mem'[p], 0)
      BY <2>1, <2>3, <2>5, CalmTracks
  <2>8. LocalAt(p)'
      BY <1>1, <2>1, <2>6, <2>7 DEF LocalAt, Modifying
  <2> QED  BY <2>1, <2>2, <2>3, <2>8, ApartSeq
<1>11. CASE cleanup_partial_box_record(p)
  <2>1. /\ vms' = vms /\ cur' = cur /\ clo' = clo /\ pc[p] = "pick" /\ op[p] = "rollback"
        /\ \E l \in {"pick", "save"} : pc' = [pc EXCEPT ![p] = l]
        /\ mem' = [mem EXCEPT ![p] = Put(@, b, NoRecord)]
      BY <1>11 DEF cleanup_partial_box_record, Goto, SetMem
  <2>2. op'[p] = "end"
      BY <1>1, <1>11 DEF cleanup_partial_box_record, Inv, RestOK
  <2>3. Apart
      BY <1>1, <1>4, <2>1, ApartStep, ProcFacts DEF InModify
  <2>4. NoneLive(vms, b) /\ Tracks(vms, mem[p], n)
      BY <1>1, <2>1 DEF LocalAt, Bare, Blank
  <2>5. Tracks(vms, Put(mem[p], b, NoRecord), n)
      BY <1>1, <1>3, <2>4, SameCalm, PutBare
  <2>6. mem'[p] = Put(mem[p], b, NoRecord) /\ pc'[p] \in {"pick", "save"}
      BY <1>1, <2>1
  <2>7. LocalAt(p)'
      BY <1>1, <2>1, <2>2, <2>5, <2>6 DEF LocalAt, Bare, Modifying
  <2> QED  BY <2>1, <2>3, <2>6, <2>7, SameCalm, ApartSeq
<1> QED  BY <1>5, <1>6, <1>7, <1>8, <1>9, <1>10, <1>11

\* A command is issued: a new box has no VM.
LEMMA InvokeSeq ==
    ASSUME Inv, SeqInv, Known', OneCommand, NEW p \in Cli,
           \/ \E b \in Boxes : InvokeCreate(p, b)
           \/ \E b \in Boxes, o \in {"run", "runfg"} : InvokeRun(p, o, b)
           \/ \E o \in Ops : Invoke(p, o)
    PROVE  SeqInv'
<1>1. /\ p \in Procs /\ p # Monitor /\ pc \in [Procs -> PC] /\ cur \in [Procs -> Boxes \cup {NoBox}]
      /\ clo \in [Procs -> Closure] /\ op \in [Procs -> AllOps \cup {"none", "rollback", "fgend", "end"}]
      /\ LocalAt(p) /\ pc[p] = "idle" /\ clo[p].pid = 0
    BY SeqFacts DEF InvokeCreate, InvokeRun, Invoke, Issue, Inv, RestOK
<1>2. /\ file' = file /\ buf' = buf /\ mem' = mem /\ vms' = vms
    BY DEF InvokeCreate, InvokeRun, Invoke
<1>3. mem[p] = Empty
    BY <1>1 DEF LocalAt
<1>4. \A b \in Boxes \ used : NoneLive(vms, b)
    BY DEF SeqInv, Known, NoneLive, Live
<1>5. ASSUME NEW b \in Boxes, InvokeCreate(p, b)
      PROVE  SeqInv'
  <2>1. /\ pc' = [pc EXCEPT ![p] = "lock"] /\ cur'[p] = b /\ op'[p] = "create" /\ b \notin used
        /\ clo' = [clo EXCEPT ![p].f = "add"]
      BY <1>1, <1>5 DEF InvokeCreate, Issue
  <2>2. clo'[p].pid = 0 /\ clo'[p].f = "add" /\ \A x \in Procs \ {p} : clo'[x] = clo[x]
      BY <1>1, <2>1 DEF Closure
  <2>3. Apart
      BY <1>1, <1>2, <2>1, <2>2, ApartStep, ProcFacts DEF InModify
  <2>4. LocalAt(p)'
      BY <1>1, <1>2, <1>3, <1>4, <2>1, <2>2 DEF LocalAt, Blank
  <2> QED  BY <1>1, <1>2, <2>2, <2>3, <2>4, SameCalm, ApartSeq
<1>6. ASSUME NEW b \in Boxes, NEW o \in {"run", "runfg"}, InvokeRun(p, o, b)
      PROVE  SeqInv'
  <2>1. /\ pc' = [pc EXCEPT ![p] = "boot"] /\ cur'[p] = b /\ op'[p] = o /\ b \notin used /\ clo' = clo
      BY <1>1, <1>6 DEF InvokeRun, Issue
  <2>2. Apart
      BY <1>1, <1>2, <2>1, ApartStep, ProcFacts DEF InModify
  <2>3. LocalAt(p)'
      BY <1>1, <1>2, <1>3, <1>4, <2>1 DEF LocalAt, Blank, Modifying
  <2> QED  BY <1>1, <1>2, <2>1, <2>2, <2>3, SameCalm, ApartSeq
<1>7. ASSUME NEW o \in Ops, Invoke(p, o)
      PROVE  SeqInv'
  <2>1. /\ pc' = [pc EXCEPT ![p] = "load"] /\ op'[p] = o /\ clo' = clo /\ o \notin {"create", "rollback", "fgend"}
      BY <1>1, <1>7, StateAssumption DEF Invoke, Issue, AllOps
  <2>2. Apart
      BY <1>1, <1>2, <2>1, ApartStep, ProcFacts DEF InModify
  <2>3. LocalAt(p)'
      BY <1>1, <1>2, <2>1 DEF LocalAt, Bare, Modifying
  <2> QED  BY <1>1, <1>2, <2>1, <2>2, <2>3, SameCalm, ApartSeq
<1> QED  BY <1>5, <1>6, <1>7

\* A command ends.
LEMMA FinishSeq ==
    ASSUME Inv, SeqInv, Known', OneCommand, NEW p \in Cli, Finish(p)
    PROVE  SeqInv'
<1>1. /\ p \in Procs /\ p # Monitor /\ Monitor \in Procs /\ Monitor \notin Mine(p) /\ p \in Mine(p)
      /\ clo[p].pid = 0 /\ pc[p] = "pick"
    BY ProcFacts DEF Finish, Mine, NoClosure
<1>2. /\ file' = file /\ vms' = vms /\ pc'[p] = "idle" /\ op'[p] = "none" /\ mem'[p] = Empty /\ clo'[p] = NoClosure
      /\ cur'[p] = NoBox
    BY <1>1 DEF Finish, Exit
<1>3. Apart
    BY <1>1, ProcFacts DEF Finish, Exit, Apart, InModify, NoClosure
<1>4. LocalAt(p)'
    BY <1>2 DEF LocalAt, Bare, Modifying, NoClosure
<1>5. Calm(vms, clo[p].pid, vms', clo'[p].pid)
    BY <1>1, <1>2, SameCalm DEF NoClosure
<1> QED  BY <1>1, <1>3, <1>4, <1>5, ApartSeq

-----------------------------------------------------------------------------
(* load, save and modify, by the command and by the checkers beside it.    *)

\* What modify reads is tracked, and what it writes back.
LEMMA StoredModify ==
    ASSUME Inv, SeqInv, NEW p \in Cli, StoredAt(p), NEW x \in Procs,
           \/ ModifyLoad(x) \/ ModifyReconcileWrite(x)
           \/ ModifyWrite(x) /\ Tracks(vms, file', clo[p].pid)
    PROVE  /\ vms' = vms
           /\ Tracks(vms, file', clo[p].pid)
           /\ \A y \in Procs : InModify(y)' => Tracks(vms, buf'[y], clo[p].pid)
<1>1. /\ buf \in [Procs -> Snapshot] /\ pc \in [Procs -> PC] /\ file \in Snapshot
      /\ \A q \in Pids : Live(vms, q) => vms[q].box \in Boxes
    BY SeqFacts
<1>2. Tracks(vms, reconcile(file), clo[p].pid)
    BY <1>1, ReconcileTracks DEF StoredAt
<1>3. CASE ModifyLoad(x)
    BY <1>1, <1>2, <1>3 DEF ModifyLoad, StoredAt, InModify
<1>4. CASE ModifyReconcileWrite(x)
    BY <1>1, <1>4 DEF ModifyReconcileWrite, StoredAt, InModify
<1>5. CASE ModifyWrite(x) /\ Tracks(vms, file', clo[p].pid)
  <2>1. ~InModify(x)'
      BY <1>1, <1>5 DEF ModifyWrite, AfterModify, InModify
  <2>2. \A y \in Procs \ {x} : buf'[y] = buf[y] /\ (InModify(y)' => InModify(y))
      BY <1>1, <1>5 DEF ModifyWrite, InModify
  <2> QED  BY <1>5, <2>1, <2>2 DEF ModifyWrite, StoredAt
<1> QED  BY <1>3, <1>4, <1>5

\* A health checker, whose verdicts change neither process id nor status.
LEMMA CheckerSeq ==
    ASSUME Inv, SeqInv, Known', NEW c \in Checkers, CheckerStep(c)
    PROVE  SeqInv'
<1>1. /\ c \in Procs /\ c # Monitor /\ c \notin Cli /\ pc \in [Procs -> PC] /\ clo \in [Procs -> Closure]
      /\ cur \in [Procs -> Boxes \cup {NoBox}]
    BY ProcFacts DEF Inv, RestOK
<1>2. /\ vms' = vms /\ mem' = mem /\ op' = op
      /\ \A x \in Procs \ {c} : pc'[x] = pc[x] /\ clo'[x] = clo[x] /\ cur'[x] = cur[x]
      /\ clo'[c].f \in {clo[c].f, "none", "probe"}
    BY <1>1 DEF CheckerStep, ModifyLoad, ModifyReconcileWrite, ModifyWrite, CheckerQuit, CheckerProbe, Goto,
       shared, NoClosure
<1>3. Quietly'
    BY <1>1, <1>2, ProcFacts DEF SeqInv, Quietly
<1>4. ASSUME NEW p \in Cli
      PROVE  LocalAt(p)' /\ (pc'[p] # "save" => StoredAt(p)')
  <2>1. p \in Procs \ {c} /\ LocalAt(p)
      BY <1>1, ProcFacts DEF SeqInv
  <2>2. LocalAt(p)'
      BY <1>2, <2>1 DEF LocalAt, Bare, Blank, Modifying
  <2>3. ASSUME pc[p] # "save"
        PROVE  StoredAt(p)'
    <3>1. StoredAt(p)
        BY <2>3 DEF SeqInv
    <3>2. CASE CheckerQuit(c) \/ \E ok \in BOOLEAN : CheckerProbe(c, ok)
      <4>1. file' = file /\ buf' = buf /\ ~InModify(c)'
          BY <1>1, <3>2 DEF CheckerQuit, CheckerProbe, Goto, shared, InModify
      <4> QED  BY <1>2, <2>1, <3>1, <4>1 DEF StoredAt, InModify
    <3>3. ASSUME ModifyWrite(c)
          PROVE  Tracks(vms, file', clo[p].pid)
      <4> DEFINE b == cur[c]
                 r == buf[c][b]
                 n == ApplyClosure(clo[c], b, r)
      <4>1. /\ b \in Boxes /\ buf[c] \in Snapshot /\ r \in Record /\ clo[c].f \in {"none", "probe"}
            /\ file' = Put(buf[c], b, n) /\ Tracks(vms, buf[c], clo[p].pid)
            /\ \A q \in Pids : Live(vms, q) => vms[q].box \in Boxes
        <5>1. b \in Boxes /\ clo[c].f \in {"none", "probe"}
            BY <1>1, <3>3 DEF ModifyWrite, Inv, Side, LocalOK, HasBoxAt, Modifying, SeqInv, Quietly
        <5>2. buf[c] \in Snapshot
            BY <1>1 DEF Inv, Copies
        <5>3. file' = Put(buf[c], b, n) /\ Tracks(vms, buf[c], clo[p].pid)
            BY <1>1, <3>1, <3>3 DEF ModifyWrite, StoredAt, InModify
        <5> QED  BY <5>1, <5>2, <5>3, SeqFacts DEF Snapshot
      <4>2. n.pid = r.pid /\ n.status = r.status
          BY <4>1, ProbeKeeps DEF ApplyClosure
      <4> HIDE DEF n
      <4>3. CalmBeside(vms, clo[p].pid, vms, clo[p].pid, b)
          BY DEF CalmBeside
      <4>4. \A q \in Pids : Live(vms, q) /\ q # clo[p].pid /\ vms[q].box = b => Named(vms, q, n)
          BY <4>1, <4>2 DEF Tracks, Named
      <4> QED  BY <4>1, <4>3, <4>4, PutTracks
    <3>4. CASE ModifyLoad(c) \/ ModifyReconcileWrite(c) \/ ModifyWrite(c)
        BY <1>1, <1>2, <2>1, <3>1, <3>3, <3>4, StoredModify DEF StoredAt
    <3> QED  BY <3>2, <3>4 DEF CheckerStep
  <2> QED  BY <1>2, <2>1, <2>2, <2>3
<1> QED  BY <1>3, <1>4 DEF SeqInv

\* The command's own accesses to boxes.json.
LEMMA FileSeq ==
    ASSUME Inv, SeqInv, Known', OneCommand, NEW p \in Cli, StateFileStep(p)
    PROVE  SeqInv'
<1> DEFINE n == clo[p].pid
<1>1. /\ p \in Procs /\ p # Monitor /\ p \notin Checkers /\ pc \in [Procs -> PC] /\ clo \in [Procs -> Closure]
      /\ mem \in [Procs -> Snapshot] /\ buf \in [Procs -> Snapshot] /\ file \in Snapshot
      /\ cur \in [Procs -> Boxes \cup {NoBox}]
      /\ \A q \in Pids : Live(vms, q) => vms[q].box \in Boxes
      /\ n # 0 => op[p] \in {"run", "runfg", "fgend"} /\ pc[p] \in {"load", "rwrite", "pick"}
      /\ LocalAt(p) /\ (pc[p] # "save" => StoredAt(p))
      /\ \A b \in Boxes : GoodRecord(vms, b, mem[p][b])
    BY SeqFacts
<1>2. /\ vms' = vms /\ op' = op
      /\ \A x \in Procs \ {p} : pc'[x] = pc[x] /\ clo'[x] = clo[x] /\ buf'[x] = buf[x]
    BY <1>1 DEF StateFileStep, Load, ReconcileWrite, save, ModifyLoad, ModifyReconcileWrite, ModifyWrite, shared
<1>3. Quietly'
    BY <1>1, <1>2, ProcFacts DEF SeqInv, Quietly
<1>4. SUFFICES LocalAt(p)' /\ StoredAt(p)'
  <2>1. \A x \in Cli : x = p
      BY DEF OneCommand
  <2> QED  BY <1>3, <2>1 DEF SeqInv
<1>5. CASE Load(p)
  <2>1. /\ mem' = [mem EXCEPT ![p] = reconcile(file)] /\ pc'[p] \in {"rwrite", "pick"} /\ pc[p] = "load"
        /\ clo' = clo /\ cur' = cur /\ file' = file /\ buf' = buf
      BY <1>1, <1>5 DEF Load, shared
  <2>2. Tracks(vms, reconcile(file), n)
      BY <1>1, <2>1, ReconcileTracks DEF StoredAt
  <2>3. LocalAt(p)'
      BY <1>1, <1>2, <2>1, <2>2 DEF LocalAt, Bare, Modifying
  <2>4. StoredAt(p)'
      BY <1>1, <1>2, <2>1 DEF StoredAt, InModify
  <2> QED  BY <2>3, <2>4
<1>6. CASE ReconcileWrite(p)
  <2>1. /\ mem' = mem /\ pc'[p] = "pick" /\ pc[p] = "rwrite"
        /\ clo' = clo /\ cur' = cur /\ file' = mem[p] /\ buf' = buf
      BY <1>1, <1>6 DEF ReconcileWrite
  <2>2. Tracks(vms, mem[p], n)
      BY <1>1, <2>1 DEF LocalAt, Blank
  <2>3. LocalAt(p)'
      BY <1>1, <1>2, <2>1, <2>2 DEF LocalAt, Bare, Modifying
  <2>4. StoredAt(p)'
      BY <1>1, <1>2, <2>1, <2>2 DEF StoredAt, InModify
  <2> QED  BY <2>3, <2>4
<1>7. CASE save(p)
  <2>1. /\ mem' = mem /\ pc'[p] \in {"boot", "attach", "pick"} /\ pc[p] = "save"
        /\ clo' = clo /\ cur' = cur /\ file' = mem[p] /\ buf' = buf
        /\ pc'[p] = "boot" => mem[p][cur[p]].status = "stopped"
        /\ lock = NoProc
      BY <1>1, <1>7 DEF save
  <2>2. Tracks(vms, mem[p], n) /\ n = 0
      BY <1>1, <2>1 DEF LocalAt, Blank
  <2>3. cur[p] \in Boxes
      BY <1>1, <2>1 DEF Inv, Side, LocalOK, HasBoxAt
  <2>4. mem[p][cur[p]].status = "stopped" => NoneLive(vms, cur[p])
    <3>1. mem[p][cur[p]].status = "stopped" => mem[p][cur[p]].pid = 0
        BY <1>1, <2>3 DEF GoodRecord, is_active
    <3> QED  BY <2>2, <3>1, PidFacts DEF NoneLive, Tracks
  <2>5. LocalAt(p)'
      BY <1>1, <1>2, <2>1, <2>2, <2>4 DEF LocalAt, Bare, Modifying
  <2>6. \A x \in Procs : ~InModify(x)'
    <3>1. \A x \in Procs : ~InModify(x)
        BY <2>1, StateAssumption DEF Inv, LockHeldInModify, InModify
    <3> QED  BY <1>2, <2>1, <3>1 DEF InModify
  <2>7. StoredAt(p)'
      BY <1>2, <2>1, <2>2, <2>6 DEF StoredAt
  <2> QED  BY <2>5, <2>7
<1>8. CASE ModifyLoad(p) \/ ModifyReconcileWrite(p)
  <2>1. /\ mem' = mem /\ pc'[p] \in {"mrwrite", "mwrite"} /\ pc[p] \in {"lock", "mrwrite"}
        /\ clo' = clo /\ cur' = cur
      BY <1>1, <1>8 DEF ModifyLoad, ModifyReconcileWrite
  <2>2. StoredAt(p)'
      BY <1>1, <1>2, <1>8, <2>1, StoredModify DEF StoredAt
  <2>3. LocalAt(p)'
      BY <1>1, <1>2, <2>1 DEF LocalAt, Bare, Blank, Modifying
  <2> QED  BY <2>2, <2>3
<1>9. CASE ModifyWrite(p)
  <2> DEFINE r == ApplyClosure(clo[p], cur[p], buf[p][cur[p]])
  <2>1. /\ mem' = mem /\ pc'[p] = "pick" /\ pc[p] = "mwrite" /\ clo'[p] = NoClosure /\ cur'[p] = cur[p]
        /\ file' = Put(buf[p], cur[p], r)
      BY <1>1, <1>9 DEF ModifyWrite, AfterModify
  <2>2. cur[p] \in Boxes /\ n = 0 /\ NoneLive(vms, cur[p]) /\ Tracks(vms, buf[p], 0) /\ StoredAt(p)
      BY <1>1, <2>1 DEF Inv, Side, LocalOK, HasBoxAt, Modifying, LocalAt, Bare, StoredAt, InModify
  <2> HIDE DEF r
  <2>3. Tracks(vms, file', 0)
      BY <1>1, <2>1, <2>2, SameCalm, PutBare
  <2>4. StoredAt(p)'
      BY <1>1, <1>2, <1>9, <2>1, <2>2, <2>3, StoredModify DEF StoredAt, NoClosure
  <2>5. LocalAt(p)'
      BY <1>1, <1>2, <2>1, <2>2 DEF LocalAt, Bare, Blank, Modifying, NoClosure
  <2> QED  BY <2>4, <2>5
<1> QED  BY <1>5, <1>6, <1>7, <1>8, <1>9 DEF StateFileStep

-----------------------------------------------------------------------------
(* The invariant and what it says between commands.                        *)

\* VMs end by themselves, or nothing happens.
LEMMA VmSeq ==
    ASSUME Inv, SeqInv, UNCHANGED vars \/ \E q \in Pids : VmCrash(q) \/ \E code \in GuestCode : VmExit(q, code)
    PROVE  SeqInv'
<1>1. /\ file' = file /\ buf' = buf /\ mem' = mem /\ pc' = pc /\ op' = op /\ cur' = cur /\ clo' = clo /\ used' = used
    BY DEF VmCrash, VmExit, vars, local, shared
<1>2. \A q \in Pids : \/ vms'[q] = vms[q]
                      \/ vms'[q].state = "gone" /\ vms'[q].box = vms[q].box /\ vms[q].state # "free"
  <2>1. ASSUME NEW q \in Pids, VmCrash(q) \/ \E code \in GuestCode : VmExit(q, code)
        PROVE  /\ \A x \in Pids \ {q} : vms'[x] = vms[x]
               /\ vms'[q].state = "gone" /\ vms'[q].box = vms[q].box /\ vms[q].state # "free"
      BY <2>1 DEF VmCrash, VmExit, SetVm, Inv, RestOK, Vm
  <2>2. CASE UNCHANGED vars
      BY <2>2 DEF vars
  <2>3. ASSUME NEW q \in Pids, VmCrash(q) \/ \E code \in GuestCode : VmExit(q, code), NEW x \in Pids
        PROVE  \/ vms'[x] = vms[x]
               \/ vms'[x].state = "gone" /\ vms'[x].box = vms[x].box /\ vms[x].state # "free"
      BY <2>1, <2>3
  <2> QED  BY <2>2, <2>3
<1>3. Known'
    BY <1>1, <1>2 DEF SeqInv, Known, Seen, Present
<1>4. ASSUME NEW p \in Cli
      PROVE  LocalAt(p)' /\ (pc'[p] # "save" => StoredAt(p)')
  <2>1. LocalAt(p) /\ (pc[p] # "save" => StoredAt(p))
      BY DEF SeqInv
  <2>2. Calm(vms, clo[p].pid, vms', clo[p].pid)
      BY <1>2 DEF Calm, Live
  <2>3. \A s : Tracks(vms, s, clo[p].pid) => Tracks(vms', s, clo[p].pid)
      BY <2>2, CalmTracks
  <2>4. \A b : NoneLive(vms, b) => NoneLive(vms', b)
      BY <1>2 DEF NoneLive, Live
  <2>5. \A q \in Pids : Live(vms', q) => vms'[q] = vms[q]
      BY <1>2 DEF Live
  <2>6. clo[p].pid # 0 =>
          \A q \in Pids : Live(vms', q) /\ vms'[q].box = cur[p] => q = clo[p].pid /\ vms'[q].state = "up"
      BY <2>1, <2>5 DEF LocalAt, Live
  <2>7. LocalAt(p)'
      BY <1>1, <2>1, <2>3, <2>4, <2>6 DEF LocalAt, Bare, Blank, Modifying
  <2>8. pc'[p] # "save" => StoredAt(p)'
      BY <1>1, <2>1, <2>3 DEF StoredAt, InModify
  <2> QED  BY <2>7, <2>8
<1> QED  BY <1>1, <1>3, <1>4 DEF SeqInv, Quietly

\* The monitor does not run.
LEMMA NoMonitor ==
    ASSUME Inv, Quietly, ~MonitorRuns
    PROVE  ~MonitorStep
<1>1. pc[Monitor] = "idle"
    BY DEF Quietly
<1> QED  BY <1>1 DEF MonitorStep, StateFileStep, Load, ReconcileWrite, save, ModifyLoad, ModifyReconcileWrite,
            ModifyWrite, StopStep, StopAlreadyExited, StopSignal, StopExited, StopTimeout, BootFail, BootMonitor,
            MonitorPoll, MonitorDue, MonitorCandidates, MonitorSleep, MonitorBackOff, MonitorRestart, MonitorTake,
            MonitorProbe

\* Nothing runs at the start.
LEMMA InitSeq == Init => SeqInv
<1> SUFFICES ASSUME Init
             PROVE  SeqInv
    OBVIOUS
<1>1. \A q \in Pids : vms[q].state = "free"
    BY DEF Init
<1>2. \A s, n : Tracks(vms, s, n)
    BY <1>1 DEF Tracks, Live
<1>3. \A b \in Boxes : ~Present(Empty, b) /\ (Present(file, b) => b \in Initial)
    BY NoCount DEF Init, Present
<1>4. \A x \in Procs : pc[x] = "idle" /\ op[x] = "none" /\ cur[x] = NoBox /\ mem[x] = Empty /\ buf[x] = Empty
                       /\ clo[x] = NoClosure
    BY DEF Init
<1>5. Known
    BY <1>1, <1>3, <1>4, ProcFacts DEF Init, Known, Seen
<1>6. Quietly
    BY <1>4, ProcFacts DEF Quietly, NoClosure
<1>7. ASSUME NEW p \in Cli
      PROVE  LocalAt(p) /\ StoredAt(p)
    BY <1>2, <1>4, ProcFacts DEF LocalAt, StoredAt, Bare, Modifying, NoClosure
<1> QED  BY <1>5, <1>6, <1>7 DEF SeqInv

\* Every step of sequential use keeps the VMs tracked.
LEMMA NextSeq ==
    ASSUME SequentialUse
    PROVE  Inv /\ SeqInv /\ [Next]_vars => SeqInv'
<1> SUFFICES ASSUME Inv, SeqInv, [Next]_vars
             PROVE  SeqInv'
    OBVIOUS
<1>0. Inv' /\ Known /\ Quietly /\ OneCommand
    BY NextInv DEF SeqInv, SequentialUse
<1>1. ASSUME NEW p \in Cli, CliStep(p)
      PROVE  SeqInv'
  <2>1. Known'
      BY <1>0, <1>1, FileKnown, OneBoxKnown, BoxStepKnown, CommandKnown DEF CliStep, Finish
  <2> QED  BY <1>0, <1>1, <2>1, FileSeq, StopSeq, BootSeq, BoxStepSeq, RunSeq, FinishSeq DEF CliStep
<1>2. ASSUME NEW c \in Checkers, CheckerStep(c)
      PROVE  SeqInv'
  <2>1. CASE StateFileStep(c)
      BY <1>0, <1>2, <2>1, FileKnown, CheckerSeq
  <2>2. CASE CheckerQuit(c) \/ \E ok \in BOOLEAN : CheckerProbe(c, ok)
    <3>1. /\ file' = file /\ vms' = vms /\ used' = used /\ mem' = mem /\ buf' = buf
          /\ \A p \in Cli : cur'[p] = cur[p]
        BY <2>2, ProcFacts DEF CheckerQuit, CheckerProbe, shared, Inv, RestOK
    <3>2. Known'
        BY <1>0, <3>1 DEF Known, Seen
    <3> QED  BY <1>2, <3>2, CheckerSeq
  <2> QED  BY <1>2, <2>1, <2>2 DEF CheckerStep, StateFileStep
<1>3. CASE UNCHANGED vars \/ \E q \in Pids : VmCrash(q) \/ \E code \in GuestCode : VmExit(q, code)
    BY <1>3, VmSeq
<1>4. ASSUME NEW p \in Cli,
             \/ \E b \in Boxes : InvokeCreate(p, b)
             \/ \E b \in Boxes, o \in {"run", "runfg"} : InvokeRun(p, o, b)
             \/ \E o \in Ops : Invoke(p, o)
             \/ \E byUser \in BOOLEAN, code \in ExitCode : RunEnd(p, byUser, code)
      PROVE  SeqInv'
  <2>1. Known'
      BY <1>0, <1>4, OneBoxKnown, CommandKnown
  <2> QED  BY <1>0, <1>4, <2>1, InvokeSeq, RunSeq
<1>5. CASE Environment
    BY <1>3, <1>4, <1>5 DEF Environment, Crash, SequentialUse
<1>6. ~MonitorStep
    BY <1>0, NoMonitor DEF SequentialUse
<1> QED  BY <1>1, <1>2, <1>3, <1>5, <1>6 DEF Next

\* Between two commands, what the file says of the VMs.
LEMMA SeqQuiet ==
    ASSUME SequentialUse
    PROVE  Inv /\ SeqInv => VmsTracked /\ FrozenIsPaused
<1> SUFFICES ASSUME Inv, SeqInv, Quiet
             PROVE  Tracks(vms, file, 0)
    BY PidFacts DEF VmsTracked, FrozenIsPaused, Tracks, Live
<1>1. PICK p \in Cli : TRUE
    BY DEF SequentialUse
<1>2. pc[p] \in {"idle", "attached"}
    BY DEF Quiet
<1>3. StoredAt(p) /\ clo[p].pid = 0
    BY <1>2, SeqFacts
<1> QED  BY <1>3 DEF StoredAt

\* Commands that run one after another, with their health checkers beside them, never
\* orphan a VM and never boot a box twice: between two of them, and while a foreground
\* `run` is attached, each VM nobody told to stop is the recorded process of its box
\* (boot_from_record, graceful_stop, rm_one, the rollbacks of run and create).
THEOREM NoOrphans ==
    ASSUME SequentialUse
    PROVE  Spec => []VmsTracked
<1>1. Inv /\ SeqInv /\ [Next]_vars => SeqInv'
    BY NextSeq
<1>2. Inv /\ SeqInv => VmsTracked
    BY SeqQuiet
<1> QED  BY Invariance, InitSeq, <1>1, <1>2, PTL DEF Spec

\* Nor do they leave a VM frozen under a record that is not paused, whatever mixture
\* of pause, unpause, kill -STOP, kill -CONT, stop and rm is issued
\* (signal_status_transition, resume_paused_for_termination).
THEOREM NoFrozenOrphan ==
    ASSUME SequentialUse
    PROVE  Spec => []FrozenIsPaused
<1>1. Inv /\ SeqInv /\ [Next]_vars => SeqInv'
    BY NextSeq
<1>2. Inv /\ SeqInv => FrozenIsPaused
    BY SeqQuiet
<1> QED  BY Invariance, InitSeq, <1>1, <1>2, PTL DEF Spec
=============================================================================
