------------------------------- MODULE WarmPool ------------------------------
(***************************************************************************)
(* The pool of pre-booted microVMs and the VmManager of each VM in it: the *)
(* fill at start with its rollback, acquire and release by concurrent      *)
(* clients, the maintenance loop (eviction, autoscaling, replenishment)    *)
(* and drain.                                                              *)
(*                                                                         *)
(* The tasks interleave wherever the code awaits: the idle list is locked  *)
(* for a pop, a push or a count, and never across a boot or (except in     *)
(* drain) a destroy.  acquire and release borrow the pool and drain borrows*)
(* it exclusively (CRI keeps it in an RwLock), so drain starts when no     *)
(* acquire or release is under way and holds later ones off.               *)
(*                                                                         *)
(* A box id is a fresh UUID: an id here is used again only when nothing is *)
(* left of the VM that had it.  Statistics, metrics and events are output  *)
(* only and left out.                                                      *)
(***************************************************************************)
EXTENDS Naturals, Sequences, FiniteSets

CONSTANTS
    Clients,      \* the tasks that acquire and release
    Main,         \* the task that starts and drains the pool
    Loop,         \* the maintenance loop
    N,            \* how many ids there are for VMs
    MaxSize,      \* PoolConfig.max_size
    MinIdle,      \* PoolConfig.min_idle
    MaxMinIdle,   \* ScalingPolicy.max_min_idle, 0 for no limit of its own
    MaxAcquires,  \* bound on the number of acquires
    MaxFaults,    \* bound on failed boots, failed stops and VM deaths
    MaxDrains     \* bound on the number of drains

Tasks == Clients \cup {Main, Loop}
VMs   == 1 .. N
NoVm  == 0

ASSUME PoolAssumption ==
    /\ Main # Loop /\ Main \notin Clients /\ Loop \notin Clients
    /\ \A n \in {N, MaxSize, MinIdle, MaxMinIdle, MaxAcquires,
                 MaxFaults, MaxDrains} : n \in Nat
    \* WarmPool::start and `pool start` refuse any other configuration.
    /\ MaxSize > 0 /\ MinIdle <= MaxSize

VARIABLES
    vm,       \* the VmManager of each VM and what it owns on the host
    idle,     \* WarmPool.idle, the oldest entry first
    task,     \* where each task is, and the VM in its hands
    hand,     \* the expired VMs the loop has taken off the list to destroy
    need,     \* the boots left in the current fill or replenish round
    added,    \* added_ids of fill_to_min
    shutdown, \* the value in the shutdown watch channel
    eff,      \* the scaler's current_min_idle and the loop's effective_min_idle
    count     \* acquires, faults and drains so far

vars == <<vm, idle, task, hand, need, added, shutdown, eff, count>>

-----------------------------------------------------------------------------
(* VmManager                                                               *)

\* A VM: its state, whether a handler is held, whether the shim process runs,
\* and whether the host still has its box directory, sockets and network.
Vm == [state : {"none", "Created", "Ready", "Stopped"},
       handler : BOOLEAN, up : BOOLEAN, dir : BOOLEAN]

NoManager == [state |-> "none", handler |-> FALSE, up |-> FALSE, dir |-> FALSE]

\* VmManager::new and boot up to provider.start: the layout on the host, and the
\* shim process with its handler.
boot_start ==
    [state |-> "Created", handler |-> TRUE, up |-> TRUE, dir |-> TRUE]

\* The guest answered.
boot_ready(m) == [m EXCEPT !.state = "Ready"]

\* Stop what runs (a handler that fails to stop is dropped all the same), then
\* remove what boot made on the host.  The manager stays Created.
cleanup_boot_failure(m, stopped) ==
    [m EXCEPT !.handler = FALSE, !.up = m.up /\ m.handler /\ ~stopped, !.dir = FALSE]

\* Mutant of destroy_with_options: the box directory is not removed.
destroy_keeps_dir(m, stopped) ==
    [state |-> "Stopped", handler |-> FALSE, up |-> m.up /\ m.handler /\ ~stopped,
     dir |-> m.dir]

\* Stopped before anything else; a failing handler.stop returns early, with the
\* handler taken and the directory still there.
destroy_with_options(m, stopped) ==
    IF m.state = "Stopped" THEN m
    ELSE LET failed == m.handler /\ ~stopped IN
         [state |-> "Stopped", handler |-> FALSE,
          up |-> m.up /\ failed, dir |-> m.dir /\ failed]

\* Nothing is left of the VM but its manager.
Gone(m) == ~m.up /\ ~m.dir

\* A task drops the manager of v: the id is free when nothing is left.
Drop(m) == IF Gone(m) THEN NoManager ELSE m

-----------------------------------------------------------------------------
(* PoolScaler                                                              *)

max_min_idle ==
    IF MaxMinIdle > 0 /\ MaxMinIdle < MaxSize THEN MaxMinIdle ELSE MaxSize

\* Mutant of scale_up: the bound is not applied.
scale_up_unbounded(cur) == cur + 1

scale_up(cur) == IF cur < max_min_idle THEN cur + 1 ELSE max_min_idle

scale_down(cur) == IF cur > 1 THEN cur - 1 ELSE 1

\* What evaluate may make of current_min_idle, by the pressure it sees: up only
\* if that raises it, down only if that lowers it, and no change in the cooldown
\* or with few events.  The miss rate over the sliding window is abstracted to
\* the choice.
evaluate(cur) ==
    {cur} \cup {n \in {scale_up(cur)} : n > cur} \cup {n \in {scale_down(cur)} : n < cur}

-----------------------------------------------------------------------------
(* The tasks                                                               *)

\* "out": no VM and no call under way (a client), not spawned yet (the loop).
TaskPc == {"out", "boot", "ready", "push", "have", "destroy",
           "fill", "rollback", "serve", "await", "drain", "drained",
           "wait", "evict", "scale", "count", "done"}

Task == [pc : TaskPc, vm : VMs \cup {NoVm}]

At(t, p)     == task[t].pc = p
Goto(t, p)   == task' = [task EXCEPT ![t].pc = p]
Move(t, p, v) == task' = [task EXCEPT ![t] = [pc |-> p, vm |-> v]]

Fault      == count' = [count EXCEPT !.faults = @ + 1]
MayFault   == count.faults < MaxFaults
Free       == {v \in VMs : vm[v] = NoManager}
FreshId    == CHOOSE v \in Free : \A w \in Free : v <= w

Init ==
    /\ vm = [v \in VMs |-> NoManager]
    /\ idle = <<>>
    /\ task = [t \in Tasks |-> [pc |-> IF t = Main THEN "fill" ELSE "out", vm |-> NoVm]]
    /\ hand = <<>> /\ added = {}
    /\ need = [t \in {Main, Loop} |-> IF t = Main THEN MinIdle ELSE 0]
    /\ shutdown = FALSE
    /\ eff = MinIdle
    /\ count = [acquires |-> 0, faults |-> 0, drains |-> 0]

\* After its boot or destroy, a task goes on where the code does.
AfterBoot(t)   == IF t \in Clients THEN "have" ELSE "push"
AfterFail(t)   == CASE t \in Clients -> "out" [] t = Main -> "rollback" [] t = Loop -> "wait"

\* boot_new_vm, and the boot of the loop: up to provider.start.
BootStart(t) ==
    /\ At(t, "boot") /\ Free # {}
    /\ vm' = [vm EXCEPT ![FreshId] = boot_start]
    /\ Move(t, "ready", FreshId)
    /\ UNCHANGED <<idle, hand, need, added, shutdown, eff, count>>

\* wait_for_vm_running and wait_for_exec_ready succeed.
BootReady(t) ==
    /\ At(t, "ready")
    /\ vm' = [vm EXCEPT ![task[t].vm] = boot_ready(@)]
    /\ Goto(t, AfterBoot(t))
    /\ UNCHANGED <<idle, hand, need, added, shutdown, eff, count>>

\* Any step of boot fails: cleanup_boot_failure, and the manager is dropped.
BootFail(t) ==
    /\ At(t, "ready") /\ MayFault /\ Fault
    /\ \E stopped \in BOOLEAN :
         vm' = [vm EXCEPT ![task[t].vm] = Drop(cleanup_boot_failure(@, stopped))]
    /\ Move(t, AfterFail(t), NoVm)
    /\ UNCHANGED <<idle, hand, need, added, shutdown, eff>>

\* VmManager::destroy of v, whose manager is dropped after it.
Destroy(v) ==
    \E stopped \in BOOLEAN :
      /\ stopped \/ MayFault
      /\ vm' = [vm EXCEPT ![v] = Drop(destroy_with_options(@, stopped))]
      /\ count' = [count EXCEPT !.faults = IF stopped THEN @ ELSE @ + 1]

-----------------------------------------------------------------------------
(* start, drain                                                            *)

\* fill_to_min: one more boot, or the fill is complete and the loop spawned.
FillNext ==
    /\ At(Main, "fill")
    /\ IF need[Main] > 0
       THEN /\ need' = [need EXCEPT ![Main] = @ - 1]
            /\ Goto(Main, "boot")
            /\ UNCHANGED added
       ELSE /\ need' = need /\ added' = {}
            /\ task' = [task EXCEPT ![Main].pc = "serve", ![Loop].pc = "wait"]
    /\ UNCHANGED <<vm, idle, hand, shutdown, eff, count>>

FillPush ==
    /\ At(Main, "push")
    /\ idle' = Append(idle, task[Main].vm)
    /\ added' = added \cup {task[Main].vm}
    /\ Move(Main, "fill", NoVm)
    /\ UNCHANGED <<vm, hand, need, shutdown, eff, count>>

\* remove_idle_vms, the indices of the VMs that this fill added.
rollback_ids(s, ids) == {i \in DOMAIN s : s[i] \in ids}

\* A boot of the fill failed: what it added is removed and destroyed, one VM at
\* a time, and the fill ends.
FillRollback ==
    /\ At(Main, "rollback")
    /\ LET is == rollback_ids(idle, added) IN
       IF is = {}
       THEN /\ Goto(Main, "fill")
            /\ need' = [need EXCEPT ![Main] = 0]
            /\ UNCHANGED <<vm, idle, added, count>>
       ELSE LET i == CHOOSE i \in is : \A j \in is : j <= i IN
            /\ idle' = SubSeq(idle, 1, i - 1) \o SubSeq(idle, i + 1, Len(idle))
            /\ Destroy(idle[i])
            /\ UNCHANGED <<task, need, added>>
    /\ UNCHANGED <<hand, shutdown, eff>>

\* signal_shutdown, which a caller of the pool may use before drain.
SignalShutdown ==
    /\ At(Main, "serve") /\ ~shutdown
    /\ shutdown' = TRUE
    /\ UNCHANGED <<vm, idle, task, hand, need, added, eff, count>>

\* drain takes the pool exclusively, signals and waits for the loop.
DrainStart ==
    /\ task[Main].pc \in {"serve", "drained"} /\ count.drains < MaxDrains
    /\ \A c \in Clients : task[c].pc \in {"out", "have"}
    /\ shutdown' = TRUE
    /\ Goto(Main, "await")
    /\ count' = [count EXCEPT !.drains = @ + 1]
    /\ UNCHANGED <<vm, idle, hand, need, added, eff>>

\* Mutant of drain_joined: drain does not wait for the loop.
drain_joined_never == TRUE

\* handle.await returned (the handle is taken: a second drain does not wait).
drain_joined == At(Loop, "done")

DrainJoined ==
    /\ At(Main, "await") /\ drain_joined
    /\ Goto(Main, "drain")
    /\ UNCHANGED <<vm, idle, hand, need, added, shutdown, eff, count>>

DrainOne ==
    /\ At(Main, "drain")
    /\ IF idle = <<>> THEN Goto(Main, "drained") /\ UNCHANGED <<vm, idle, count>>
       ELSE /\ Destroy(Head(idle))
            /\ idle' = Tail(idle)
            /\ UNCHANGED task
    /\ UNCHANGED <<hand, need, added, shutdown, eff>>

-----------------------------------------------------------------------------
(* acquire, release and what a client does with its VM                     *)

\* The pool exists and drain does not have it.
Open == task[Main].pc \in {"serve", "drained"}

pop(s) == SubSeq(s, 1, Len(s) - 1)

AcquireStart(c) ==
    /\ At(c, "out") /\ Open /\ count.acquires < MaxAcquires
    /\ count' = [count EXCEPT !.acquires = @ + 1]
    /\ IF idle # <<>>
       THEN LET v == idle[Len(idle)] IN
            /\ idle' = pop(idle)
            /\ Move(c, "have", v)
       ELSE Goto(c, "boot") /\ UNCHANGED idle
    /\ UNCHANGED <<vm, hand, need, added, shutdown, eff>>

at_capacity(s) == Len(s) >= MaxSize

Release(c) ==
    /\ At(c, "have") /\ Open
    /\ IF at_capacity(idle)
       THEN Goto(c, "destroy") /\ UNCHANGED idle
       ELSE Move(c, "out", NoVm) /\ idle' = Append(idle, task[c].vm)
    /\ UNCHANGED <<vm, hand, need, added, shutdown, eff, count>>

\* The pool is full, or the client is done with the VM and destroys it itself.
ReleaseDestroy(c) ==
    /\ At(c, "destroy") \/ At(c, "have")
    /\ Destroy(task[c].vm)
    /\ Move(c, "out", NoVm)
    /\ UNCHANGED <<idle, hand, need, added, shutdown, eff>>

-----------------------------------------------------------------------------
(* The maintenance loop                                                    *)

\* Mutant of shutdown_seen: the loop breaks when the channel closes only.
shutdown_seen_never(flag) == FALSE

\* The changed() arm of the select: the flag was sent, and it is true.
shutdown_seen(flag) == flag

\* Shutdown is noticed at the select only, between two rounds; a timer that is
\* due as well may win the select.
LoopShutdown ==
    /\ At(Loop, "wait") /\ shutdown_seen(shutdown)
    /\ Goto(Loop, "done")
    /\ UNCHANGED <<vm, idle, hand, need, added, shutdown, eff, count>>

\* evict_expired_static: the VMs past the TTL leave the list under the lock.  The
\* list is in the order of the pushes, which set created_at, so they are a prefix.
LoopTick ==
    /\ At(Loop, "wait")
    /\ \E k \in 0 .. Len(idle) :
         /\ hand' = SubSeq(idle, 1, k)
         /\ idle' = SubSeq(idle, k + 1, Len(idle))
    /\ Goto(Loop, "evict")
    /\ UNCHANGED <<vm, need, added, shutdown, eff, count>>

\* They are destroyed outside the lock.
LoopEvict ==
    /\ At(Loop, "evict")
    /\ IF hand = <<>> THEN Goto(Loop, "scale") /\ UNCHANGED <<vm, hand, count>>
       ELSE /\ Destroy(Head(hand))
            /\ hand' = Tail(hand)
            /\ UNCHANGED task
    /\ UNCHANGED <<idle, need, added, shutdown, eff>>

LoopScale ==
    /\ At(Loop, "scale")
    /\ eff' \in evaluate(eff)
    /\ Goto(Loop, "count")
    /\ UNCHANGED <<vm, idle, hand, need, added, shutdown, count>>

\* Mutants of needed: the idle VMs are not counted, or the count stops one
\* short.
needed_all(s, target) == target

needed_short(s, target) == IF Len(s) + 1 < target THEN target - Len(s) - 1 ELSE 0

needed(s, target) == IF Len(s) < target THEN target - Len(s) ELSE 0

\* The number missing is computed once for the round.
LoopCount ==
    /\ At(Loop, "count")
    /\ need' = [need EXCEPT ![Loop] = needed(idle, eff)]
    /\ Goto(Loop, IF needed(idle, eff) = 0 THEN "wait" ELSE "boot")
    /\ UNCHANGED <<vm, idle, hand, added, shutdown, eff, count>>

\* A replenished VM is pushed whatever the length of the list is by now.
LoopPush ==
    /\ At(Loop, "push")
    /\ idle' = Append(idle, task[Loop].vm)
    /\ need' = [need EXCEPT ![Loop] = @ - 1]
    /\ Move(Loop, IF need[Loop] = 1 THEN "wait" ELSE "boot", NoVm)
    /\ UNCHANGED <<vm, hand, added, shutdown, eff, count>>

-----------------------------------------------------------------------------
(* The environment                                                         *)

\* A shim process dies by itself; its manager is not told.
VmDies ==
    /\ MayFault /\ Fault
    /\ \E v \in VMs : vm[v].up /\ vm[v].handler /\ vm' = [vm EXCEPT ![v].up = FALSE]
    /\ UNCHANGED <<idle, task, hand, need, added, shutdown, eff>>

Boot(t) == BootStart(t) \/ BootReady(t) \/ BootFail(t)

MainStep == FillNext \/ FillPush \/ FillRollback \/ DrainJoined \/ DrainOne

LoopStep == LoopShutdown \/ LoopTick \/ LoopEvict \/ LoopScale \/ LoopCount \/ LoopPush

ClientStep(c) == AcquireStart(c) \/ Release(c) \/ ReleaseDestroy(c)

Next ==
    \/ \E t \in Tasks : Boot(t)
    \/ MainStep \/ SignalShutdown \/ DrainStart
    \/ LoopStep
    \/ \E c \in Clients : ClientStep(c)
    \/ VmDies

Spec == Init /\ [][Next]_vars

\* Boots end (wait_for_vm_running and wait_for_exec_ready have deadlines), the
\* executor runs ready tasks and the loop's timer fires.  The timer starts anew
\* in each round, so it cannot win the select against a sent signal for ever.
\* Clients need not move while they hold a VM, but a call that has begun goes on.
FairSpec ==
    /\ Spec
    /\ \A t \in Tasks : WF_vars(Boot(t))
    /\ WF_vars(MainStep) /\ WF_vars(LoopStep) /\ SF_vars(LoopShutdown)
    /\ \A c \in Clients : WF_vars(At(c, "destroy") /\ ReleaseDestroy(c))

-----------------------------------------------------------------------------
(* Properties                                                              *)

TypeOK ==
    /\ vm \in [VMs -> Vm]
    /\ idle \in Seq(VMs)
    /\ task \in [Tasks -> Task]
    /\ hand \in Seq(VMs) /\ added \subseteq VMs
    /\ need \in [{Main, Loop} -> 0 .. MaxSize]
    /\ shutdown \in BOOLEAN
    /\ eff \in 0 .. MaxSize
    /\ count \in [acquires : 0 .. MaxAcquires, faults : 0 .. MaxFaults,
                  drains : 0 .. MaxDrains]

\* The places that hold VM v: entries of the idle list, of the loop's hands, and
\* tasks.
Holders(v) ==
    {<<"idle", i>> : i \in {i \in DOMAIN idle : idle[i] = v}}
      \cup {<<"hand", i>> : i \in {i \in DOMAIN hand : hand[i] = v}}
      \cup {<<"task", t>> : t \in {t \in Tasks : task[t].vm = v}}

\* A VM that nobody can stop any more: a failed stop dropped its handler.
Abandoned == {v \in VMs : ~Gone(vm[v]) /\ ~vm[v].handler}

\* Every VM with a process or files on the host has exactly one holder (an idle
\* entry, or the task that boots, uses or destroys it) and its handler, through
\* releases, evictions, a rolled back fill and drain: no VM is handed to two
\* clients, destroyed under a client, or dropped without being destroyed.  The
\* only ones without a holder are those whose stop failed.
VmsAccounted ==
    /\ \A v \in VMs :
         /\ Cardinality(Holders(v)) <= 1
         /\ Holders(v) # {} => vm[v].handler
         /\ ~Gone(vm[v]) /\ Holders(v) = {} => v \in Abandoned
    /\ Cardinality(Abandoned) <= count.faults

\* The idle list overshoots max_size by at most one round of replenishment: the
\* loop pushes what it found missing when it counted, and releases may have
\* filled the list since.
IdleBounded ==
    Len(idle) <= MaxSize + (IF MinIdle > max_min_idle THEN MinIdle ELSE max_min_idle)

Idle == {idle[i] : i \in DOMAIN idle}

InClients == {task[c].vm : c \in Clients}

\* When drain returns, nothing is left of any VM of the pool, idle, expired or in
\* the making, but of those that clients hold and those whose stop failed.  And
\* it stays so: from then on only clients start VMs, for an acquire, and only
\* clients put VMs into the idle list, by a release of what they held (drain,
\* the maintenance loop).
DrainedIsQuiet ==
    [][/\ At(Main, "drain") /\ At(Main, "drained")' =>
            \A v \in VMs : Gone(vm'[v]) \/ v \in (Abandoned \cup InClients)'
       /\ At(Main, "drained") =>
            \A v \in VMs :
               \/ vm'[v].up /\ ~vm[v].up
               \/ v \in Idle' /\ v \notin Idle
               => v \in InClients \cup InClients']_vars

\* Unless the pool is shut down, the loop brings the list back to the scaler's
\* target again and again, however VMs expire, die or fail to boot.
Replenished == []<>(shutdown \/ Len(idle) >= eff)

\* A drain that has begun ends: the loop notices the signal after the boots of
\* its round.
DrainEnds == At(Main, "await") ~> At(Main, "drained")
=============================================================================
