------------------------------ MODULE CriRuntime -----------------------------
(***************************************************************************)
(* The CRI runtime service (a3s-box-cri): pod sandboxes, containers, the   *)
(* microVM behind each pod, the supervisor task of each started workload,  *)
(* the state.json snapshot, and recovery after a crash or a shutdown.      *)
(*                                                                         *)
(* The kubelet's requests run concurrently: each is a process that can be  *)
(* overtaken wherever the handler awaits.  PersistentCriStore changes the  *)
(* memory under a lock and then lists both stores and writes the file      *)
(* under none, in three more steps.                                        *)
(*                                                                         *)
(* A request that returns early without changing anything is not issued.   *)
(* Ids are fresh UUIDs, so a sandbox or container id is used once, and the *)
(* pod of a container is a constant of it.  CRI events are output only and *)
(* left out, as are config resolution, stats and the streaming URLs.       *)
(***************************************************************************)
EXTENDS Naturals, FiniteSets

CONSTANTS
    Sandboxes,    \* pod sandbox ids
    Containers,   \* container ids
    Pod,          \* the sandbox each container is created in
    Reqs,         \* slots for requests in progress
    Sups,         \* slots for workloads and their supervisor tasks
    None,         \* no sandbox, no container, no slot
    Initial,      \* the pods that run, with a created container each, at start
    Ops,          \* the requests that are issued
    MaxReqs,      \* bound on the number of requests issued
    MaxCrashes,   \* bound on the number of crashes and shutdowns
    MaxDeaths,    \* bound on the number of VMs that die by themselves
    MayFail       \* whether VmManager::destroy and the read of state.json may fail

Procs == Reqs \cup Sups

Op == {"run", "stop", "remove", "create", "start", "stopc", "removec", "exec", "sup"}

ASSUME CriAssumption ==
    /\ Pod \in [Containers -> Sandboxes]
    /\ Reqs \cap Sups = {}
    /\ None \notin Sandboxes \cup Containers \cup Procs
    /\ Initial \subseteq Sandboxes
    /\ Ops \subseteq Op \ {"sup"}
    /\ MaxReqs \in Nat /\ MaxCrashes \in Nat /\ MaxDeaths \in Nat
    /\ MayFail \in BOOLEAN

VARIABLES
    phase,    \* the server process: "down", "load" (load_state) or "serve"
    rec,      \* how far load_state is with each sandbox
    sb,       \* SandboxStore: the state of each sandbox
    ct,       \* ContainerStore: the state and exit code of each container
    file,     \* state.json: the sandboxes and containers last saved
    vm,       \* the microVM (shim process) of each pod
    mgr,      \* vm_managers: the pods with a manager
    net,      \* the pods with an endpoint in the network store
    rootfs,   \* the containers with a prepared rootfs directory
    stops,    \* workload_stops: the containers whose stop channel is registered
    streams,  \* attach_streams, workload_stdins and log_reopens
    wl,       \* each started workload: its container, the guest process and its
              \* stop channel
    loc,      \* the local state of each request and supervisor
    used,     \* the ids ever minted
    count,    \* requests, crashes and VM deaths so far
    lost      \* pods whose VM, endpoint or rootfs no process can find any more

store == <<sb, ct>>
maps  == <<stops, streams>>
vars  == <<phase, rec, sb, ct, file, vm, mgr, net, rootfs, stops, streams, wl,
           loc, used, count, lost>>

SandboxState == {"none", "Ready", "NotReady"}

\* The exit code is the workload's own, or one the runtime makes up.
Code == {"none", "own", "0", "137", "255"}

Container == [st : {"none", "Created", "Running", "Exited"}, code : Code]

NoContainer == [st |-> "none", code |-> "none"]
Created     == [st |-> "Created", code |-> "none"]
Running     == [st |-> "Running", code |-> "none"]
Exited(k)   == [st |-> "Exited", code |-> k]

PC == {"idle", "list", "list2", "save", "boot", "add", "insert", "signal",
       "mark", "unmap", "take", "kill", "net", "netc", "rmcts", "rmdirs", "rmsb",
       "prepare", "addc", "launch", "started", "register", "spawn", "stopread",
       "mark0", "signalc", "waitc", "fallback", "mark137", "unmapc", "delete",
       "undir", "exec", "watch", "clean"}

\* s, c, w: the sandbox, container and workload the process works on; ids, todo:
\* the containers it listed and has still to handle; ret: where it continues
\* after persist; bs, bc: what persist listed; code: the exit code observed.
Local == [pc : PC, op : Op \cup {"none"}, s : Sandboxes \cup {None},
          c : Containers \cup {None}, w : Sups \cup {None}, ids : SUBSET Containers,
          todo : SUBSET Containers, ret : PC,
          bs : [Sandboxes -> SandboxState], bc : [Containers -> Container], code : Code]

NoSandboxes  == [s \in Sandboxes |-> "none"]
NoContainers == [c \in Containers |-> NoContainer]

Idle == [pc |-> "idle", op |-> "none", s |-> None, c |-> None, w |-> None,
         ids |-> {}, todo |-> {}, ret |-> "idle",
         bs |-> NoSandboxes, bc |-> NoContainers, code |-> "none"]

\* The stop channel of a workload: not yet given to anyone, registered, sent,
\* seen by the supervisor (which then cancels the workload), or dropped unsent.
Workload == [c : Containers \cup {None}, guest : {"none", "run", "done"},
             stop : {"none", "open", "sent", "cancelled", "dropped"}]

NoWorkload == [c |-> None, guest |-> "none", stop |-> "none"]

TypeOK ==
    /\ phase \in {"down", "load", "serve"}
    /\ rec \in [Sandboxes -> {"done", "mark", "reap"}]
    /\ sb \in [Sandboxes -> SandboxState]
    /\ ct \in [Containers -> Container]
    /\ file \in [sb : [Sandboxes -> SandboxState], ct : [Containers -> Container]]
    /\ vm \in [Sandboxes -> {"none", "up", "gone"}]
    /\ mgr \subseteq Sandboxes
    /\ net \subseteq Sandboxes
    /\ rootfs \subseteq Containers
    /\ stops \subseteq Containers
    /\ streams \subseteq Containers
    /\ wl \in [Sups -> Workload]
    /\ loc \in [Procs -> Local]
    /\ used \subseteq Sandboxes \cup Containers
    /\ count \in [reqs : 0..MaxReqs, crashes : 0..MaxCrashes, deaths : 0..MaxDeaths]
    /\ lost \subseteq Sandboxes

\* A server that has been running for a while: each initial pod is Ready with its
\* VM, and one of its containers is Created, or Running under a supervisor (sup).
InitialContainers ==
    {c \in Containers : Pod[c] \in Initial /\ c = CHOOSE d \in Containers : Pod[d] = Pod[c]}

InitWith(sup) ==
    LET Runs(c) == c \in InitialContainers /\ sup[c] # None
        OfSup(w) == {c \in InitialContainers : sup[c] = w}
    IN  /\ ct = [c \in Containers |-> IF Runs(c) THEN Running
                                      ELSE IF c \in InitialContainers THEN Created
                                      ELSE NoContainer]
        /\ stops = {c \in Containers : Runs(c)}
        /\ wl = [w \in Sups |-> IF OfSup(w) = {} THEN NoWorkload
                                ELSE [c |-> CHOOSE c \in OfSup(w) : TRUE,
                                      guest |-> "run", stop |-> "open"]]
        /\ loc = [p \in Procs |->
                     IF p \notin Sups \/ OfSup(p) = {} THEN Idle
                     ELSE [Idle EXCEPT !.op = "sup", !.pc = "watch",
                                       !.c = wl[p].c, !.s = Pod[wl[p].c]]]

Init ==
    /\ phase = "serve"
    /\ rec = [s \in Sandboxes |-> "done"]
    /\ sb = [s \in Sandboxes |-> IF s \in Initial THEN "Ready" ELSE "none"]
    /\ \E sup \in [InitialContainers -> Sups \cup {None}] :
         /\ \A c, d \in InitialContainers : sup[c] = sup[d] /\ sup[c] # None => c = d
         /\ InitWith(sup)
    /\ file = [sb |-> sb, ct |-> ct]
    /\ vm = [s \in Sandboxes |-> IF s \in Initial THEN "up" ELSE "none"]
    /\ mgr = Initial
    /\ net = Initial
    /\ rootfs = InitialContainers
    /\ streams = stops
    /\ used = Initial \cup InitialContainers
    /\ count = [reqs |-> 0, crashes |-> 0, deaths |-> 0]
    /\ lost = {}

-----------------------------------------------------------------------------
(* Locals, the stop channels and the guard of vm_managers.                 *)

At(p, pc) == loc[p].pc = pc

Goto(p, pc) == loc' = [loc EXCEPT ![p].pc = pc]

End(p) == loc' = [loc EXCEPT ![p] = Idle]

\* exec_sync holds the read guard of vm_managers until the guest has answered;
\* insert and remove need the write guard.
Writable == \A r \in Reqs : ~At(r, "exec")

\* Removing the entries of C from the maps drops the senders still in them.
Unregister(C) ==
    /\ stops' = stops \ C
    /\ streams' = streams \ C
    /\ wl' = [w \in Sups |-> IF wl[w].c \in C \cap stops /\ wl[w].stop = "open"
                             THEN [wl[w] EXCEPT !.stop = "dropped"] ELSE wl[w]]

\* Take the registered sender of c and send on it.
Send(c) ==
    /\ stops' = stops \ {c}
    /\ wl' = [w \in Sups |-> IF wl[w].c = c /\ wl[w].stop = "open"
                             THEN [wl[w] EXCEPT !.stop = "sent"] ELSE wl[w]]

-----------------------------------------------------------------------------
(* PersistentCriStore: change the memory, then persist.                    *)

\* Where a process continues; a request that is done leaves its slot.
Continue(l, next) ==
    IF next = "idle" THEN Idle
    ELSE [l EXCEPT !.pc = next, !.ret = "idle", !.bs = NoSandboxes, !.bc = NoContainers]

\* p goes on at `next` once its change, if there was one, is on disk.
Persist(p, changed, next) ==
    loc' = [loc EXCEPT ![p] = IF changed THEN [@ EXCEPT !.pc = "list", !.ret = next]
                                         ELSE Continue(@, next)]

persist_sandboxes(p) ==
    /\ At(p, "list")
    /\ loc' = [loc EXCEPT ![p].pc = "list2", ![p].bs = sb]
    /\ UNCHANGED <<phase, rec, store, file, vm, mgr, net, rootfs, maps, wl, used, count, lost>>

persist_containers(p) ==
    /\ At(p, "list2")
    /\ loc' = [loc EXCEPT ![p].pc = "save", ![p].bc = ct]
    /\ UNCHANGED <<phase, rec, store, file, vm, mgr, net, rootfs, maps, wl, used, count, lost>>

\* A request returns after its last save; JsonStateStore renames a complete
\* file into place.
persist_save(p) ==
    /\ At(p, "save")
    /\ file' = [sb |-> loc[p].bs, ct |-> loc[p].bc]
    /\ loc' = [loc EXCEPT ![p] = Continue(@, @.ret)]
    /\ UNCHANGED <<phase, rec, store, vm, mgr, net, rootfs, maps, wl, used, count, lost>>

PersistStep(p) == persist_sandboxes(p) \/ persist_containers(p) \/ persist_save(p)

\* Mutant of mark_started_if_created: mark_started, whatever the state.
mark_started(p, c, next) ==
    /\ ct' = [ct EXCEPT ![c] = IF @.st = "none" THEN @ ELSE Running]
    /\ Persist(p, ct[c].st # "none", next)

mark_started_if_created(p, c, next) ==
    /\ ct' = [ct EXCEPT ![c] = IF @.st = "Created" THEN Running ELSE @]
    /\ Persist(p, ct[c].st = "Created", next)

mark_exited(p, c, k, next) ==
    /\ ct' = [ct EXCEPT ![c] = IF @.st = "none" THEN @ ELSE Exited(k)]
    /\ Persist(p, ct[c].st # "none", next)

mark_exited_if_running(p, c, k, next) ==
    /\ ct' = [ct EXCEPT ![c] = IF @.st = "Running" THEN Exited(k) ELSE @]
    /\ Persist(p, ct[c].st = "Running", next)

\* Mutant of update_sandbox_state: the state in memory is not changed.
update_sandbox_state_skip(p, s, next) ==
    /\ sb' = sb
    /\ Persist(p, sb[s] # "none", next)

update_sandbox_state(p, s, next) ==
    /\ sb' = [sb EXCEPT ![s] = IF @ = "none" THEN @ ELSE "NotReady"]
    /\ Persist(p, sb[s] # "none", next)

-----------------------------------------------------------------------------
(* Requests.  Issue: the kubelet's call arrives and reads what it needs.   *)

Issue(r, l) ==
    /\ phase = "serve"
    /\ At(r, "idle")
    /\ l.op \in Ops
    /\ count.reqs < MaxReqs
    /\ count' = [count EXCEPT !.reqs = @ + 1]
    /\ loc' = [loc EXCEPT ![r] = l]

\* RunPodSandbox: mint an id and allocate an endpoint in the network store.
run_pod_sandbox(r, s) ==
    /\ s \notin used
    /\ Issue(r, [Idle EXCEPT !.op = "run", !.s = s, !.pc = "boot"])
    /\ used' = used \cup {s}
    /\ net' = net \cup {s}
    /\ UNCHANGED <<phase, rec, store, file, vm, mgr, rootfs, maps, wl, lost>>

\* acquire_vm: a pod asks for its own box id, so the VM is always booted cold.
acquire_vm(r) ==
    /\ At(r, "boot")
    /\ vm' = [vm EXCEPT ![loc[r].s] = "up"]
    /\ Goto(r, "add")
    /\ UNCHANGED <<phase, rec, store, file, mgr, net, rootfs, maps, wl, used, count, lost>>

\* The boot failed, or the allocated address is not the annotated one.
acquire_vm_fails(r) ==
    /\ At(r, "boot")
    /\ net' = net \ {loc[r].s}
    /\ End(r)
    /\ UNCHANGED <<phase, rec, store, file, vm, mgr, rootfs, maps, wl, used, count, lost>>

add_sandbox(r) ==
    /\ At(r, "add")
    /\ sb' = [sb EXCEPT ![loc[r].s] = "Ready"]
    /\ Persist(r, TRUE, "insert")
    /\ UNCHANGED <<phase, rec, ct, file, vm, mgr, net, rootfs, maps, wl, used, count, lost>>

insert_manager(r) ==
    /\ At(r, "insert")
    /\ Writable
    /\ mgr' = mgr \cup {loc[r].s}
    /\ End(r)
    /\ UNCHANGED <<phase, rec, store, file, vm, net, rootfs, maps, wl, used, count, lost>>

\* CreateContainer: the sandbox is Ready now; it is not looked at again.
create_container(r, c) ==
    /\ c \notin used
    /\ sb[Pod[c]] = "Ready"
    /\ Issue(r, [Idle EXCEPT !.op = "create", !.s = Pod[c], !.c = c, !.pc = "prepare"])
    /\ used' = used \cup {c}
    /\ UNCHANGED <<phase, rec, store, file, vm, mgr, net, rootfs, maps, wl, lost>>

prepare_container_rootfs(r) ==
    /\ At(r, "prepare")
    /\ rootfs' = rootfs \cup {loc[r].c}
    /\ Goto(r, "addc")
    /\ UNCHANGED <<phase, rec, store, file, vm, mgr, net, maps, wl, used, count, lost>>

\* The rootfs or a mount could not be prepared: what was built is removed.
prepare_container_rootfs_fails(r) ==
    /\ At(r, "prepare")
    /\ rootfs' = rootfs \ {loc[r].c}
    /\ End(r)
    /\ UNCHANGED <<phase, rec, store, file, vm, mgr, net, maps, wl, used, count, lost>>

add_container(r) ==
    /\ At(r, "addc")
    /\ ct' = [ct EXCEPT ![loc[r].c] = Created]
    /\ Persist(r, TRUE, "idle")
    /\ UNCHANGED <<phase, rec, sb, file, vm, mgr, net, rootfs, maps, wl, used, count, lost>>

\* StartContainer: the container is Created and the pod's VM answers.
start_container(r, c) ==
    /\ ct[c].st = "Created"
    /\ Pod[c] \in mgr
    /\ vm[Pod[c]] = "up"
    /\ Issue(r, [Idle EXCEPT !.op = "start", !.s = Pod[c], !.c = c, !.pc = "launch"])
    /\ UNCHANGED <<phase, rec, store, file, vm, mgr, net, rootfs, maps, wl, used, lost>>

\* exec_stream: from here on the workload runs in the guest.
launch(r) ==
    /\ At(r, "launch")
    /\ vm[loc[r].s] = "up"
    /\ \E w \in Sups :
         /\ wl[w] = NoWorkload
         /\ wl' = [wl EXCEPT ![w] = [c |-> loc[r].c, guest |-> "run", stop |-> "none"]]
         /\ loc' = [loc EXCEPT ![r].pc = "started", ![r].w = w]
    /\ UNCHANGED <<phase, rec, store, file, vm, mgr, net, rootfs, maps, used, count, lost>>

launch_fails(r) ==
    /\ At(r, "launch")
    /\ End(r)
    /\ UNCHANGED <<phase, rec, store, file, vm, mgr, net, rootfs, maps, wl, used, count, lost>>

started(r) ==
    /\ At(r, "started")
    /\ mark_started_if_created(r, loc[r].c,
                               IF ct[loc[r].c].st = "Created" THEN "register" ELSE "spawn")
    /\ UNCHANGED <<phase, rec, sb, file, vm, mgr, net, rootfs, maps, wl, used, count, lost>>

register(r) ==
    /\ At(r, "register")
    /\ stops' = stops \cup {loc[r].c}
    /\ streams' = streams \cup {loc[r].c}
    /\ wl' = [wl EXCEPT ![loc[r].w].stop = "open"]
    /\ Goto(r, "spawn")
    /\ UNCHANGED <<phase, rec, store, file, vm, mgr, net, rootfs, used, count, lost>>

\* The supervisor is spawned in any case; a start that lost the race to a stop
\* drops its sender and reports an error.
spawn_supervisor(r) ==
    /\ At(r, "spawn")
    /\ wl' = [wl EXCEPT ![loc[r].w].stop = IF @ = "none" THEN "dropped" ELSE @]
    /\ loc' = [loc EXCEPT ![r] = Idle,
                          ![loc[r].w] = [Idle EXCEPT !.op = "sup", !.pc = "watch",
                                                     !.s = loc[r].s, !.c = loc[r].c]]
    /\ UNCHANGED <<phase, rec, store, file, vm, mgr, net, rootfs, maps, used, count, lost>>

\* ExecSync in a running container, under the read guard of vm_managers.
exec_sync(r, c) ==
    /\ ct[c].st = "Running"
    /\ Pod[c] \in mgr
    /\ vm[Pod[c]] = "up"
    /\ Issue(r, [Idle EXCEPT !.op = "exec", !.s = Pod[c], !.c = c, !.pc = "exec"])
    /\ UNCHANGED <<phase, rec, store, file, vm, mgr, net, rootfs, maps, wl, used, lost>>

\* The guest answers once the command has exited, or was killed at its timeout,
\* and its output has been read to the end, or the connection breaks.
exec_done(r) ==
    /\ At(r, "exec")
    /\ End(r)
    /\ UNCHANGED <<phase, rec, store, file, vm, mgr, net, rootfs, maps, wl, used, count, lost>>

-----------------------------------------------------------------------------
(* StopContainer and RemoveContainer.                                      *)

\* RemoveContainer stops a running container first, by calling StopContainer.
stop_container(r, c) ==
    /\ ct[c].st \in {"Created", "Running"}
    /\ Issue(r, [Idle EXCEPT !.op = "stopc", !.s = Pod[c], !.c = c, !.pc = "stopread"])
    /\ UNCHANGED <<phase, rec, store, file, vm, mgr, net, rootfs, maps, wl, used, lost>>

remove_container(r, c) ==
    /\ ct[c].st # "none"
    /\ Issue(r, [Idle EXCEPT !.op = "removec", !.s = Pod[c], !.c = c,
                             !.pc = IF ct[c].st = "Running" THEN "stopread" ELSE "delete"])
    /\ UNCHANGED <<phase, rec, store, file, vm, mgr, net, rootfs, maps, wl, used, lost>>

\* Where StopContainer returns to.
StopReturn(r) == IF loc[r].op = "removec" THEN "delete" ELSE "idle"

stop_container_read(r) ==
    /\ At(r, "stopread")
    /\ loc' = [loc EXCEPT ![r] =
                  CASE ct[@.c].st = "none"    -> Idle
                    [] ct[@.c].st = "Exited"  -> Continue(@, StopReturn(r))
                    [] ct[@.c].st = "Created" -> Continue(@, "mark0")
                    [] ct[@.c].st = "Running" -> Continue(@, "signalc")]
    /\ UNCHANGED <<phase, rec, store, file, vm, mgr, net, rootfs, maps, wl, used, count, lost>>

stop_created(r) ==
    /\ At(r, "mark0")
    /\ mark_exited(r, loc[r].c, "0", "unmapc")
    /\ UNCHANGED <<phase, rec, sb, file, vm, mgr, net, rootfs, maps, wl, used, count, lost>>

\* stop_container_workload: without a registered channel, or past the deadline,
\* it gives up and the VM of the pod is torn down.
stop_container_workload(r) ==
    /\ At(r, "signalc")
    /\ \/ /\ loc[r].c \in stops
          /\ Send(loc[r].c)
          /\ Goto(r, "waitc")
       \/ /\ loc[r].c \notin stops
          /\ Goto(r, "fallback")
          /\ UNCHANGED <<stops, wl>>
    /\ UNCHANGED <<phase, rec, store, file, vm, mgr, net, rootfs, streams, used, count, lost>>

stop_container_waited(r) ==
    /\ At(r, "waitc")
    /\ ct[loc[r].c].st \in {"none", "Exited"}
    /\ Goto(r, "unmapc")
    /\ UNCHANGED <<phase, rec, store, file, vm, mgr, net, rootfs, maps, wl, used, count, lost>>

\* Mutant of stop_container_timeout: no deadline.
stop_container_timeout_never(r) ==
    /\ At(r, "waitc")
    /\ vm[loc[r].s] # "up"
    /\ Goto(r, "fallback")
    /\ UNCHANGED <<phase, rec, store, file, vm, mgr, net, rootfs, maps, wl, used, count, lost>>

stop_container_timeout(r) ==
    /\ At(r, "waitc")
    /\ ct[loc[r].c].st \in {"Created", "Running"}
    /\ Goto(r, "fallback")
    /\ UNCHANGED <<phase, rec, store, file, vm, mgr, net, rootfs, maps, wl, used, count, lost>>

has_other_running_containers(c) ==
    \E d \in Containers \ {c} : Pod[d] = Pod[c] /\ ct[d].st = "Running"

stop_container_fallback(r) ==
    /\ At(r, "fallback")
    /\ IF has_other_running_containers(loc[r].c) THEN End(r) ELSE Goto(r, "take")
    /\ UNCHANGED <<phase, rec, store, file, vm, mgr, net, rootfs, maps, wl, used, count, lost>>

stop_running(r) ==
    /\ At(r, "mark137")
    /\ mark_exited_if_running(r, loc[r].c, "137", "unmapc")
    /\ UNCHANGED <<phase, rec, sb, file, vm, mgr, net, rootfs, maps, wl, used, count, lost>>

stop_container_unmap(r) ==
    /\ At(r, "unmapc")
    /\ Unregister({loc[r].c})
    /\ loc' = [loc EXCEPT ![r] = Continue(@, StopReturn(r))]
    /\ UNCHANGED <<phase, rec, store, file, vm, mgr, net, rootfs, used, count, lost>>

remove_container_delete(r) ==
    /\ At(r, "delete")
    /\ ct' = [ct EXCEPT ![loc[r].c] = NoContainer]
    /\ IF ct[loc[r].c].st = "none" THEN End(r) ELSE Persist(r, TRUE, "undir")
    /\ UNCHANGED <<phase, rec, sb, file, vm, mgr, net, rootfs, maps, wl, used, count, lost>>

remove_container_cleanup(r) ==
    /\ At(r, "undir")
    /\ Unregister({loc[r].c})
    /\ rootfs' = rootfs \ {loc[r].c}
    /\ End(r)
    /\ UNCHANGED <<phase, rec, store, file, vm, mgr, net, used, count, lost>>

-----------------------------------------------------------------------------
(* StopPodSandbox and RemovePodSandbox.                                    *)

InPod(s) == {c \in Containers : Pod[c] = s /\ ct[c].st # "none"}

stop_pod_sandbox(r, s) ==
    /\ sb[s] = "Ready"
    /\ Issue(r, [Idle EXCEPT !.op = "stop", !.s = s, !.pc = "signal",
                             !.todo = {c \in InPod(s) : ct[c].st = "Running"}])
    /\ UNCHANGED <<phase, rec, store, file, vm, mgr, net, rootfs, maps, wl, used, lost>>

\* Every running workload is asked to stop; the stops run concurrently.
stop_pod_signal(r, c) ==
    /\ At(r, "signal")
    /\ c \in loc[r].todo
    /\ IF c \in stops THEN Send(c) ELSE UNCHANGED <<stops, wl>>
    /\ loc' = [loc EXCEPT ![r].todo = @ \ {c}]
    /\ UNCHANGED <<phase, rec, store, file, vm, mgr, net, rootfs, streams, used, count, lost>>

\* Each wait ends, with the workload's exit or with the deadline; both are taken
\* the same way.  Then the containers are listed again.
stop_pod_relist(r) ==
    /\ At(r, "signal")
    /\ loc[r].todo = {}
    /\ loc' = [loc EXCEPT ![r].pc = "mark", ![r].ids = InPod(loc[r].s),
                          ![r].todo = {c \in InPod(loc[r].s) : ct[c].st # "Exited"}]
    /\ UNCHANGED <<phase, rec, store, file, vm, mgr, net, rootfs, maps, wl, used, count, lost>>

\* mark_container_exited does not look at the state: the listed one may be old.
stop_pod_mark(r, c) ==
    /\ At(r, "mark")
    /\ c \in loc[r].todo
    /\ ct' = [ct EXCEPT ![c] = IF @.st = "none" THEN @ ELSE Exited("137")]
    /\ loc' = [loc EXCEPT ![r].todo = @ \ {c},
                          ![r].pc = IF ct[c].st = "none" THEN "mark" ELSE "list",
                          ![r].ret = IF ct[c].st = "none" THEN "idle" ELSE "mark"]
    /\ UNCHANGED <<phase, rec, sb, file, vm, mgr, net, rootfs, maps, wl, used, count, lost>>

\* The registry entries of the listed (stop) or removed (remove) containers.
pod_unmap(r) ==
    /\ \/ At(r, "unmap")
       \/ At(r, "mark") /\ loc[r].op = "stop" /\ loc[r].todo = {}
    /\ Unregister(loc[r].ids)
    /\ Goto(r, IF loc[r].op = "stop" THEN "take" ELSE "rmdirs")
    /\ UNCHANGED <<phase, rec, store, file, vm, mgr, net, rootfs, used, count, lost>>

\* destroy_sandbox_vm: the manager leaves the map first.
destroy_sandbox_vm(r) ==
    /\ At(r, "take")
    /\ Writable
    /\ mgr' = mgr \ {loc[r].s}
    /\ Goto(r, IF loc[r].s \in mgr THEN "kill" ELSE "net")
    /\ UNCHANGED <<phase, rec, store, file, vm, net, rootfs, maps, wl, used, count, lost>>

destroy_vm(r) ==
    /\ At(r, "kill")
    /\ vm' = [vm EXCEPT ![loc[r].s] = "gone"]
    /\ Goto(r, "net")
    /\ UNCHANGED <<phase, rec, store, file, mgr, net, rootfs, maps, wl, used, count, lost>>

\* destroy failed: the request fails, and the manager it took is dropped.
destroy_vm_fails(r) ==
    /\ MayFail
    /\ At(r, "kill")
    /\ vm[loc[r].s] = "up"
    /\ lost' = lost \cup {loc[r].s}
    /\ End(r)
    /\ UNCHANGED <<phase, rec, store, file, vm, mgr, net, rootfs, maps, wl, used, count>>

\* StopPodSandbox releases the endpoint; the sandbox is NotReady from here on.
stop_pod_network(r) ==
    /\ At(r, "net")
    /\ loc[r].op = "stop"
    /\ net' = net \ {loc[r].s}
    /\ update_sandbox_state(r, loc[r].s, "idle")
    /\ UNCHANGED <<phase, rec, ct, file, vm, mgr, rootfs, maps, wl, used, count, lost>>

\* stop_container_vm makes the sandbox NotReady first and then releases the
\* endpoint, if the sandbox is still in the store.
stop_container_not_ready(r) ==
    /\ At(r, "net")
    /\ loc[r].op \in {"stopc", "removec"}
    /\ update_sandbox_state(r, loc[r].s, "netc")
    /\ UNCHANGED <<phase, rec, ct, file, vm, mgr, net, rootfs, maps, wl, used, count, lost>>

stop_container_network(r) ==
    /\ At(r, "netc")
    /\ net' = IF sb[loc[r].s] = "none" THEN net ELSE net \ {loc[r].s}
    /\ Goto(r, "mark137")
    /\ UNCHANGED <<phase, rec, store, file, vm, mgr, rootfs, maps, wl, used, count, lost>>

remove_pod_sandbox(r, s) ==
    /\ sb[s] = "NotReady"
    /\ Issue(r, [Idle EXCEPT !.op = "remove", !.s = s, !.pc = "take"])
    /\ UNCHANGED <<phase, rec, store, file, vm, mgr, net, rootfs, maps, wl, used, lost>>

remove_pod_network(r) ==
    /\ At(r, "net")
    /\ loc[r].op = "remove"
    /\ net' = net \ {loc[r].s}
    /\ Goto(r, "rmcts")
    /\ UNCHANGED <<phase, rec, store, file, vm, mgr, rootfs, maps, wl, used, count, lost>>

remove_containers_by_sandbox(r) ==
    /\ At(r, "rmcts")
    /\ ct' = [c \in Containers |-> IF Pod[c] = loc[r].s THEN NoContainer ELSE ct[c]]
    /\ loc' = [loc EXCEPT ![r].ids = InPod(loc[r].s),
                          ![r].pc = IF InPod(loc[r].s) = {} THEN "unmap" ELSE "list",
                          ![r].ret = IF InPod(loc[r].s) = {} THEN "idle" ELSE "unmap"]
    /\ UNCHANGED <<phase, rec, sb, file, vm, mgr, net, rootfs, maps, wl, used, count, lost>>

\* The rootfs of each removed container, and the pod's whole directory.
remove_pod_rootfs(r) ==
    /\ At(r, "rmdirs")
    /\ rootfs' = {c \in rootfs : Pod[c] # loc[r].s}
    /\ Goto(r, "rmsb")
    /\ UNCHANGED <<phase, rec, store, file, vm, mgr, net, maps, wl, used, count, lost>>

remove_sandbox(r) ==
    /\ At(r, "rmsb")
    /\ sb' = [sb EXCEPT ![loc[r].s] = "none"]
    /\ Persist(r, sb[loc[r].s] # "none", "idle")
    /\ UNCHANGED <<phase, rec, ct, file, vm, mgr, net, rootfs, maps, wl, used, count, lost>>

-----------------------------------------------------------------------------
(* The exit supervisor of a started workload, and the guest.               *)

WorkloadAlive(w) == wl[w].guest = "run" /\ vm[Pod[wl[w].c]] = "up"

\* A stop arrives: cancel the workload.  A dropped sender only disarms the arm.
supervisor_cancel(w) ==
    /\ At(w, "watch")
    /\ wl[w].stop = "sent"
    /\ wl' = [wl EXCEPT ![w].stop = "cancelled"]
    /\ UNCHANGED <<phase, rec, store, file, vm, mgr, net, rootfs, maps, loc, used, count, lost>>

\* Mutant of supervisor_exit: a stream without an exit code leaves -1.
supervisor_exit_raw(w) ==
    /\ At(w, "watch")
    /\ ~WorkloadAlive(w)
    /\ loc' = [loc EXCEPT ![w].pc = "mark",
                          ![w].code = IF wl[w].guest = "done" THEN "own" ELSE "-1"]
    /\ UNCHANGED <<phase, rec, store, file, vm, mgr, net, rootfs, maps, wl, used, count, lost>>

\* Mutant of supervisor_exit: the loop ends only with an exit event.
supervisor_exit_event(w) ==
    /\ At(w, "watch")
    /\ wl[w].guest = "done"
    /\ loc' = [loc EXCEPT ![w].pc = "mark", ![w].code = "own"]
    /\ UNCHANGED <<phase, rec, store, file, vm, mgr, net, rootfs, maps, wl, used, count, lost>>

\* The stream delivers the exit code, or ends or fails without one.
supervisor_exit(w) ==
    /\ At(w, "watch")
    /\ ~WorkloadAlive(w)
    /\ loc' = [loc EXCEPT ![w].pc = "mark",
                          ![w].code = IF wl[w].guest = "done" THEN "own" ELSE "255"]
    /\ UNCHANGED <<phase, rec, store, file, vm, mgr, net, rootfs, maps, wl, used, count, lost>>

supervisor_mark(w) ==
    /\ At(w, "mark")
    /\ mark_exited_if_running(w, loc[w].c, loc[w].code, "clean")
    /\ UNCHANGED <<phase, rec, sb, file, vm, mgr, net, rootfs, maps, wl, used, count, lost>>

\* Mutant of supervisor_clean: the stop channel stays registered.
supervisor_clean_leak(w) ==
    /\ At(w, "clean")
    /\ streams' = streams \ {loc[w].c}
    /\ stops' = stops
    /\ wl' = [wl EXCEPT ![w] = NoWorkload]
    /\ End(w)
    /\ UNCHANGED <<phase, rec, store, file, vm, mgr, net, rootfs, used, count, lost>>

supervisor_clean(w) ==
    /\ At(w, "clean")
    /\ stops' = stops \ {loc[w].c}
    /\ streams' = streams \ {loc[w].c}
    /\ wl' = [v \in Sups |->
                 IF v = w THEN NoWorkload
                 ELSE IF wl[v].c = loc[w].c /\ wl[v].stop = "open"
                      THEN [wl[v] EXCEPT !.stop = "dropped"] ELSE wl[v]]
    /\ End(w)
    /\ UNCHANGED <<phase, rec, store, file, vm, mgr, net, rootfs, used, count, lost>>

\* The guest reports the end of the workload: its process has exited, by itself or
\* because it was cancelled, and nobody holds its output open (ExecStream).
WorkloadExits(w) ==
    /\ WorkloadAlive(w)
    /\ wl' = [wl EXCEPT ![w].guest = "done"]
    /\ UNCHANGED <<phase, rec, store, file, vm, mgr, net, rootfs, maps, loc, used, count, lost>>

\* A microVM dies under its pod.
VmDies(s) ==
    /\ vm[s] = "up"
    /\ count.deaths < MaxDeaths
    /\ count' = [count EXCEPT !.deaths = @ + 1]
    /\ vm' = [vm EXCEPT ![s] = "gone"]
    /\ UNCHANGED <<phase, rec, store, file, mgr, net, rootfs, maps, wl, loc, used, lost>>

-----------------------------------------------------------------------------
(* The end of the server process, and load_state in the next one.          *)

\* What a pod leaves behind that only its record leads to.
Leftovers(s, v, n, d) == v[s] = "up" \/ s \in n \/ \E c \in d : Pod[c] = s

\* The process is gone, with everything it kept in memory; v and d are the VMs
\* and rootfs directories it leaves.
Stopped(v, d) ==
    /\ phase = "serve"
    /\ count.crashes < MaxCrashes
    /\ count' = [count EXCEPT !.crashes = @ + 1]
    /\ phase' = "down"
    /\ sb' = NoSandboxes
    /\ ct' = NoContainers
    /\ mgr' = {}
    /\ stops' = {}
    /\ streams' = {}
    /\ wl' = [w \in Sups |-> NoWorkload]
    /\ loc' = [p \in Procs |-> Idle]
    /\ vm' = v
    /\ rootfs' = d
    /\ lost' = lost \cup {s \in Sandboxes : file.sb[s] = "none" /\ Leftovers(s, v, net, d)}
    /\ UNCHANGED <<rec, file, net, used>>

Crash == Stopped(vm, rootfs)

\* SIGTERM: the requests in progress are finished first; then every VM that has
\* a manager is destroyed, its rootfs directories too.
shutdown_all_sandboxes ==
    /\ \A r \in Reqs : At(r, "idle")
    /\ Stopped([s \in Sandboxes |-> IF s \in mgr THEN "gone" ELSE vm[s]],
               {c \in rootfs : Pod[c] \notin mgr})

\* A new process reads state.json.
load ==
    /\ phase = "down"
    /\ phase' = "load"
    /\ sb' = file.sb
    /\ ct' = file.ct
    /\ rec' = [s \in Sandboxes |-> IF file.sb[s] = "none" THEN "done" ELSE "mark"]
    /\ UNCHANGED <<file, vm, mgr, net, rootfs, maps, wl, loc, used, count, lost>>

\* state.json cannot be read or parsed: the server starts fresh, and nothing leads
\* to what the last process left.
load_fails ==
    /\ MayFail
    /\ phase = "down"
    /\ phase' = "serve"
    /\ lost' = lost \cup {s \in Sandboxes : Leftovers(s, vm, net, rootfs)}
    /\ UNCHANGED <<rec, store, file, vm, mgr, net, rootfs, maps, wl, loc, used, count>>

\* Mutant of load_state_mark: a sandbox that is NotReady already is taken for
\* one whose VM is gone.
load_state_mark_ready(s) ==
    /\ rec[s] = "mark"
    /\ \A t \in Sandboxes : rec[t] # "reap"
    /\ sb' = [sb EXCEPT ![s] = "NotReady"]
    /\ file' = [sb |-> sb', ct |-> ct]
    /\ rec' = [rec EXCEPT ![s] = IF sb[s] = "Ready" THEN "reap" ELSE "done"]
    /\ UNCHANGED <<phase, ct, vm, mgr, net, rootfs, maps, wl, loc, used, count, lost>>

load_state_mark(s) ==
    /\ rec[s] = "mark"
    /\ \A t \in Sandboxes : rec[t] # "reap"
    /\ sb' = [sb EXCEPT ![s] = "NotReady"]
    /\ file' = [sb |-> sb', ct |-> ct]
    /\ rec' = [rec EXCEPT ![s] = "reap"]
    /\ UNCHANGED <<phase, ct, vm, mgr, net, rootfs, maps, wl, loc, used, count, lost>>

\* reap_orphaned_box kills the shim and cleanup_sandbox_rootfs the directories.
load_state_reap(s) ==
    /\ rec[s] = "reap"
    /\ vm' = [vm EXCEPT ![s] = IF @ = "up" THEN "gone" ELSE @]
    /\ rootfs' = {c \in rootfs : Pod[c] # s}
    /\ rec' = [rec EXCEPT ![s] = "done"]
    /\ UNCHANGED <<phase, store, file, mgr, net, maps, wl, loc, used, count, lost>>

load_state_containers ==
    /\ phase = "load"
    /\ \A s \in Sandboxes : rec[s] = "done"
    /\ \E c \in Containers :
         /\ ct[c].st \in {"Created", "Running"}
         /\ ct' = [ct EXCEPT ![c] = Exited("255")]
    /\ file' = [sb |-> sb, ct |-> ct']
    /\ UNCHANGED <<phase, rec, sb, vm, mgr, net, rootfs, maps, wl, loc, used, count, lost>>

\* The socket is bound only after load_state.
serve ==
    /\ phase = "load"
    /\ \A s \in Sandboxes : rec[s] = "done"
    /\ \A c \in Containers : ct[c].st \in {"none", "Exited"}
    /\ phase' = "serve"
    /\ UNCHANGED <<rec, store, file, vm, mgr, net, rootfs, maps, wl, loc, used, count, lost>>

-----------------------------------------------------------------------------

NewRequest ==
    \E r \in Reqs :
        \/ \E s \in Sandboxes :
              run_pod_sandbox(r, s) \/ stop_pod_sandbox(r, s) \/ remove_pod_sandbox(r, s)
        \/ \E c \in Containers :
              \/ create_container(r, c) \/ start_container(r, c) \/ stop_container(r, c)
              \/ remove_container(r, c) \/ exec_sync(r, c)

\* The steps that need the write guard of vm_managers.
GuardedStep(r) == insert_manager(r) \/ destroy_sandbox_vm(r)

RequestStep(r) ==
    \/ PersistStep(r)
    \/ GuardedStep(r)
    \/ acquire_vm(r) \/ acquire_vm_fails(r) \/ add_sandbox(r)
    \/ prepare_container_rootfs(r) \/ prepare_container_rootfs_fails(r) \/ add_container(r)
    \/ launch(r) \/ launch_fails(r) \/ started(r) \/ register(r) \/ spawn_supervisor(r)
    \/ stop_container_read(r) \/ stop_created(r) \/ stop_container_workload(r)
    \/ stop_container_waited(r) \/ stop_container_timeout(r) \/ stop_container_fallback(r)
    \/ stop_running(r) \/ stop_container_unmap(r)
    \/ remove_container_delete(r) \/ remove_container_cleanup(r)
    \/ \E c \in Containers : stop_pod_signal(r, c) \/ stop_pod_mark(r, c)
    \/ stop_pod_relist(r) \/ pod_unmap(r) \/ destroy_vm(r) \/ destroy_vm_fails(r)
    \/ stop_pod_network(r) \/ stop_container_not_ready(r) \/ stop_container_network(r)
    \/ remove_pod_network(r) \/ remove_containers_by_sandbox(r)
    \/ remove_pod_rootfs(r) \/ remove_sandbox(r)

SupervisorStep(w) ==
    PersistStep(w) \/ supervisor_cancel(w) \/ supervisor_exit(w) \/ supervisor_mark(w)
        \/ supervisor_clean(w)

LoadState ==
    \/ load \/ load_fails
    \/ \E s \in Sandboxes : load_state_mark(s) \/ load_state_reap(s)
    \/ load_state_containers
    \/ serve

Next ==
    \/ NewRequest
    \/ \E r \in Reqs : RequestStep(r) \/ exec_done(r)
    \/ \E w \in Sups : SupervisorStep(w) \/ WorkloadExits(w)
    \/ \E s \in Sandboxes : VmDies(s)
    \/ Crash
    \/ shutdown_all_sandboxes
    \/ LoadState

Spec == Init /\ [][Next]_vars

\* The command of an ExecSync, still in a VM that is up.
Executing(r) == At(r, "exec") /\ vm[loc[r].s] = "up"

(***************************************************************************)
(* Fairness: tokio keeps polling a task that can run; its RwLock queues    *)
(* writers, so a manager's writer is served between two ExecSyncs; boots   *)
(* and stop waits have timeouts.  An ExecSync has none that bounds it: the *)
(* guest kills the command at its timeout but then reads its output to the *)
(* end, and the host waits for the answer.  So it is only known to end     *)
(* when its VM is gone and the connection breaks.  Nothing is assumed of   *)
(* the kubelet, of workloads that nobody cancelled or of crashes.          *)
(***************************************************************************)
Fairness ==
    /\ \A r \in Reqs : /\ WF_vars(RequestStep(r)) /\ SF_vars(GuardedStep(r))
                       /\ WF_vars(exec_done(r) /\ ~Executing(r))
    /\ \A w \in Sups : WF_vars(SupervisorStep(w))
    /\ WF_vars(LoadState)

FairSpec == Spec /\ Fairness

-----------------------------------------------------------------------------
(* Properties.                                                             *)

\* Whatever order requests, supervisors, crashes and restarts come in, a
\* serving process still leads to every VM, endpoint and rootfs directory: a
\* manager, a record or a request in progress.  The exceptions are the pods in
\* `lost`: destroy failed after the manager was taken, or the process ended
\* while their record was not on disk, or the file could not be read
\* (destroy_sandbox_vm, load_state).
ResourcesAccounted ==
    phase = "serve" =>
        /\ \A s \in Sandboxes \ lost :
             /\ vm[s] = "up" => \/ s \in mgr
                                \/ \E r \in Reqs : loc[r].s = s /\ (loc[r].op = "run" \/ At(r, "kill"))
             /\ s \in net => sb[s] # "none" \/ \E r \in Reqs : loc[r].s = s /\ loc[r].op = "run"
        /\ \A c \in rootfs : \/ ct[c].st # "none"
                             \/ Pod[c] \in lost
                             \/ \E r \in Reqs : loc[r].c = c \/ (loc[r].op = "remove" /\ loc[r].s = Pod[c])

\* A pod is Ready only with a VM manager behind it, also after a restart and
\* also while its stop overlaps other requests: otherwise the kubelet never
\* learns that the pod is gone (load_state, stop_container_vm).
ReadyHasManager ==
    phase = "serve" =>
        \A s \in Sandboxes \ lost :
            sb[s] = "Ready" => s \in mgr \/ \E r \in Reqs : loc[r].s = s

\* The registries hold no entry that outlives its workload: whoever registers a
\* stop channel has a supervisor, in place or about to be spawned, that removes
\* it (spawn_container_exit_supervisor).
RegistriesBacked ==
    \A c \in stops \cup streams :
        \/ \E w \in Sups : loc[w].op = "sup" /\ loc[w].c = c
        \/ \E r \in Reqs : loc[r].op = "start" /\ loc[r].c = c /\ At(r, "spawn")

\* An exited container never runs or waits for a start again, however a start
\* overlaps the stop, the supervisor or a restart of the server
\* (mark_started_if_created).
ExitedStays ==
    [][\A c \in Containers : ct[c].st = "Exited" => ct'[c].st \in {"Exited", "none"}]_vars

\* A container whose workload is over, because the guest reported its exit or
\* because its VM died or was destroyed, does not stay Running.  (The guest
\* reports an exit only when nobody holds the workload's output open: see
\* ExecStream!StopEnds.)
ExitsReported ==
    \A c \in Containers :
        /\ phase = "serve"
        /\ ct[c].st = "Running"
        /\ \A w \in Sups : wl[w].c = c => ~WorkloadAlive(w)
        ~> ct[c].st # "Running"

\* A request returns, or else a command of ExecSync runs on for ever in a live
\* VM, and the request is that ExecSync or waits for the write guard of
\* vm_managers that it keeps; the guard is shared by all pods.  Nothing else
\* holds a request up: no stop waits for ever for a workload that ignores it,
\* for a supervisor or for a VM that died (exec_sync, stop_container_workload,
\* destroy_sandbox_vm).
RequestsEnd ==
    \A r \in Reqs :
        \/ []<>At(r, "idle")
        \/ <>[](\E x \in Reqs :
                   Executing(x) /\ (x = r \/ At(r, "take") \/ At(r, "insert")))

\* As documented for the persistent store, which snapshots the state to disk at
\* every mutation so that a restart orphans no VM: the file names every pod
\* whose VM is managed.
ManagedOnDisk ==
    \A s \in mgr : file.sb[s] # "none"
=============================================================================
