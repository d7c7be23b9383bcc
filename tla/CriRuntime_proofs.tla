-------------------------- MODULE CriRuntime_proofs --------------------------
(***************************************************************************)
(* For any sandboxes, containers, requests, crashes and failures: a        *)
(* serving CRI process leads to every VM, endpoint and rootfs it is        *)
(* responsible for, a Ready pod has a manager, no registry entry outlives  *)
(* its supervisor, and an exited container stays exited.                   *)
(***************************************************************************)
EXTENDS CriRuntime, TLAPS

-----------------------------------------------------------------------------
(* The invariant                                                           *)

Saving == {"list", "list2", "save"}

\* Where a process is, or will be when what it changed is saved.
Point(l) == IF l.pc \in Saving THEN l.ret ELSE l.pc

\* The places of each operation, and the ones it saves before.
StopPlaces  == {"stopread", "mark0", "signalc", "waitc", "fallback", "take", "kill", "net",
                "netc", "mark137", "unmapc"}
StopReturns == {"unmapc", "netc"}

Through(l, places, returns) == IF l.pc \in Saving THEN l.ret \in returns ELSE l.pc \in places

Flow(l) ==
    \/ l.op = "run"     /\ Through(l, {"boot", "add", "insert"}, {"insert"})
    \/ l.op = "create"  /\ Through(l, {"prepare", "addc"}, {"idle"})
    \/ l.op = "start"   /\ Through(l, {"launch", "started", "register", "spawn"}, {"register"})
    \/ l.op = "exec"    /\ Through(l, {"exec"}, {})
    \/ l.op = "stopc"   /\ Through(l, StopPlaces, StopReturns)
    \/ l.op = "removec" /\ Through(l, StopPlaces \cup {"delete", "undir"}, StopReturns \cup {"undir"})
    \/ l.op = "stop"    /\ Through(l, {"signal", "mark", "take", "kill", "net"}, {"mark", "idle"})
    \/ l.op = "remove"  /\ Through(l, {"take", "kill", "net", "rmcts", "unmap", "rmdirs", "rmsb"},
                                      {"unmap", "idle"})
    \/ l.op = "sup"     /\ Through(l, {"watch", "mark", "clean"}, {"clean"})

OnContainer == {"create", "start", "exec", "stopc", "removec", "sup"}

\* A request or a supervisor in progress.
Active(l) ==
    /\ l \in Local /\ Flow(l)
    /\ l.op # "sup" => l.s \in Sandboxes
    /\ l.op \in OnContainer => l.c \in Containers
    /\ IF l.op = "start" /\ Point(l) # "launch" THEN l.w \in Sups ELSE l.w = None

Shape ==
    /\ TypeOK
    /\ \A p \in Procs : loc[p] = Idle \/ Active(loc[p])
    /\ \A r \in Reqs : loc[r].op # "sup"
    /\ \A w \in Sups : loc[w] = Idle \/ loc[w].op = "sup"

\* The process that serves is the only one with anything in memory.
Phases ==
    /\ phase # "serve" => /\ mgr = {} /\ stops = {} /\ streams = {}
                          /\ \A p \in Procs : loc[p] = Idle
                          /\ \A w \in Sups : wl[w].c = None
    /\ phase # "load" => \A s \in Sandboxes : rec[s] = "done"
    /\ phase = "down" => sb = NoSandboxes /\ ct = NoContainers
    /\ \A s \in Sandboxes : rec[s] # "done" => sb[s] # "none"

\* Nothing names an id that was not minted.
Minted ==
    /\ \A s \in Sandboxes \ used :
         /\ sb[s] = "none" /\ vm[s] # "up" /\ file.sb[s] = "none"
         /\ \A p \in Procs : loc[p].bs[s] = "none"
    /\ \A c \in Containers \ used :
         /\ ct[c].st = "none" /\ file.ct[c].st = "none"
         /\ \A p \in Procs : loc[p].bc[c].st = "none"
    /\ \A r \in Reqs :
         /\ loc[r].op \in {"run", "remove"} => loc[r].s \in used
         /\ loc[r].op = "create" => loc[r].c \in used

Booting(l) == l.pc \in {"boot", "add"}
Making(l)  == l.pc \in {"prepare", "addc"}

\* A pod that is being booted is known to nobody else, a container that is being
\* made neither.
Young ==
    /\ \A r \in Reqs : Booting(loc[r]) =>
         /\ sb[loc[r].s] = "none"
         /\ loc[r].pc = "boot" => vm[loc[r].s] # "up"
         /\ \A q \in Reqs \ {r} : loc[q].op \in {"run", "remove"} => loc[q].s # loc[r].s
    /\ \A r \in Reqs : Making(loc[r]) =>
         /\ ct[loc[r].c].st = "none"
         /\ \A q \in Reqs \ {r} : loc[q].op = "create" => loc[q].c # loc[r].c

\* RemovePodSandbox works on a pod that is not Ready, and has released its endpoint
\* before it removes anything.
Disconnected(l) == l.op = "remove" /\ Point(l) \in {"rmcts", "unmap", "rmdirs", "rmsb"}

Removal ==
    \A r \in Reqs :
      /\ loc[r].op = "remove" => sb[loc[r].s] # "Ready"
      /\ Disconnected(loc[r]) => loc[r].s \notin net

\* The requests that answer for a Ready pod, a VM, an endpoint or a rootfs.
ForPod(l)    == (l.op = "run" /\ Point(l) = "insert") \/ (l.op # "remove" /\ l.pc \in {"kill", "net"})
ForVm(l)     == (l.op = "run" /\ Point(l) \in {"add", "insert"}) \/ l.pc = "kill"
ForRootfs(l) == l.pc = "addc" \/ (l.op = "removec" /\ Point(l) = "undir")
ForPodDir(l) == l.op = "remove" /\ Point(l) \in {"unmap", "rmdirs"}

Serving ==
    phase = "serve" =>
      /\ \A s \in Sandboxes \ lost :
           /\ sb[s] = "Ready" => s \in mgr \/ \E r \in Reqs : loc[r].s = s /\ ForPod(loc[r])
           /\ vm[s] = "up" => s \in mgr \/ \E r \in Reqs : loc[r].s = s /\ ForVm(loc[r])
           /\ s \in net => sb[s] # "none" \/ \E r \in Reqs : loc[r].s = s /\ Booting(loc[r])
      /\ \A c \in rootfs :
           \/ ct[c].st # "none" \/ Pod[c] \in lost
           \/ \E r \in Reqs : \/ loc[r].c = c /\ ForRootfs(loc[r])
                              \/ loc[r].s = Pod[c] /\ ForPodDir(loc[r])

\* What is left of the last process is found through state.json.
Recovery ==
    /\ phase = "down" =>
         \A s \in Sandboxes \ lost : Leftovers(s, vm, net, rootfs) => file.sb[s] # "none"
    /\ phase = "load" =>
         \A s \in Sandboxes :
           /\ sb[s] = "Ready" => rec[s] = "mark"
           /\ s \notin lost =>
                /\ vm[s] = "up" \/ (\E c \in rootfs : Pod[c] = s) => rec[s] # "done"
                /\ s \in net => sb[s] # "none"

\* A workload slot is free, reserved by one start, or has a supervisor.
Slots ==
    /\ \A w \in Sups : wl[w].c = None => loc[w] = Idle /\ \A r \in Reqs : loc[r].w # w
    /\ \A r \in Reqs : loc[r].w # None =>
         /\ loc[loc[r].w] = Idle
         /\ \A q \in Reqs \ {r} : loc[q].w # loc[r].w

Inv == Shape /\ Phases /\ Minted /\ Young /\ Removal /\ Serving /\ Recovery /\ Slots
         /\ RegistriesBacked


-----------------------------------------------------------------------------
(* Processes                                                               *)

\* A slot without a process.
LEMMA IdleFacts ==
    /\ Idle \in Local /\ Idle.pc = "idle" /\ Idle.op = "none" /\ Idle.w = None
    /\ \A s \in Sandboxes : Idle.s # s /\ Idle.bs[s] = "none"
    /\ \A c \in Containers : Idle.c # c /\ Idle.bc[c].st = "none"
    /\ ~Active(Idle)
<1>1. NoSandboxes \in [Sandboxes -> SandboxState] /\ \A s \in Sandboxes : NoSandboxes[s] = "none"
    BY DEF NoSandboxes, SandboxState
<1>2. NoContainers \in [Containers -> Container] /\ \A c \in Containers : NoContainers[c].st = "none"
    BY DEF NoContainers, NoContainer, Container, Code
<1>3. Idle \in Local
    BY <1>1, <1>2 DEF Idle, Local, PC, Code
<1>4. ~Flow(Idle)
    BY DEF Flow, Idle
<1> QED  BY <1>1, <1>2, <1>3, <1>4, CriAssumption DEF Idle, Active

\* An idle slot is none of the things that the invariant looks for.
LEMMA IdleBits ==
    /\ ~Booting(Idle) /\ ~Making(Idle) /\ ~Disconnected(Idle)
    /\ ~ForPod(Idle) /\ ~ForVm(Idle) /\ ~ForRootfs(Idle) /\ ~ForPodDir(Idle)
  BY DEF Idle, Booting, Making, Disconnected, ForPod, ForVm, ForRootfs, ForPodDir, Point, Saving

\* A process that is somewhere is active, and the server serves.
LEMMA Somewhere ==
    ASSUME Inv, NEW p \in Procs, ~At(p, "idle")
    PROVE  /\ loc[p] # Idle /\ Active(loc[p]) /\ loc[p] \in Local /\ phase = "serve"
           /\ p \in Reqs <=> loc[p].op # "sup"
<1>1. loc[p] # Idle
    BY IdleFacts DEF At
<1>2. Active(loc[p]) /\ (p \in Reqs <=> loc[p].op # "sup")
    BY <1>1 DEF Inv, Shape, Procs
<1>3. phase = "serve"
    BY <1>1 DEF Inv, Phases
<1> QED  BY <1>1, <1>2, <1>3 DEF Active

\* Process p goes from loc[p] to m, and stays with its pod, container and operation.
StepOf(p, m) ==
    /\ loc' = [loc EXCEPT ![p] = m]
    /\ \/ m = Idle
       \/ Active(m) /\ m.op = loc[p].op /\ m.s = loc[p].s /\ m.c = loc[p].c

\* The locals after a step.
LEMMA StepLocals ==
    ASSUME Inv, NEW p \in Procs, NEW m, StepOf(p, m), loc[p] # Idle
    PROVE  /\ loc'[p] = m /\ m \in Local
           /\ \A q \in Procs : q # p => loc'[q] = loc[q]
           /\ loc' \in [Procs -> Local]
<1>1. loc \in [Procs -> Local]
    BY DEF Inv, Shape, TypeOK
<1>2. m \in Local
    BY IdleFacts DEF StepOf, Active
<1> QED  BY <1>1, <1>2 DEF StepOf

\* Shape, after a step of one process.
LEMMA ShapeKept ==
    ASSUME Inv, NEW p \in Procs, NEW m, StepOf(p, m), loc[p] # Idle, TypeOK'
    PROVE  Shape'
<1>1. /\ loc'[p] = m /\ \A q \in Procs : q # p => loc'[q] = loc[q]
    BY StepLocals
<1>2. Shape /\ Reqs \subseteq Procs /\ Sups \subseteq Procs
    BY DEF Inv, Procs
<1>3. m = Idle \/ (Active(m) /\ m.op = loc[p].op)
    BY DEF StepOf
<1>4. \A q \in Procs : loc'[q] = Idle \/ Active(loc'[q])
    BY <1>1, <1>2, <1>3 DEF Shape
<1>5. \A r \in Reqs : loc'[r].op # "sup"
    BY <1>1, <1>2, <1>3, IdleFacts DEF Shape
<1>6. \A w \in Sups : loc'[w] = Idle \/ loc'[w].op = "sup"
    BY <1>1, <1>2, <1>3 DEF Shape
<1> QED  BY <1>4, <1>5, <1>6 DEF Shape, Active, Flow, Through, Point

\* While the server serves there is little to say about its phases.
LEMMA PhasesKept ==
    ASSUME Inv, phase = "serve", UNCHANGED <<phase, rec>>
    PROVE  Phases' /\ Recovery'
  BY DEF Inv, Phases, Recovery

\* Minted, after a step that names no id that was not minted.
LEMMA MintedKept ==
    ASSUME Inv, NEW p \in Procs, NEW m, StepOf(p, m), loc[p] # Idle, UNCHANGED used,
           \A s \in Sandboxes \ used :
             sb'[s] = "none" /\ vm'[s] # "up" /\ file'.sb[s] = "none" /\ m.bs[s] = "none",
           \A c \in Containers \ used :
             ct'[c].st = "none" /\ file'.ct[c].st = "none" /\ m.bc[c].st = "none"
    PROVE  Minted'
<1>1. /\ loc'[p] = m /\ \A q \in Procs : q # p => loc'[q] = loc[q]
    BY StepLocals
<1>2. Minted /\ Reqs \subseteq Procs
    BY DEF Inv, Procs
<1>3. m = Idle \/ (m.op = loc[p].op /\ m.s = loc[p].s /\ m.c = loc[p].c)
    BY DEF StepOf
<1>4. \A s \in Sandboxes \ used : \A q \in Procs : loc'[q].bs[s] = "none"
    BY <1>1, <1>2 DEF Minted
<1>5. \A c \in Containers \ used : \A q \in Procs : loc'[q].bc[c].st = "none"
    BY <1>1, <1>2 DEF Minted
<1>6. \A r \in Reqs : /\ loc'[r].op \in {"run", "remove"} => loc'[r].s \in used
                      /\ loc'[r].op = "create" => loc'[r].c \in used
    BY <1>1, <1>2, <1>3, IdleFacts DEF Minted
<1> QED  BY <1>4, <1>5, <1>6 DEF Minted

\* Young, after a step: only the request that boots a pod or makes a container may
\* bring it into the stores.
LEMMA YoungKept ==
    ASSUME Inv, NEW p \in Procs, NEW m, StepOf(p, m), loc[p] # Idle,
           Booting(m) => Booting(loc[p]), m.pc = "boot" => loc[p].pc = "boot",
           Making(m) => Making(loc[p]),
           \A s \in Sandboxes : sb[s] = "none" =>
             sb'[s] = "none" \/ (p \in Reqs /\ loc[p].op = "run" /\ s = loc[p].s /\ ~Booting(m)),
           \A s \in Sandboxes : vm'[s] = "up" =>
             vm[s] = "up" \/ (p \in Reqs /\ loc[p].op = "run" /\ s = loc[p].s /\ m.pc # "boot"),
           \A c \in Containers : ct[c].st = "none" =>
             ct'[c].st = "none" \/ (p \in Reqs /\ loc[p].op = "create" /\ c = loc[p].c /\ ~Making(m))
    PROVE  Young'
<1>1. /\ loc'[p] = m /\ \A q \in Procs : q # p => loc'[q] = loc[q]
    BY StepLocals
<1>2. Young /\ Shape /\ Reqs \subseteq Procs
    BY DEF Inv, Procs
<1>3. m = Idle \/ (m.op = loc[p].op /\ m.s = loc[p].s /\ m.c = loc[p].c)
    BY DEF StepOf
<1>4. \A q \in Procs : loc'[q] = Idle \/ (loc'[q].op = loc[q].op /\ loc'[q].s = loc[q].s /\ loc'[q].c = loc[q].c)
    BY <1>1, <1>3
<1>5. \A q \in Procs : /\ Booting(loc'[q]) => Booting(loc[q]) /\ loc'[q] # Idle
                       /\ loc'[q].pc = "boot" => loc[q].pc = "boot"
                       /\ Making(loc'[q]) => Making(loc[q]) /\ loc'[q] # Idle
    BY <1>1, IdleBits
<1>6. ASSUME NEW r \in Reqs, Booting(loc'[r])
      PROVE  /\ sb'[loc'[r].s] = "none"
             /\ loc'[r].pc = "boot" => vm'[loc'[r].s] # "up"
             /\ \A q \in Reqs \ {r} : loc'[q].op \in {"run", "remove"} => loc'[q].s # loc'[r].s
  <2>1. PICK s : s = loc[r].s
      OBVIOUS
  <2>2. Booting(loc[r]) /\ loc'[r].s = s /\ loc'[r].op = loc[r].op
      BY <1>2, <1>4, <1>5, <1>6, <2>1
  <2>3. /\ sb[s] = "none" /\ (loc[r].pc = "boot" => vm[s] # "up")
        /\ \A q \in Reqs \ {r} : loc[q].op \in {"run", "remove"} => loc[q].s # s
      BY <2>1, <2>2, <1>2 DEF Young
  <2>4. s \in Sandboxes
      BY <1>2, <2>1, <2>2, IdleBits DEF Shape, Active
  <2>5. p # r => ~(p \in Reqs /\ loc[p].op = "run" /\ s = loc[p].s)
      BY <2>3
  <2>6. sb'[s] = "none"
      BY <1>1, <1>6, <2>3, <2>4, <2>5
  <2>7. loc'[r].pc = "boot" => vm'[s] # "up"
      BY <1>1, <1>5, <1>2, <2>3, <2>4, <2>5
  <2>8. ASSUME NEW q \in Reqs \ {r}, loc'[q].op \in {"run", "remove"}
        PROVE  loc'[q].s # s
      BY <1>2, <1>4, <2>3, <2>8, IdleFacts
  <2> QED  BY <2>2, <2>6, <2>7, <2>8
<1>7. ASSUME NEW r \in Reqs, Making(loc'[r])
      PROVE  /\ ct'[loc'[r].c].st = "none"
             /\ \A q \in Reqs \ {r} : loc'[q].op = "create" => loc'[q].c # loc'[r].c
  <2>1. PICK c : c = loc[r].c
      OBVIOUS
  <2>2. Making(loc[r]) /\ loc'[r].c = c
      BY <1>2, <1>4, <1>5, <1>7, <2>1
  <2>3. /\ ct[c].st = "none"
        /\ \A q \in Reqs \ {r} : loc[q].op = "create" => loc[q].c # c
      BY <2>1, <2>2, <1>2 DEF Young
  <2>4. c \in Containers
    <3>1. Active(loc[r])
        BY <1>2, <2>2, IdleBits DEF Shape
    <3> QED  BY <2>1, <2>2, <3>1 DEF Active, Making, Flow, Through, OnContainer, Saving, StopPlaces
  <2>5. p # r => ~(p \in Reqs /\ loc[p].op = "create" /\ c = loc[p].c)
      BY <2>3
  <2>6. ct'[c].st = "none"
      BY <1>1, <1>7, <2>3, <2>4, <2>5
  <2>7. ASSUME NEW q \in Reqs \ {r}, loc'[q].op = "create"
        PROVE  loc'[q].c # c
      BY <1>2, <1>4, <2>3, <2>7, IdleFacts
  <2> QED  BY <2>2, <2>6, <2>7
<1> QED  BY <1>6, <1>7 DEF Young, Booting, Making


\* Removal, after a step: no pod becomes Ready but one that is being booted, and no
\* endpoint appears.
LEMMA RemovalKept ==
    ASSUME Inv, NEW p \in Procs, NEW m, StepOf(p, m), loc[p] # Idle,
           \A s \in Sandboxes : sb'[s] = "Ready" =>
             sb[s] = "Ready" \/ (p \in Reqs /\ Booting(loc[p]) /\ loc[p].op = "run" /\ s = loc[p].s),
           net' \subseteq net,
           Disconnected(m) => Disconnected(loc[p]) \/ m.s \notin net'
    PROVE  Removal'
<1>1. /\ loc'[p] = m /\ \A q \in Procs : q # p => loc'[q] = loc[q]
    BY StepLocals
<1>2. Young /\ Removal /\ Shape /\ Reqs \subseteq Procs
    BY DEF Inv, Procs
<1>3. m = Idle \/ (m.op = loc[p].op /\ m.s = loc[p].s /\ m.c = loc[p].c)
    BY DEF StepOf
<1>4. ASSUME NEW r \in Reqs, loc'[r].op = "remove"
      PROVE  sb'[loc'[r].s] # "Ready"
  <2>1. PICK s : s = loc[r].s
      OBVIOUS
  <2>2. loc[r].op = "remove" /\ loc'[r].s = s
      BY <1>1, <1>2, <1>3, <1>4, <2>1, IdleFacts
  <2>3. s \in Sandboxes
      BY <1>2, <2>1, <2>2, IdleFacts DEF Shape, Active
  <2>4. sb[s] # "Ready"
      BY <1>2, <2>1, <2>2 DEF Removal
  <2>5. ~(p \in Reqs /\ Booting(loc[p]) /\ loc[p].op = "run" /\ s = loc[p].s)
      BY <1>2, <2>1, <2>2 DEF Young
  <2> QED  BY <2>2, <2>3, <2>4, <2>5
<1>5. ASSUME NEW r \in Reqs, Disconnected(loc'[r])
      PROVE  loc'[r].s \notin net'
    BY <1>1, <1>2, <1>3, <1>5, IdleBits DEF Removal
<1> QED  BY <1>4, <1>5 DEF Removal, Disconnected, Point

\* A Ready pod keeps its manager or the request that answers for it.
LEMMA PodKept ==
    ASSUME Inv, NEW p \in Procs, NEW m, StepOf(p, m), loc[p] # Idle, phase = "serve",
           NEW s \in Sandboxes \ lost,
           sb'[s] = "Ready" =>
             \/ s \in mgr' \/ (p \in Reqs /\ m.s = s /\ ForPod(m))
             \/ /\ sb[s] = "Ready" /\ s \notin mgr
                /\ ~(loc[p].s = s /\ ForPod(loc[p]))
    PROVE  sb'[s] = "Ready" => s \in mgr' \/ \E r \in Reqs : loc'[r].s = s /\ ForPod(loc'[r])
<1>1. /\ loc'[p] = m /\ \A q \in Procs : q # p => loc'[q] = loc[q]
    BY StepLocals
<1>2. Serving /\ Reqs \subseteq Procs
    BY DEF Inv, Procs
<1>3. CASE s \in mgr' \/ (p \in Reqs /\ m.s = s /\ ForPod(m))
    BY <1>1, <1>3
<1>4. CASE sb[s] = "Ready" /\ s \notin mgr /\ ~(loc[p].s = s /\ ForPod(loc[p]))
  <2>1. PICK r \in Reqs : loc[r].s = s /\ ForPod(loc[r])
      BY <1>2, <1>4 DEF Serving
  <2>2. loc'[r] = loc[r]
      BY <1>1, <1>2, <1>4, <2>1
  <2> QED  BY <2>1, <2>2
<1> QED  BY <1>3, <1>4

\* A VM keeps its manager or the request that answers for it.
LEMMA VmKept ==
    ASSUME Inv, NEW p \in Procs, NEW m, StepOf(p, m), loc[p] # Idle, phase = "serve",
           NEW s \in Sandboxes \ lost,
           vm'[s] = "up" =>
             \/ s \in mgr' \/ (p \in Reqs /\ m.s = s /\ ForVm(m))
             \/ /\ vm[s] = "up" /\ s \notin mgr
                /\ ~(loc[p].s = s /\ ForVm(loc[p]))
    PROVE  vm'[s] = "up" => s \in mgr' \/ \E r \in Reqs : loc'[r].s = s /\ ForVm(loc'[r])
<1>1. /\ loc'[p] = m /\ \A q \in Procs : q # p => loc'[q] = loc[q]
    BY StepLocals
<1>2. Serving /\ Reqs \subseteq Procs
    BY DEF Inv, Procs
<1>3. CASE s \in mgr' \/ (p \in Reqs /\ m.s = s /\ ForVm(m))
    BY <1>1, <1>3
<1>4. CASE vm[s] = "up" /\ s \notin mgr /\ ~(loc[p].s = s /\ ForVm(loc[p]))
  <2>1. PICK r \in Reqs : loc[r].s = s /\ ForVm(loc[r])
      BY <1>2, <1>4 DEF Serving
  <2>2. loc'[r] = loc[r]
      BY <1>1, <1>2, <1>4, <2>1
  <2> QED  BY <2>1, <2>2
<1> QED  BY <1>3, <1>4

\* An endpoint keeps its record or the request that boots its pod.
LEMMA NetKept ==
    ASSUME Inv, NEW p \in Procs, NEW m, StepOf(p, m), loc[p] # Idle, phase = "serve",
           NEW s \in Sandboxes \ lost,
           s \in net' =>
             \/ sb'[s] # "none" \/ (p \in Reqs /\ m.s = s /\ Booting(m))
             \/ /\ s \in net /\ sb[s] = "none"
                /\ ~(loc[p].s = s /\ Booting(loc[p]))
    PROVE  s \in net' => sb'[s] # "none" \/ \E r \in Reqs : loc'[r].s = s /\ Booting(loc'[r])
<1>1. /\ loc'[p] = m /\ \A q \in Procs : q # p => loc'[q] = loc[q]
    BY StepLocals
<1>2. Serving /\ Reqs \subseteq Procs
    BY DEF Inv, Procs
<1>3. CASE sb'[s] # "none" \/ (p \in Reqs /\ m.s = s /\ Booting(m))
    BY <1>1, <1>3
<1>4. CASE s \in net /\ sb[s] = "none" /\ ~(loc[p].s = s /\ Booting(loc[p]))
  <2>1. PICK r \in Reqs : loc[r].s = s /\ Booting(loc[r])
      BY <1>2, <1>4 DEF Serving
  <2>2. loc'[r] = loc[r]
      BY <1>1, <1>2, <1>4, <2>1
  <2> QED  BY <2>1, <2>2
<1> QED  BY <1>3, <1>4

\* A rootfs keeps its container or the request that answers for it.
LEMMA RootfsKept ==
    ASSUME Inv, NEW p \in Procs, NEW m, StepOf(p, m), loc[p] # Idle, phase = "serve",
           NEW c \in rootfs', lost \subseteq lost',
           \/ ct'[c].st # "none"
           \/ p \in Reqs /\ ((m.c = c /\ ForRootfs(m)) \/ (m.s = Pod[c] /\ ForPodDir(m)))
           \/ /\ c \in rootfs /\ ct[c].st = "none"
              /\ ~(loc[p].c = c /\ ForRootfs(loc[p])) /\ ~(loc[p].s = Pod[c] /\ ForPodDir(loc[p]))
    PROVE  \/ ct'[c].st # "none" \/ Pod[c] \in lost'
           \/ \E r \in Reqs : \/ loc'[r].c = c /\ ForRootfs(loc'[r])
                              \/ loc'[r].s = Pod[c] /\ ForPodDir(loc'[r])
<1>1. /\ loc'[p] = m /\ \A q \in Procs : q # p => loc'[q] = loc[q]
    BY StepLocals
<1>2. Serving /\ Reqs \subseteq Procs
    BY DEF Inv, Procs
<1>3. CASE \/ ct'[c].st # "none"
           \/ p \in Reqs /\ ((m.c = c /\ ForRootfs(m)) \/ (m.s = Pod[c] /\ ForPodDir(m)))
    BY <1>1, <1>3
<1>4. CASE /\ c \in rootfs /\ ct[c].st = "none"
           /\ ~(loc[p].c = c /\ ForRootfs(loc[p])) /\ ~(loc[p].s = Pod[c] /\ ForPodDir(loc[p]))
  <2>1. \/ Pod[c] \in lost
        \/ \E r \in Reqs : \/ loc[r].c = c /\ ForRootfs(loc[r])
                           \/ loc[r].s = Pod[c] /\ ForPodDir(loc[r])
      BY <1>2, <1>4 DEF Serving
  <2>2. CASE Pod[c] \in lost
      BY <2>2
  <2>3. CASE \E r \in Reqs : \/ loc[r].c = c /\ ForRootfs(loc[r])
                             \/ loc[r].s = Pod[c] /\ ForPodDir(loc[r])
    <3>1. PICK r \in Reqs : \/ loc[r].c = c /\ ForRootfs(loc[r])
                            \/ loc[r].s = Pod[c] /\ ForPodDir(loc[r])
        BY <2>3
    <3>2. loc'[r] = loc[r]
        BY <1>1, <1>2, <1>4, <3>1
    <3> QED  BY <3>1, <3>2
  <2> QED  BY <2>1, <2>2, <2>3
<1> QED  BY <1>3, <1>4

\* The slots of the workloads, after a step that takes and frees none.
LEMMA SlotsKept ==
    ASSUME Inv, NEW p \in Procs, NEW m, StepOf(p, m), loc[p] # Idle,
           m.w \in {loc[p].w, None}, \A w \in Sups : wl'[w].c = wl[w].c
    PROVE  Slots'
<1>1. /\ loc'[p] = m /\ \A q \in Procs : q # p => loc'[q] = loc[q]
    BY StepLocals
<1>2. Slots /\ Shape /\ Reqs \subseteq Procs /\ Sups \subseteq Procs /\ None \notin Sups
    BY CriAssumption DEF Inv, Procs
<1>3. \A r \in Reqs : loc'[r].w \in {loc[r].w, None}
    BY <1>1, <1>2
<1>4. \A r \in Reqs : loc[r].w \in Sups \cup {None}
    BY <1>2 DEF Shape, TypeOK, Local
<1>5. ASSUME NEW w \in Sups, wl'[w].c = None
      PROVE  loc'[w] = Idle /\ \A r \in Reqs : loc'[r].w # w
  <2>1. loc[w] = Idle /\ \A r \in Reqs : loc[r].w # w
      BY <1>2, <1>5 DEF Slots
  <2> QED  BY <1>1, <1>2, <1>3, <2>1
<1>6. ASSUME NEW r \in Reqs, loc'[r].w # None
      PROVE  loc'[loc'[r].w] = Idle /\ \A q \in Reqs \ {r} : loc'[q].w # loc'[r].w
  <2>1. PICK w : w = loc[r].w
      OBVIOUS
  <2>2. loc'[r].w = w /\ w \in Sups
      BY <1>3, <1>4, <1>6, <2>1
  <2>3. loc[w] = Idle /\ \A q \in Reqs \ {r} : loc[q].w # w
      BY <1>2, <2>1, <2>2 DEF Slots
  <2> QED  BY <1>1, <1>2, <1>3, <2>2, <2>3
<1> QED  BY <1>5, <1>6 DEF Slots

\* The registries, after a step that adds no entry and ends no supervisor.
LEMMA RegistriesKept ==
    ASSUME Inv, NEW p \in Procs, NEW m, StepOf(p, m), loc[p] # Idle,
           loc[p].pc # "spawn", loc[p].op = "sup" => m # Idle,
           stops' \subseteq stops, streams' \subseteq streams
    PROVE  RegistriesBacked'
<1>1. /\ loc'[p] = m /\ \A q \in Procs : q # p => loc'[q] = loc[q]
    BY StepLocals
<1>2. RegistriesBacked /\ Reqs \subseteq Procs /\ Sups \subseteq Procs
    BY DEF Inv, Procs
<1>3. m = Idle \/ (m.op = loc[p].op /\ m.c = loc[p].c)
    BY DEF StepOf
<1> SUFFICES ASSUME NEW c \in stops' \cup streams'
             PROVE  \/ \E w \in Sups : loc'[w].op = "sup" /\ loc'[w].c = c
                    \/ \E r \in Reqs : loc'[r].op = "start" /\ loc'[r].c = c /\ loc'[r].pc = "spawn"
    BY DEF RegistriesBacked, At
<1>4. \/ \E w \in Sups : loc[w].op = "sup" /\ loc[w].c = c
      \/ \E r \in Reqs : loc[r].op = "start" /\ loc[r].c = c /\ loc[r].pc = "spawn"
    BY <1>2 DEF RegistriesBacked, At
<1>5. CASE \E w \in Sups : loc[w].op = "sup" /\ loc[w].c = c
    BY <1>1, <1>2, <1>3, <1>5
<1>6. CASE \E r \in Reqs : loc[r].op = "start" /\ loc[r].c = c /\ loc[r].pc = "spawn"
    BY <1>1, <1>2, <1>6
<1> QED  BY <1>4, <1>5, <1>6


\* A step from l to m that changes nothing a request answers for, and one that also
\* leaves the workload slots and the registries' owners alone.
Mild(l, m) ==
    /\ m = Idle \/ (Active(m) /\ m.op = l.op /\ m.s = l.s /\ m.c = l.c)
    /\ ~Booting(l) /\ ~Booting(m) /\ ~Making(l) /\ ~Making(m)
    /\ (ForPod(l) => ForPod(m)) /\ (ForVm(l) => ForVm(m))
    /\ (ForRootfs(l) => ForRootfs(m)) /\ (ForPodDir(l) => ForPodDir(m))
    /\ Disconnected(m) => Disconnected(l)

Tame(l, m) ==
    Mild(l, m) /\ m.w \in {l.w, None} /\ l.pc # "spawn" /\ (l.op = "sup" => m # Idle)

\* Serving, from the four claims.
LEMMA ServingKept ==
    ASSUME \A s \in Sandboxes \ lost' :
             /\ sb'[s] = "Ready" => s \in mgr' \/ \E r \in Reqs : loc'[r].s = s /\ ForPod(loc'[r])
             /\ vm'[s] = "up" => s \in mgr' \/ \E r \in Reqs : loc'[r].s = s /\ ForVm(loc'[r])
             /\ s \in net' => sb'[s] # "none" \/ \E r \in Reqs : loc'[r].s = s /\ Booting(loc'[r]),
           \A c \in rootfs' :
             \/ ct'[c].st # "none" \/ Pod[c] \in lost'
             \/ \E r \in Reqs : \/ loc'[r].c = c /\ ForRootfs(loc'[r])
                                \/ loc'[r].s = Pod[c] /\ ForPodDir(loc'[r])
    PROVE  Serving'
  BY DEF Serving, ForPod, ForVm, Booting, ForRootfs, ForPodDir, Point

\* A mild step that leaves pods, VMs, endpoints and directories alone.
LEMMA MildMost ==
    ASSUME Inv, NEW p \in Procs, NEW m, loc' = [loc EXCEPT ![p] = m], loc[p] # Idle,
           Mild(loc[p], m), TypeOK',
           UNCHANGED <<phase, rec, sb, vm, mgr, net, rootfs, used, lost>>,
           \A c \in Containers : ct'[c].st = "none" <=> ct[c].st = "none",
           \A s \in Sandboxes \ used : file'.sb[s] = "none" /\ m.bs[s] = "none",
           \A c \in Containers \ used : file'.ct[c].st = "none" /\ m.bc[c].st = "none"
    PROVE  /\ StepOf(p, m) /\ Shape' /\ Phases' /\ Recovery' /\ Minted' /\ Young'
           /\ Removal' /\ Serving'
<1>1. StepOf(p, m)
    BY DEF StepOf, Mild
<1>2. phase = "serve" /\ Minted /\ Serving /\ rootfs \subseteq Containers
    BY DEF Inv, Phases, Shape, TypeOK
<1>3. p \in Reqs \/ ~(ForPod(m) \/ ForVm(m) \/ ForRootfs(m) \/ ForPodDir(m))
  <2>1. CASE p \notin Reqs /\ m # Idle
    <3>1. loc[p].op = "sup" /\ m.op = "sup" /\ Active(m)
        BY <2>1 DEF Inv, Shape, Procs, Mild
    <3> QED  BY <3>1 DEF Active, Flow, Through, ForPod, ForVm, ForRootfs, ForPodDir, Saving, Point
  <2> QED  BY <2>1, IdleBits
<1>4. Shape'
    BY <1>1, ShapeKept
<1>5. Phases' /\ Recovery'
    BY <1>2, PhasesKept
<1>6. Minted'
  <2>1. \A s \in Sandboxes \ used :
          sb'[s] = "none" /\ vm'[s] # "up" /\ file'.sb[s] = "none" /\ m.bs[s] = "none"
      BY <1>2 DEF Minted
  <2>2. \A c \in Containers \ used :
          ct'[c].st = "none" /\ file'.ct[c].st = "none" /\ m.bc[c].st = "none"
      BY <1>2 DEF Minted
  <2> QED  BY <1>1, <2>1, <2>2, MintedKept
<1>7. Young'
  <2>1. Booting(m) => Booting(loc[p])
      BY DEF Mild
  <2>2. m.pc = "boot" => loc[p].pc = "boot"
      BY DEF Mild, Booting
  <2>3. Making(m) => Making(loc[p])
      BY DEF Mild
  <2> QED  BY <1>1, <2>1, <2>2, <2>3, YoungKept
<1>8. Removal'
  <2>1. Disconnected(m) => Disconnected(loc[p])
      BY DEF Mild
  <2> QED  BY <1>1, <2>1, RemovalKept
<1>9. Serving'
  <2>0. m = Idle \/ (m.s = loc[p].s /\ m.c = loc[p].c)
      BY DEF Mild
  <2>1. ASSUME NEW s \in Sandboxes \ lost
        PROVE  sb'[s] = "Ready" => s \in mgr' \/ \E r \in Reqs : loc'[r].s = s /\ ForPod(loc'[r])
    <3>1. ForPod(loc[p]) => p \in Reqs /\ m.s = loc[p].s /\ ForPod(m)
        BY <1>3, <2>0, IdleBits DEF Mild
    <3> QED  BY <1>1, <1>2, <3>1, PodKept
  <2>2. ASSUME NEW s \in Sandboxes \ lost
        PROVE  vm'[s] = "up" => s \in mgr' \/ \E r \in Reqs : loc'[r].s = s /\ ForVm(loc'[r])
    <3>1. ForVm(loc[p]) => p \in Reqs /\ m.s = loc[p].s /\ ForVm(m)
        BY <1>3, <2>0, IdleBits DEF Mild
    <3> QED  BY <1>1, <1>2, <3>1, VmKept
  <2>3. ASSUME NEW s \in Sandboxes \ lost
        PROVE  s \in net' => sb'[s] # "none" \/ \E r \in Reqs : loc'[r].s = s /\ Booting(loc'[r])
    <3>1. ~Booting(loc[p])
        BY DEF Mild
    <3> QED  BY <1>1, <1>2, <3>1, NetKept
  <2>4. ASSUME NEW c \in rootfs'
        PROVE  \/ ct'[c].st # "none" \/ Pod[c] \in lost'
               \/ \E r \in Reqs : \/ loc'[r].c = c /\ ForRootfs(loc'[r])
                                  \/ loc'[r].s = Pod[c] /\ ForPodDir(loc'[r])
    <3>1. ForRootfs(loc[p]) => p \in Reqs /\ m.c = loc[p].c /\ ForRootfs(m)
        BY <1>3, <2>0, IdleBits DEF Mild
    <3>2. ForPodDir(loc[p]) => p \in Reqs /\ m.s = loc[p].s /\ ForPodDir(m)
        BY <1>3, <2>0, IdleBits DEF Mild
    <3>3. c \in rootfs /\ (ct'[c].st = "none" => ct[c].st = "none")
        BY <1>2
    <3> QED  BY <1>1, <1>2, <3>1, <3>2, <3>3, RootfsKept
  <2> QED  BY <2>1, <2>2, <2>3, <2>4, ServingKept
<1> QED  BY <1>1, <1>4, <1>5, <1>6, <1>7, <1>8, <1>9

\* A tame step that leaves pods, VMs, endpoints and directories alone.
LEMMA TameInv ==
    ASSUME Inv, NEW p \in Procs, NEW m, loc' = [loc EXCEPT ![p] = m], loc[p] # Idle,
           Tame(loc[p], m), TypeOK',
           UNCHANGED <<phase, rec, sb, vm, mgr, net, rootfs, used, lost>>,
           \A c \in Containers : ct'[c].st = "none" <=> ct[c].st = "none",
           \A s \in Sandboxes \ used : file'.sb[s] = "none" /\ m.bs[s] = "none",
           \A c \in Containers \ used : file'.ct[c].st = "none" /\ m.bc[c].st = "none",
           \A w \in Sups : wl'[w].c = wl[w].c,
           stops' \subseteq stops, streams' \subseteq streams
    PROVE  Inv'
<1>1. Mild(loc[p], m)
    BY DEF Tame
<1>2. /\ StepOf(p, m) /\ Shape' /\ Phases' /\ Recovery' /\ Minted' /\ Young'
      /\ Removal' /\ Serving'
    BY <1>1, MildMost
<1>3. Slots'
    BY <1>2, SlotsKept DEF Tame
<1>4. RegistriesBacked'
    BY <1>2, RegistriesKept DEF Tame
<1> QED  BY <1>2, <1>3, <1>4 DEF Inv

-----------------------------------------------------------------------------
(* Tame steps                                                              *)

\* The places at which a request answers for nothing.
Plain == {"launch", "started", "exec", "stopread", "mark0", "signalc", "waitc", "fallback",
          "mark137", "unmapc", "signal", "mark", "watch"}

\* The fields of a local that say whose it is.
Same(l, m) == m \in Local /\ m.op = l.op /\ m.s = l.s /\ m.c = l.c /\ m.w = l.w

\* Steps from a plain place are tame.
LEMMA PlainTame ==
    ASSUME NEW l, Active(l), l.pc \in Plain, NEW m,
           \/ m = Idle /\ l.op # "sup"
           \/ Same(l, m) /\ Flow(m) /\ Point(l) # "launch" /\ Point(m) # "launch"
    PROVE  Tame(l, m)
<1>1. l.pc \notin Saving /\ Point(l) = l.pc
    BY DEF Plain, Saving, Point
<1>2. l.op \notin {"run", "create", "remove"} /\ l.pc # "spawn"
    BY <1>1 DEF Active, Flow, Through, Plain
<1>3. ~Booting(l) /\ ~Making(l) /\ ~ForPod(l) /\ ~ForVm(l) /\ ~ForRootfs(l) /\ ~ForPodDir(l)
    BY <1>1, <1>2 DEF Booting, Making, ForPod, ForVm, ForRootfs, ForPodDir, Plain
<1>4. CASE m = Idle /\ l.op # "sup"
    BY <1>2, <1>3, <1>4, IdleFacts, IdleBits DEF Tame, Mild
<1>5. CASE Same(l, m) /\ Flow(m) /\ Point(l) # "launch" /\ Point(m) # "launch"
  <2>1. Active(m)
      BY <1>5 DEF Active, Same
  <2>2. ~Booting(m) /\ ~Making(m) /\ ~Disconnected(m)
      BY <1>2, <1>5 DEF Same, Flow, Through, Booting, Making, Disconnected, Saving, StopPlaces
  <2>3. m # Idle
      BY <2>1, IdleFacts
  <2> QED  BY <1>2, <1>3, <1>5, <2>1, <2>2, <2>3 DEF Tame, Mild, Same
<1> QED  BY <1>4, <1>5

\* A tame step that may also mark containers and change registries and workloads.
LEMMA MoveInv ==
    ASSUME Inv, NEW p \in Procs, NEW m, loc' = [loc EXCEPT ![p] = m], loc[p] # Idle,
           Tame(loc[p], m),
           m.bs = loc[p].bs \/ m.bs = NoSandboxes \/ m.bs = sb,
           m.bc = loc[p].bc \/ m.bc = NoContainers \/ m.bc = ct,
           UNCHANGED <<phase, rec, sb, file, vm, mgr, net, rootfs, used, count, lost>>,
           ct' \in [Containers -> Container],
           \A c \in Containers : ct'[c].st = "none" <=> ct[c].st = "none",
           wl' \in [Sups -> Workload], \A w \in Sups : wl'[w].c = wl[w].c,
           stops' \subseteq stops, streams' \subseteq streams
    PROVE  Inv'
<1>1. TypeOK /\ Minted
    BY DEF Inv, Shape
<1>2. m \in Local
    BY IdleFacts DEF Tame, Mild, Active
<1>3. TypeOK'
    BY <1>1, <1>2 DEF TypeOK
<1>4. \A s \in Sandboxes \ used : file'.sb[s] = "none" /\ m.bs[s] = "none"
    BY <1>1 DEF Minted, NoSandboxes
<1>5. \A c \in Containers \ used : file'.ct[c].st = "none" /\ m.bc[c].st = "none"
    BY <1>1 DEF Minted, NoContainers, NoContainer
<1> QED  BY <1>3, <1>4, <1>5, TameInv

\* Where Continue leads.
LEMMA ContinueFacts ==
    ASSUME NEW l \in Local, NEW next \in PC
    PROVE  /\ next = "idle" => Continue(l, next) = Idle
           /\ next # "idle" =>
                /\ Same(l, Continue(l, next)) /\ Continue(l, next).pc = next
                /\ Continue(l, next).bs = NoSandboxes /\ Continue(l, next).bc = NoContainers
<1>1. NoSandboxes \in [Sandboxes -> SandboxState] /\ NoContainers \in [Containers -> Container]
    BY DEF NoSandboxes, SandboxState, NoContainers, NoContainer, Container, Code
<1>2. "idle" \in PC
    BY DEF PC
<1> QED  BY <1>1, <1>2 DEF Continue, Same, Local

\* persist: both stores are listed and the file is written.
LEMMA PersistInv ==
    ASSUME Inv, NEW p \in Procs, PersistStep(p)
    PROVE  Inv'
<1>1. PICK l : l = loc[p]
    OBVIOUS
<1>2. l.pc \in Saving /\ ~At(p, "idle")
    BY <1>1 DEF PersistStep, persist_sandboxes, persist_containers, persist_save, At, Saving
<1>3. loc[p] # Idle /\ Active(l) /\ l \in Local
    BY <1>1, <1>2, Somewhere
<1>4. TypeOK /\ Minted
    BY DEF Inv, Shape
<1>5. ~Booting(l) /\ ~Making(l) /\ l.pc # "spawn"
    BY <1>2 DEF Booting, Making, Saving
<1>6. CASE persist_sandboxes(p) \/ persist_containers(p)
  <2>0. /\ \/ loc' = [loc EXCEPT ![p].pc = "list2", ![p].bs = sb]
           \/ loc' = [loc EXCEPT ![p].pc = "save", ![p].bc = ct]
        /\ UNCHANGED <<phase, rec, sb, ct, file, vm, mgr, net, rootfs, stops, streams, wl, used, count, lost>>
      BY <1>6 DEF persist_sandboxes, persist_containers, store, maps
  <2>1. PICK m : /\ loc' = [loc EXCEPT ![p] = m]
                 /\ m \in {[l EXCEPT !.pc = "list2", !.bs = sb], [l EXCEPT !.pc = "save", !.bc = ct]}
    <3>1. CASE loc' = [loc EXCEPT ![p].pc = "list2", ![p].bs = sb]
      <4>1. loc' = [loc EXCEPT ![p] = [l EXCEPT !.pc = "list2", !.bs = sb]]
          BY <1>1, <3>1
      <4> QED  BY <4>1
    <3>2. CASE loc' = [loc EXCEPT ![p].pc = "save", ![p].bc = ct]
      <4>1. loc' = [loc EXCEPT ![p] = [l EXCEPT !.pc = "save", !.bc = ct]]
          BY <1>1, <3>2
      <4> QED  BY <4>1
    <3> QED  BY <2>0, <3>1, <3>2
  <2>2. /\ Same(l, m) /\ m.pc \in Saving /\ m.ret = l.ret
        /\ m.bs = l.bs \/ m.bs = sb
        /\ m.bc = l.bc \/ m.bc = ct
    <3>1. sb \in [Sandboxes -> SandboxState] /\ ct \in [Containers -> Container]
        BY <1>4 DEF TypeOK
    <3>2. CASE m = [l EXCEPT !.pc = "list2", !.bs = sb]
        BY <1>3, <3>1, <3>2 DEF Local, Same, Saving, PC
    <3>3. CASE m = [l EXCEPT !.pc = "save", !.bc = ct]
        BY <1>3, <3>1, <3>3 DEF Local, Same, Saving, PC
    <3> QED  BY <2>1, <3>2, <3>3
  <2>3. Point(m) = Point(l) /\ m.pc \in Saving
      BY <1>2, <2>2 DEF Point
  <2>4. Flow(m)
      BY <1>2, <1>3, <2>2 DEF Active, Flow, Through, Same
  <2>5. Active(m) /\ m # Idle
      BY <1>3, <2>2, <2>3, <2>4, IdleFacts DEF Active, Same
  <2>6. Tame(l, m)
      BY <1>2, <1>5, <2>2, <2>3, <2>5
         DEF Tame, Mild, Same, Booting, Making, ForPod, ForVm, ForRootfs, ForPodDir, Disconnected, Saving
  <2>7. wl' \in [Sups -> Workload] /\ ct' \in [Containers -> Container]
      BY <1>4, <2>0 DEF TypeOK
  <2>8. stops' \subseteq stops /\ streams' \subseteq streams /\ \A w \in Sups : wl'[w].c = wl[w].c
      BY <2>0
  <2> QED  BY <1>1, <1>3, <2>0, <2>1, <2>2, <2>6, <2>7, <2>8, MoveInv
<1>7. CASE persist_save(p)
  <2>1. PICK m : m = Continue(l, l.ret)
      OBVIOUS
  <2>2. /\ l.pc = "save" /\ l.ret \in PC
        /\ loc' = [loc EXCEPT ![p] = m] /\ file' = [sb |-> l.bs, ct |-> l.bc]
        /\ UNCHANGED <<phase, rec, sb, ct, vm, mgr, net, rootfs, stops, streams, wl, used, count, lost>>
      BY <1>1, <1>3, <1>7, <2>1 DEF persist_save, At, store, maps, Local
  <2>3. /\ l.ret = "idle" => m = Idle
        /\ l.ret # "idle" => Same(l, m) /\ m.pc = l.ret /\ m.bs = NoSandboxes /\ m.bc = NoContainers
      BY <1>3, <2>1, <2>2, ContinueFacts
  <2>4. Point(l) = l.ret
      BY <1>2 DEF Point
  <2>5. Tame(l, m)
    <3>1. CASE l.ret = "idle"
      <4>1. l.op # "sup" /\ ~ForPod(l) /\ ~ForVm(l) /\ ~ForRootfs(l) /\ ~ForPodDir(l)
          BY <1>2, <1>3, <2>4, <3>1
             DEF Active, Flow, Through, StopReturns, ForPod, ForVm, ForRootfs, ForPodDir, Saving
      <4> QED  BY <1>5, <2>3, <3>1, <4>1, IdleFacts, IdleBits DEF Tame, Mild
    <3>2. CASE l.ret # "idle"
      <4>1. Flow(m) /\ m.pc \notin Saving
          BY <1>2, <1>3, <2>3, <3>2 DEF Active, Flow, Through, Same, Saving, StopReturns, StopPlaces
      <4>2. Point(m) = Point(l)
          BY <2>3, <2>4, <3>2, <4>1 DEF Point
      <4>3. Active(m) /\ m # Idle
          BY <1>3, <2>3, <3>2, <4>1, <4>2, IdleFacts DEF Active, Same
      <4>4. ~Booting(m) /\ ~Making(m)
          BY <1>2, <1>3, <2>3, <3>2 DEF Active, Flow, Through, StopReturns, Booting, Making
      <4> QED  BY <1>2, <1>5, <2>3, <3>2, <4>1, <4>2, <4>3, <4>4
                  DEF Tame, Mild, Same, ForPod, ForVm, ForRootfs, ForPodDir, Disconnected, Saving
    <3> QED  BY <3>1, <3>2
  <2>6. m.bs = NoSandboxes /\ m.bc = NoContainers
      BY <2>3 DEF Idle
  <2>7. \A s \in Sandboxes \ used : file'.sb[s] = "none" /\ m.bs[s] = "none"
      BY <1>1, <1>4, <2>2, <2>6 DEF Minted, NoSandboxes
  <2>8. \A c \in Containers \ used : file'.ct[c].st = "none" /\ m.bc[c].st = "none"
      BY <1>1, <1>4, <2>2, <2>6 DEF Minted, NoContainers, NoContainer
  <2>9. TypeOK'
    <3>1. m \in Local
        BY <2>5, IdleFacts DEF Tame, Mild, Active
    <3>2. file' \in [sb : [Sandboxes -> SandboxState], ct : [Containers -> Container]]
        BY <1>3, <2>2 DEF Local
    <3> QED  BY <1>4, <2>2, <3>1, <3>2 DEF TypeOK
  <2> QED  BY <1>1, <1>3, <2>2, <2>5, <2>7, <2>8, <2>9, TameInv
<1> QED  BY <1>6, <1>7 DEF PersistStep


\* What taking, sending or dropping a stop channel leaves alone.
LEMMA ChannelFacts ==
    ASSUME Inv, \/ \E C \in SUBSET Containers : Unregister(C)
                \/ \E c \in Containers : Send(c) /\ UNCHANGED streams
                \/ UNCHANGED <<stops, streams, wl>>
    PROVE  /\ wl' \in [Sups -> Workload] /\ \A w \in Sups : wl'[w].c = wl[w].c
           /\ stops' \subseteq stops /\ streams' \subseteq streams
<1>1. wl \in [Sups -> Workload]
    BY DEF Inv, Shape, TypeOK
<1>2. ASSUME NEW w \in Sups, NEW x \in {"dropped", "sent"}
      PROVE  [wl[w] EXCEPT !.stop = x] \in Workload /\ [wl[w] EXCEPT !.stop = x].c = wl[w].c
    BY <1>1 DEF Workload
<1>3. CASE UNCHANGED <<stops, streams, wl>>
    BY <1>1, <1>3
<1>4. ASSUME NEW C \in SUBSET Containers, Unregister(C)
      PROVE  /\ wl' \in [Sups -> Workload] /\ \A w \in Sups : wl'[w].c = wl[w].c
             /\ stops' \subseteq stops /\ streams' \subseteq streams
  <2>1. \A w \in Sups : wl'[w] = wl[w] \/ wl'[w] = [wl[w] EXCEPT !.stop = "dropped"]
      BY <1>4 DEF Unregister
  <2>2. \A w \in Sups : wl'[w] \in Workload /\ wl'[w].c = wl[w].c
      BY <1>1, <1>2, <2>1
  <2> QED  BY <1>4, <2>2 DEF Unregister
<1>5. ASSUME NEW c \in Containers, Send(c), UNCHANGED streams
      PROVE  /\ wl' \in [Sups -> Workload] /\ \A w \in Sups : wl'[w].c = wl[w].c
             /\ stops' \subseteq stops /\ streams' \subseteq streams
  <2>1. \A w \in Sups : wl'[w] = wl[w] \/ wl'[w] = [wl[w] EXCEPT !.stop = "sent"]
      BY <1>5 DEF Send
  <2>2. \A w \in Sups : wl'[w] \in Workload /\ wl'[w].c = wl[w].c
      BY <1>1, <1>2, <2>1
  <2> QED  BY <1>5, <2>2 DEF Send
<1> QED  BY <1>3, <1>4, <1>5

\* A step from a plain place.
LEMMA PlainInv ==
    ASSUME Inv, NEW p \in Procs, loc[p].pc \in Plain, NEW m, loc' = [loc EXCEPT ![p] = m],
           \/ m = Idle /\ loc[p].op # "sup"
           \/ /\ Same(loc[p], m) /\ Flow(m) /\ loc[p].pc # "launch" /\ m.pc # "launch"
              /\ m.bs = loc[p].bs \/ m.bs = NoSandboxes
              /\ m.bc = loc[p].bc \/ m.bc = NoContainers,
           UNCHANGED <<phase, rec, sb, file, vm, mgr, net, rootfs, used, count, lost>>,
           \/ UNCHANGED ct
           \/ /\ ct' \in [Containers -> Container]
              /\ \A c \in Containers : ct'[c].st = "none" <=> ct[c].st = "none",
           \/ \E C \in SUBSET Containers : Unregister(C)
           \/ \E c \in Containers : Send(c) /\ UNCHANGED streams
           \/ UNCHANGED <<stops, streams, wl>>
    PROVE  Inv'
<1>1. loc[p] # Idle /\ Active(loc[p])
    BY Somewhere DEF At, Plain
<1>2. /\ wl' \in [Sups -> Workload] /\ \A w \in Sups : wl'[w].c = wl[w].c
      /\ stops' \subseteq stops /\ streams' \subseteq streams
    BY ChannelFacts
<1>3. ct' \in [Containers -> Container] /\ \A c \in Containers : ct'[c].st = "none" <=> ct[c].st = "none"
    BY DEF Inv, Shape, TypeOK
<1>4. Tame(loc[p], m)
  <2>1. Flow(m) /\ m.pc # "launch" => Point(m) # "launch"
      BY DEF Flow, Through, Point, StopReturns
  <2>2. loc[p].pc # "launch" => Point(loc[p]) # "launch"
      BY DEF Point, Plain, Saving
  <2> QED  BY <1>1, <2>1, <2>2, PlainTame
<1>5. /\ m.bs = loc[p].bs \/ m.bs = NoSandboxes
      /\ m.bc = loc[p].bc \/ m.bc = NoContainers
    BY DEF Idle
<1> QED  BY <1>1, <1>2, <1>3, <1>4, <1>5, MoveInv

\* Goto changes the place only.
LEMMA GotoFacts ==
    ASSUME Inv, NEW p \in Procs, NEW x \in PC, Goto(p, x)
    PROVE  \E m : /\ loc' = [loc EXCEPT ![p] = m] /\ Same(loc[p], m) /\ m.pc = x
                  /\ m.bs = loc[p].bs /\ m.bc = loc[p].bc /\ m.ret = loc[p].ret
<1>1. PICK l : l = loc[p]
    OBVIOUS
<1>2. l \in Local
    BY <1>1 DEF Inv, Shape, TypeOK
<1>3. PICK m : m = [l EXCEPT !.pc = x]
    OBVIOUS
<1>4. loc' = [loc EXCEPT ![p] = m]
    BY <1>1, <1>3 DEF Goto
<1>5. Same(l, m) /\ m.pc = x /\ m.bs = l.bs /\ m.bc = l.bc /\ m.ret = l.ret
    BY <1>2, <1>3 DEF Same, Local
<1> QED  BY <1>1, <1>4, <1>5

\* launch_fails and exec_done end their request.
LEMMA EndsInv ==
    ASSUME Inv, NEW r \in Reqs, launch_fails(r) \/ exec_done(r)
    PROVE  Inv'
<1>1. /\ loc[r].pc \in {"launch", "exec"} /\ loc' = [loc EXCEPT ![r] = Idle] /\ r \in Procs
      /\ UNCHANGED <<phase, rec, sb, ct, file, vm, mgr, net, rootfs, stops, streams, wl, used, count, lost>>
    BY DEF launch_fails, exec_done, At, End, store, maps, Procs
<1>2. loc[r].op # "sup" /\ loc[r].pc \in Plain
    BY <1>1 DEF Inv, Shape, Plain
<1> QED  BY <1>1, <1>2, PlainInv

\* StopContainer up to the wait and its fallback.
LEMMA StopInv ==
    ASSUME Inv, NEW r \in Reqs,
           \/ stop_container_read(r) \/ stop_container_workload(r) \/ stop_container_waited(r)
           \/ stop_container_timeout(r) \/ stop_container_fallback(r) \/ stop_container_unmap(r)
    PROVE  Inv'
<1>1. PICK l : l = loc[r]
    OBVIOUS
<1>2. /\ l.pc \in {"stopread", "signalc", "waitc", "fallback", "unmapc"} /\ r \in Procs
      /\ UNCHANGED <<phase, rec, sb, ct, file, vm, mgr, net, rootfs, used, count, lost>>
    BY <1>1 DEF stop_container_read, stop_container_workload, stop_container_waited,
        stop_container_timeout, stop_container_fallback, stop_container_unmap, At, store, maps, Procs
<1>3. l.pc \in Plain /\ l.pc # "launch" /\ ~At(r, "idle")
    BY <1>1, <1>2 DEF Plain, At
<1>4. Active(l) /\ l \in Local /\ l.op # "sup"
    BY <1>1, <1>2, <1>3, Somewhere
<1>5. l.op \in {"stopc", "removec"} /\ l.c \in Containers
    BY <1>2, <1>4 DEF Active, Flow, Through, Saving, OnContainer
<1>6. ASSUME NEW m, Same(l, m), m.pc \in StopPlaces \/ (l.op = "removec" /\ m.pc = "delete")
      PROVE  Flow(m) /\ m.pc # "launch"
    BY <1>5, <1>6 DEF Flow, Through, Same, StopPlaces, Saving
<1>7. /\ StopReturn(r) \in PC /\ {"mark0", "signalc", "waitc", "fallback", "unmapc", "take"} \subseteq PC
      /\ StopReturn(r) = "idle" \/ (StopReturn(r) = "delete" /\ l.op = "removec")
    BY <1>1 DEF StopReturn, PC
<1>8. ASSUME NEW x, x \in {"mark0", "signalc", StopReturn(r)}, loc' = [loc EXCEPT ![r] = Continue(l, x)],
             (\E C \in SUBSET Containers : Unregister(C)) \/ UNCHANGED <<stops, streams, wl>>
      PROVE  Inv'
  <2>1. PICK m : m = Continue(l, x)
      OBVIOUS
  <2>2. /\ x = "idle" => m = Idle
        /\ x # "idle" => Same(l, m) /\ m.pc = x /\ m.bs = NoSandboxes /\ m.bc = NoContainers
      BY <1>4, <1>7, <1>8, <2>1, ContinueFacts
  <2>3. x # "idle" => Flow(m) /\ m.pc # "launch"
      BY <1>6, <1>7, <1>8, <2>2 DEF StopPlaces
  <2> QED  BY <1>1, <1>2, <1>3, <1>4, <1>8, <2>1, <2>2, <2>3, PlainInv
<1>9. ASSUME NEW x \in {"waitc", "fallback", "unmapc", "take"}, Goto(r, x),
             (\E c \in Containers : Send(c) /\ UNCHANGED streams) \/ UNCHANGED <<stops, streams, wl>>
      PROVE  Inv'
  <2>1. PICK m : /\ loc' = [loc EXCEPT ![r] = m] /\ Same(l, m) /\ m.pc = x
                 /\ m.bs = l.bs /\ m.bc = l.bc
      BY <1>1, <1>2, <1>7, <1>9, GotoFacts
  <2>2. Flow(m) /\ m.pc # "launch"
      BY <1>6, <2>1 DEF StopPlaces
  <2> QED  BY <1>1, <1>2, <1>3, <1>9, <2>1, <2>2, PlainInv
<1>10. ASSUME loc' = [loc EXCEPT ![r] = Idle], UNCHANGED <<stops, streams, wl>>
       PROVE  Inv'
    BY <1>1, <1>2, <1>3, <1>4, <1>10, PlainInv
<1>11. CASE stop_container_read(r)
  <2>1. UNCHANGED <<stops, streams, wl>>
      BY <1>11 DEF stop_container_read, maps
  <2>2. ct[l.c].st \in {"none", "Created", "Running", "Exited"}
      BY <1>5 DEF Inv, Shape, TypeOK, Container
  <2>3. loc' = [loc EXCEPT ![r] =
                  CASE ct[l.c].st = "none"    -> Idle
                    [] ct[l.c].st = "Exited"  -> Continue(l, StopReturn(r))
                    [] ct[l.c].st = "Created" -> Continue(l, "mark0")
                    [] ct[l.c].st = "Running" -> Continue(l, "signalc")]
      BY <1>1, <1>11 DEF stop_container_read
  <2>4. \/ loc' = [loc EXCEPT ![r] = Idle]
        \/ \E x \in {"mark0", "signalc", StopReturn(r)} : loc' = [loc EXCEPT ![r] = Continue(l, x)]
      BY <2>2, <2>3
  <2> QED  BY <1>8, <1>10, <2>1, <2>4
<1>12. CASE stop_container_workload(r)
    BY <1>1, <1>5, <1>9, <1>12 DEF stop_container_workload
<1>13. CASE stop_container_waited(r) \/ stop_container_timeout(r)
    BY <1>9, <1>13 DEF stop_container_waited, stop_container_timeout, maps
<1>14. CASE stop_container_fallback(r)
    BY <1>9, <1>10, <1>14 DEF stop_container_fallback, maps, End
<1>15. CASE stop_container_unmap(r)
  <2>1. loc' = [loc EXCEPT ![r] = Continue(l, StopReturn(r))] /\ Unregister({l.c}) /\ {l.c} \in SUBSET Containers
      BY <1>1, <1>5, <1>15 DEF stop_container_unmap
  <2> QED  BY <1>8, <2>1
<1> QED  BY <1>11, <1>12, <1>13, <1>14, <1>15


\* Persist of a change, or going on without one.
LEMMA PersistFacts ==
    ASSUME Inv, NEW p \in Procs, NEW changed \in BOOLEAN, NEW next \in PC, next # "idle",
           Persist(p, changed, next)
    PROVE  \E m : /\ loc' = [loc EXCEPT ![p] = m] /\ Same(loc[p], m)
                  /\ changed => m.pc = "list" /\ m.ret = next
                  /\ ~changed => m.pc = next
                  /\ m.bs = loc[p].bs \/ m.bs = NoSandboxes
                  /\ m.bc = loc[p].bc \/ m.bc = NoContainers
<1>1. PICK l : l = loc[p]
    OBVIOUS
<1>2. l \in Local
    BY <1>1 DEF Inv, Shape, TypeOK
<1>3. PICK m : m = IF changed THEN [l EXCEPT !.pc = "list", !.ret = next] ELSE Continue(l, next)
    OBVIOUS
<1>4. loc' = [loc EXCEPT ![p] = m]
    BY <1>1, <1>3 DEF Persist
<1>5. CASE changed
  <2>1. "list" \in PC
      BY DEF PC
  <2>2. Same(l, m) /\ m.pc = "list" /\ m.ret = next /\ m.bs = l.bs /\ m.bc = l.bc
      BY <1>2, <1>3, <1>5, <2>1 DEF Same, Local
  <2> QED  BY <1>1, <1>4, <1>5, <2>2
<1>6. CASE ~changed
  <2>1. Same(l, m) /\ m.pc = next /\ m.bs = NoSandboxes /\ m.bc = NoContainers
      BY <1>2, <1>3, <1>6, ContinueFacts
  <2> QED  BY <1>1, <1>4, <1>6, <2>1
<1> QED  BY <1>5, <1>6

\* The three ways to mark a container leave the others alone and none without a state.
LEMMA MarkFacts ==
    ASSUME Inv, NEW c \in Containers, NEW k \in Code,
           \/ ct' = [ct EXCEPT ![c] = IF @.st = "Created" THEN Running ELSE @]
           \/ ct' = [ct EXCEPT ![c] = IF @.st = "none" THEN @ ELSE Exited(k)]
           \/ ct' = [ct EXCEPT ![c] = IF @.st = "Running" THEN Exited(k) ELSE @]
    PROVE  /\ ct' \in [Containers -> Container]
           /\ \A d \in Containers : ct'[d].st = "none" <=> ct[d].st = "none"
           /\ \A d \in Containers : ct[d].st = "Exited" => ct'[d].st = "Exited"
<1>1. ct \in [Containers -> Container]
    BY DEF Inv, Shape, TypeOK
<1>2. Running \in Container /\ Running.st = "Running" /\ Exited(k) \in Container /\ Exited(k).st = "Exited"
    BY DEF Running, Exited, Container, Code
<1>3. ct'[c] \in {ct[c], Running, Exited(k)} /\ (ct[c].st = "none" => ct'[c] = ct[c])
      /\ (ct[c].st = "Exited" => ct'[c] \in {ct[c], Exited(k)})
    BY <1>1
<1>4. \A d \in Containers : d # c => ct'[d] = ct[d]
    BY <1>1
<1>5. ct' \in [Containers -> Container]
    BY <1>1, <1>2, <1>3
<1> QED  BY <1>1, <1>2, <1>3, <1>4, <1>5

\* StartContainer, StopContainer and the supervisor mark their container.
LEMMA MarkInv ==
    ASSUME Inv, NEW p \in Procs,
           \/ p \in Reqs /\ (started(p) \/ stop_created(p) \/ stop_running(p))
           \/ p \in Sups /\ supervisor_mark(p)
    PROVE  Inv'
<1>1. PICK l : l = loc[p]
    OBVIOUS
<1>2. /\ l.pc \in {"started", "mark0", "mark137", "mark"}
      /\ UNCHANGED <<phase, rec, sb, file, vm, mgr, net, rootfs, stops, streams, wl, used, count, lost>>
    BY <1>1 DEF started, stop_created, stop_running, supervisor_mark, At, maps
<1>3. l.pc \in Plain /\ l.pc # "launch" /\ ~At(p, "idle")
    BY <1>1, <1>2 DEF Plain, At
<1>4. Active(l) /\ l \in Local
    BY <1>1, <1>2, <1>3, Somewhere
<1>5. l.code \in Code /\ {"0", "137"} \subseteq Code
    BY <1>4 DEF Local, Code
<1>6. ASSUME NEW changed \in BOOLEAN, NEW next \in {"register", "spawn", "unmapc", "clean"},
             Persist(p, changed, next),
             \E c \in Containers : \E k \in Code :
               \/ ct' = [ct EXCEPT ![c] = IF @.st = "Created" THEN Running ELSE @]
               \/ ct' = [ct EXCEPT ![c] = IF @.st = "none" THEN @ ELSE Exited(k)]
               \/ ct' = [ct EXCEPT ![c] = IF @.st = "Running" THEN Exited(k) ELSE @],
             \/ l.op = "start" /\ next = "register"
             \/ l.op = "start" /\ next = "spawn" /\ ~changed
             \/ l.op \in {"stopc", "removec"} /\ next = "unmapc"
             \/ l.op = "sup" /\ next = "clean"
      PROVE  Inv'
  <2>0. next \in PC /\ next # "idle"
      BY DEF PC
  <2>1. PICK m : /\ loc' = [loc EXCEPT ![p] = m] /\ Same(l, m)
                 /\ changed => m.pc = "list" /\ m.ret = next
                 /\ ~changed => m.pc = next
                 /\ m.bs = l.bs \/ m.bs = NoSandboxes
                 /\ m.bc = l.bc \/ m.bc = NoContainers
      BY <1>1, <1>6, <2>0, PersistFacts
  <2>2. Flow(m) /\ m.pc # "launch"
      BY <1>6, <2>1 DEF Flow, Through, Same, StopPlaces, StopReturns, Saving
  <2>3. /\ ct' \in [Containers -> Container]
        /\ \A d \in Containers : ct'[d].st = "none" <=> ct[d].st = "none"
      BY <1>6, MarkFacts
  <2> QED  BY <1>1, <1>2, <1>3, <2>1, <2>2, <2>3, PlainInv
<1>7. CASE p \in Reqs /\ started(p)
  <2>1. l.pc = "started" /\ mark_started_if_created(p, l.c, IF ct[l.c].st = "Created" THEN "register" ELSE "spawn")
      BY <1>1, <1>7 DEF started, At
  <2>2. l.op = "start" /\ l.c \in Containers
      BY <1>4, <2>1 DEF Active, Flow, Through, Saving, StopPlaces, OnContainer
  <2>3. /\ ct' = [ct EXCEPT ![l.c] = IF @.st = "Created" THEN Running ELSE @]
        /\ Persist(p, ct[l.c].st = "Created", IF ct[l.c].st = "Created" THEN "register" ELSE "spawn")
      BY <2>1 DEF mark_started_if_created
  <2>4. PICK changed \in BOOLEAN : changed = (ct[l.c].st = "Created")
      OBVIOUS
  <2>5. PICK next : next = IF changed THEN "register" ELSE "spawn"
      OBVIOUS
  <2>6. Persist(p, changed, next)
      BY <2>3, <2>4, <2>5
  <2> QED  BY <1>5, <1>6, <2>2, <2>3, <2>5, <2>6
<1>8. CASE p \in Reqs /\ stop_created(p)
  <2>1. l.pc = "mark0" /\ mark_exited(p, l.c, "0", "unmapc")
      BY <1>1, <1>8 DEF stop_created, At
  <2>2. l.op \in {"stopc", "removec"} /\ l.c \in Containers
      BY <1>4, <2>1 DEF Active, Flow, Through, Saving, StopPlaces, OnContainer
  <2>3. /\ ct' = [ct EXCEPT ![l.c] = IF @.st = "none" THEN @ ELSE Exited("0")]
        /\ Persist(p, ct[l.c].st # "none", "unmapc")
      BY <2>1 DEF mark_exited
  <2>4. PICK changed \in BOOLEAN : changed = (ct[l.c].st # "none")
      OBVIOUS
  <2> QED  BY <1>5, <1>6, <2>2, <2>3, <2>4
<1>9. CASE p \in Reqs /\ stop_running(p)
  <2>1. l.pc = "mark137" /\ mark_exited_if_running(p, l.c, "137", "unmapc")
      BY <1>1, <1>9 DEF stop_running, At
  <2>2. l.op \in {"stopc", "removec"} /\ l.c \in Containers
      BY <1>4, <2>1 DEF Active, Flow, Through, Saving, StopPlaces, OnContainer
  <2>3. /\ ct' = [ct EXCEPT ![l.c] = IF @.st = "Running" THEN Exited("137") ELSE @]
        /\ Persist(p, ct[l.c].st = "Running", "unmapc")
      BY <2>1 DEF mark_exited_if_running
  <2>4. PICK changed \in BOOLEAN : changed = (ct[l.c].st = "Running")
      OBVIOUS
  <2> QED  BY <1>5, <1>6, <2>2, <2>3, <2>4
<1>10. CASE p \in Sups /\ supervisor_mark(p)
  <2>1. mark_exited_if_running(p, l.c, l.code, "clean")
      BY <1>1, <1>10 DEF supervisor_mark, At
  <2>2. l.op = "sup" /\ l.c \in Containers
      BY <1>1, <1>4, <1>10, IdleFacts DEF Inv, Shape, Active, OnContainer
  <2>3. /\ ct' = [ct EXCEPT ![l.c] = IF @.st = "Running" THEN Exited(l.code) ELSE @]
        /\ Persist(p, ct[l.c].st = "Running", "clean")
      BY <2>1 DEF mark_exited_if_running
  <2>4. PICK changed \in BOOLEAN : changed = (ct[l.c].st = "Running")
      OBVIOUS
  <2> QED  BY <1>5, <1>6, <2>2, <2>3, <2>4
<1> QED  BY <1>7, <1>8, <1>9, <1>10


\* StopPodSandbox signals, lists and marks the containers of its pod.
LEMMA PodStopInv ==
    ASSUME Inv, NEW r \in Reqs,
           \/ \E c \in Containers : stop_pod_signal(r, c) \/ stop_pod_mark(r, c)
           \/ stop_pod_relist(r)
    PROVE  Inv'
<1>1. PICK l : l = loc[r]
    OBVIOUS
<1>2. /\ l.pc \in {"signal", "mark"} /\ r \in Procs
      /\ UNCHANGED <<phase, rec, sb, file, vm, mgr, net, rootfs, used, count, lost>>
    BY <1>1 DEF stop_pod_signal, stop_pod_mark, stop_pod_relist, At, store, maps, Procs
<1>3. l.pc \in Plain /\ l.pc # "launch" /\ ~At(r, "idle")
    BY <1>1, <1>2 DEF Plain, At
<1>4. Active(l) /\ l \in Local /\ l.op # "sup"
    BY <1>1, <1>2, <1>3, Somewhere
<1>5. l.op = "stop"
    BY <1>2, <1>4 DEF Active, Flow, Through, Saving, StopPlaces
<1>6. ASSUME NEW m, loc' = [loc EXCEPT ![r] = m], Same(l, m), m.bs = l.bs, m.bc = l.bc,
             m.pc \in {"signal", "mark"} \/ (m.pc = "list" /\ m.ret = "mark"),
             \/ UNCHANGED ct
             \/ /\ ct' \in [Containers -> Container]
                /\ \A d \in Containers : ct'[d].st = "none" <=> ct[d].st = "none",
             (\E c \in Containers : Send(c) /\ UNCHANGED streams) \/ UNCHANGED <<stops, streams, wl>>
      PROVE  Inv'
  <2>1. Flow(m) /\ m.pc # "launch"
      BY <1>5, <1>6 DEF Flow, Through, Same, Saving
  <2> QED  BY <1>1, <1>2, <1>3, <1>6, <2>1, PlainInv
<1>7. ASSUME NEW c \in Containers, stop_pod_signal(r, c)
      PROVE  Inv'
  <2>1. PICK m : m = [l EXCEPT !.todo = @ \ {c}]
      OBVIOUS
  <2>2. Same(l, m) /\ m.bs = l.bs /\ m.bc = l.bc /\ m.pc = l.pc
      BY <1>4, <2>1 DEF Same, Local
  <2>3. /\ loc' = [loc EXCEPT ![r] = m] /\ UNCHANGED <<ct, streams>>
        /\ Send(c) \/ UNCHANGED <<stops, wl>>
      BY <1>1, <1>7, <2>1 DEF stop_pod_signal, store
  <2> QED  BY <1>2, <1>6, <2>2, <2>3
<1>8. ASSUME NEW c \in Containers, stop_pod_mark(r, c)
      PROVE  Inv'
  <2>1. PICK m : m = [l EXCEPT !.todo = @ \ {c},
                               !.pc = IF ct[c].st = "none" THEN "mark" ELSE "list",
                               !.ret = IF ct[c].st = "none" THEN "idle" ELSE "mark"]
      OBVIOUS
  <2>2. /\ Same(l, m) /\ m.bs = l.bs /\ m.bc = l.bc
        /\ m.pc = "mark" \/ (m.pc = "list" /\ m.ret = "mark")
      BY <1>4, <2>1 DEF Same, Local, PC
  <2>3. /\ loc' = [loc EXCEPT ![r] = m] /\ UNCHANGED <<stops, streams, wl>>
        /\ ct' = [ct EXCEPT ![c] = IF @.st = "none" THEN @ ELSE Exited("137")]
      BY <1>1, <1>8, <2>1 DEF stop_pod_mark, maps
  <2>4. /\ ct' \in [Containers -> Container]
        /\ \A d \in Containers : ct'[d].st = "none" <=> ct[d].st = "none"
    <3>1. "137" \in Code
        BY DEF Code
    <3> QED  BY <2>3, <3>1, MarkFacts
  <2> QED  BY <1>6, <2>2, <2>3, <2>4
<1>9. CASE stop_pod_relist(r)
  <2>1. PICK m : m = [l EXCEPT !.pc = "mark", !.ids = InPod(l.s),
                               !.todo = {c \in InPod(l.s) : ct[c].st # "Exited"}]
      OBVIOUS
  <2>2. Same(l, m) /\ m.bs = l.bs /\ m.bc = l.bc /\ m.pc = "mark"
      BY <1>4, <2>1 DEF Same, Local, PC, InPod
  <2>3. loc' = [loc EXCEPT ![r] = m] /\ UNCHANGED <<ct, stops, streams, wl>>
      BY <1>1, <1>9, <2>1 DEF stop_pod_relist, store, maps
  <2> QED  BY <1>6, <2>2, <2>3
<1> QED  BY <1>7, <1>8, <1>9

\* The registry entries of a pod go.
LEMMA PodUnmapInv ==
    ASSUME Inv, NEW r \in Reqs, pod_unmap(r)
    PROVE  Inv'
<1>1. PICK l : l = loc[r]
    OBVIOUS
<1>2. /\ l.pc \in {"unmap", "mark"} /\ r \in Procs /\ (l.pc = "mark" => l.op = "stop")
      /\ Unregister(l.ids) /\ Goto(r, IF l.op = "stop" THEN "take" ELSE "rmdirs")
      /\ UNCHANGED <<phase, rec, sb, ct, file, vm, mgr, net, rootfs, used, count, lost>>
    BY <1>1 DEF pod_unmap, At, store, Procs
<1>3. loc[r] # Idle /\ Active(l) /\ l \in Local /\ l.op # "sup"
    BY <1>1, <1>2, Somewhere DEF At
<1>4. l.ids \in SUBSET Containers
    BY <1>3 DEF Local
<1>5. CASE l.pc = "mark"
  <2>1. "take" \in PC /\ Goto(r, "take")
      BY <1>2, <1>5 DEF PC
  <2>2. PICK m : /\ loc' = [loc EXCEPT ![r] = m] /\ Same(l, m) /\ m.pc = "take"
                 /\ m.bs = l.bs /\ m.bc = l.bc
      BY <1>1, <1>2, <2>1, GotoFacts
  <2>3. Flow(m) /\ l.pc \in Plain
      BY <1>2, <1>5, <2>2 DEF Flow, Through, Same, Saving, Plain
  <2> QED  BY <1>1, <1>2, <1>4, <1>5, <2>2, <2>3, PlainInv
<1>6. CASE l.pc = "unmap"
  <2>1. l.op = "remove"
      BY <1>3, <1>6 DEF Active, Flow, Through, Saving, StopPlaces
  <2>2. "rmdirs" \in PC /\ Goto(r, "rmdirs")
      BY <1>2, <2>1 DEF PC
  <2>3. PICK m : /\ loc' = [loc EXCEPT ![r] = m] /\ Same(l, m) /\ m.pc = "rmdirs"
                 /\ m.bs = l.bs /\ m.bc = l.bc
      BY <1>1, <1>2, <2>2, GotoFacts
  <2>4. Active(m) /\ m # Idle
      BY <1>3, <1>6, <2>1, <2>3, IdleFacts DEF Active, Flow, Through, Same, Saving
  <2>5. Tame(l, m)
      BY <1>6, <2>1, <2>3, <2>4 DEF Tame, Mild, Same, Booting, Making, ForPod, ForVm, ForRootfs,
             ForPodDir, Disconnected, Point, Saving
  <2>6. /\ wl' \in [Sups -> Workload] /\ \A w \in Sups : wl'[w].c = wl[w].c
        /\ stops' \subseteq stops /\ streams' \subseteq streams
      BY <1>2, <1>4, ChannelFacts
  <2>7. ct' \in [Containers -> Container]
      BY <1>2 DEF Inv, Shape, TypeOK
  <2> QED  BY <1>1, <1>2, <1>3, <2>3, <2>5, <2>6, <2>7, MoveInv
<1> QED  BY <1>2, <1>5, <1>6

\* The supervisor sees the stop signal, or the end of its workload.
LEMMA SupervisorInv ==
    ASSUME Inv, NEW w \in Sups, supervisor_cancel(w) \/ supervisor_exit(w)
    PROVE  Inv'
<1>1. PICK l : l = loc[w]
    OBVIOUS
<1>2. /\ l.pc = "watch" /\ w \in Procs
      /\ UNCHANGED <<phase, rec, sb, ct, file, vm, mgr, net, rootfs, stops, streams, used, count, lost>>
    BY <1>1 DEF supervisor_cancel, supervisor_exit, At, store, maps, Procs
<1>3. loc[w] # Idle /\ Active(l) /\ l \in Local /\ l.pc \in Plain
    BY <1>1, <1>2, Somewhere DEF At, Plain
<1>4. l.op = "sup"
    BY <1>1, <1>3 DEF Inv, Shape
<1>5. TypeOK
    BY DEF Inv, Shape
<1>6. CASE supervisor_cancel(w)
  <2>1. wl' = [wl EXCEPT ![w].stop = "cancelled"] /\ UNCHANGED loc
      BY <1>6 DEF supervisor_cancel
  <2>2. wl' \in [Sups -> Workload] /\ \A v \in Sups : wl'[v].c = wl[v].c
      BY <1>5, <2>1 DEF TypeOK, Workload
  <2>3. loc' = [loc EXCEPT ![w] = l]
      BY <1>1, <1>2, <1>5, <2>1 DEF TypeOK
  <2>4. Same(l, l) /\ Flow(l) /\ Point(l) # "launch"
      BY <1>2, <1>3 DEF Same, Active, Point, Saving
  <2>5. Tame(l, l)
      BY <1>3, <2>4, PlainTame
  <2>6. ct' \in [Containers -> Container]
      BY <1>2, <1>5 DEF TypeOK
  <2> QED  BY <1>1, <1>2, <1>3, <2>2, <2>3, <2>5, <2>6, MoveInv
<1>7. CASE supervisor_exit(w)
  <2>0. PICK k \in {"own", "255"} : k = IF wl[w].guest = "done" THEN "own" ELSE "255"
      OBVIOUS
  <2>1. PICK m : m = [l EXCEPT !.pc = "mark", !.code = k]
      OBVIOUS
  <2>2. Same(l, m) /\ m.bs = l.bs /\ m.bc = l.bc /\ m.pc = "mark"
    <3>1. k \in Code /\ "mark" \in PC
        BY DEF Code, PC
    <3> QED  BY <1>3, <2>1, <3>1 DEF Same, Local
  <2>3. loc' = [loc EXCEPT ![w] = m] /\ UNCHANGED wl
      BY <1>1, <1>7, <2>0, <2>1 DEF supervisor_exit
  <2>4. Flow(m)
      BY <1>4, <2>2 DEF Flow, Through, Same, Saving
  <2> QED  BY <1>1, <1>2, <1>3, <2>2, <2>3, <2>4, PlainInv
<1> QED  BY <1>6, <1>7

\* A workload or a VM ends: no process moves.
LEMMA DeathInv ==
    ASSUME Inv, (\E w \in Sups : WorkloadExits(w)) \/ (\E s \in Sandboxes : VmDies(s))
    PROVE  Inv'
<1>1. /\ UNCHANGED <<phase, rec, sb, ct, file, mgr, net, rootfs, stops, streams, loc, used, lost>>
    BY DEF WorkloadExits, VmDies, store, maps
<1>2. TypeOK
    BY DEF Inv, Shape
<1>3. \A s \in Sandboxes : vm'[s] = "up" => vm[s] = "up"
    BY <1>2 DEF WorkloadExits, VmDies, TypeOK
<1>4. \A w \in Sups : wl'[w].c = wl[w].c
  <2>1. ASSUME NEW v \in Sups, WorkloadExits(v)
        PROVE  \A w \in Sups : wl'[w].c = wl[w].c
    <3>1. wl' = [wl EXCEPT ![v].guest = "done"] /\ wl \in [Sups -> Workload]
        BY <1>2, <2>1 DEF WorkloadExits, TypeOK
    <3> QED  BY <3>1 DEF Workload
  <2> QED  BY <2>1 DEF VmDies
<1>5. TypeOK'
  <2>1. CASE \E w \in Sups : WorkloadExits(w)
    <3>1. wl' \in [Sups -> Workload]
        BY <1>2, <2>1 DEF WorkloadExits, TypeOK, Workload
    <3>2. UNCHANGED <<vm, count>>
        BY <2>1 DEF WorkloadExits
    <3> QED  BY <1>1, <1>2, <3>1, <3>2 DEF TypeOK
  <2>2. CASE \E s \in Sandboxes : VmDies(s)
    <3>1. vm' \in [Sandboxes -> {"none", "up", "gone"}]
        BY <1>2, <2>2 DEF VmDies, TypeOK
    <3>2. count' \in [reqs : 0..MaxReqs, crashes : 0..MaxCrashes, deaths : 0..MaxDeaths]
        BY <1>2, <2>2, CriAssumption DEF VmDies, TypeOK
    <3>3. UNCHANGED wl
        BY <2>2 DEF VmDies
    <3> QED  BY <1>1, <1>2, <3>1, <3>2, <3>3 DEF TypeOK
  <2> QED  BY <2>1, <2>2
<1>6. Shape' /\ Phases' /\ RegistriesBacked' /\ Removal'
    BY <1>1, <1>4, <1>5 DEF Inv, Shape, Phases, RegistriesBacked, Removal, At
<1>7. Minted' /\ Young'
  <2>1. Minted'
      BY <1>1, <1>3 DEF Inv, Minted
  <2>2. \A r \in Reqs : Booting(loc[r]) => loc[r].s \in Sandboxes
      BY IdleBits DEF Inv, Shape, Active, Procs
  <2>3. Young'
      BY <1>1, <1>3, <2>2 DEF Inv, Young, Booting, Making
  <2> QED  BY <2>1, <2>3
<1>8. Slots'
    BY <1>1, <1>4 DEF Inv, Slots
<1>9. Serving'
    BY <1>1, <1>3 DEF Inv, Serving
<1>10. Recovery'
    BY <1>1, <1>3 DEF Inv, Recovery, Leftovers
<1> QED  BY <1>6, <1>7, <1>8, <1>9, <1>10 DEF Inv


-----------------------------------------------------------------------------
(* Steps that change what a pod has                                        *)

\* The places at which a request builds or takes apart what it answers for.
Busy == {"boot", "add", "insert", "prepare", "addc", "take", "kill", "net", "netc", "rmcts",
         "rmdirs", "rmsb", "delete", "undir"}

Works(l, m) ==
    /\ m = Idle \/ (Active(m) /\ m.op = l.op /\ m.s = l.s /\ m.c = l.c)
    /\ (Booting(m) => Booting(l)) /\ m.pc # "boot" /\ (Making(m) => Making(l))
    /\ m.w \in {l.w, None} /\ l.pc # "spawn" /\ l.op # "sup"
    /\ m.bs \in {l.bs, NoSandboxes} /\ m.bc \in {l.bc, NoContainers}

\* The types of what such a step changes.
Resources ==
    /\ sb \in [Sandboxes -> SandboxState] /\ ct \in [Containers -> Container]
    /\ vm \in [Sandboxes -> {"none", "up", "gone"}]
    /\ mgr \subseteq Sandboxes /\ rootfs \subseteq Containers /\ lost \subseteq Sandboxes

\* A step from a busy place.
LEMMA BusyWorks ==
    ASSUME NEW l, Active(l), l.pc \in Busy, NEW m,
           \/ m = Idle
           \/ /\ Same(l, m) /\ Flow(m) /\ m.pc # "boot"
              /\ Booting(m) => l.pc = "boot"
              /\ Making(m) => l.pc = "prepare"
              /\ m.bs \in {l.bs, NoSandboxes} /\ m.bc \in {l.bc, NoContainers}
    PROVE  Works(l, m)
<1>1. l.op \notin {"start", "sup"} /\ l.pc # "spawn"
    BY DEF Active, Flow, Through, Busy, Saving
<1>2. CASE m = Idle
  <2>1. m.bs = NoSandboxes /\ m.bc = NoContainers
      BY <1>2 DEF Idle
  <2> QED  BY <1>1, <1>2, <2>1, IdleFacts, IdleBits DEF Works
<1>3. CASE /\ Same(l, m) /\ Flow(m) /\ m.pc # "boot"
           /\ Booting(m) => l.pc = "boot"
           /\ Making(m) => l.pc = "prepare"
           /\ m.bs \in {l.bs, NoSandboxes} /\ m.bc \in {l.bc, NoContainers}
  <2>1. Active(m)
      BY <1>1, <1>3 DEF Active, Same
  <2>2. (Booting(m) => Booting(l)) /\ (Making(m) => Making(l))
      BY <1>3 DEF Booting, Making
  <2> QED  BY <1>1, <1>3, <2>1, <2>2 DEF Works, Same
<1> QED  BY <1>2, <1>3

\* What such a step may do to the stores, and who answers for what is left: the manager
\* or the record, this request, or another one as before.
Own(l, m) ==
    /\ lost \subseteq lost' /\ net' \subseteq net
    /\ \A s \in Sandboxes : s # l.s => sb'[s] = sb[s]
    /\ sb[l.s] = "none" => sb'[l.s] = "none" \/ (l.op = "run" /\ ~Booting(m))
    /\ sb'[l.s] = "Ready" => sb[l.s] = "Ready" \/ (Booting(l) /\ l.op = "run")
    /\ \A s \in Sandboxes : vm'[s] = "up" => vm[s] = "up" \/ (l.op = "run" /\ s = l.s)
    /\ \A c \in Containers : ct[c].st = "none" =>
         ct'[c].st = "none" \/ (l.op = "create" /\ c = l.c /\ ~Making(m))
    /\ Disconnected(m) => Disconnected(l) \/ l.s \notin net'

PodHas(l, m) ==
    \A s \in Sandboxes \ lost' : sb'[s] = "Ready" =>
        \/ s \in mgr' \/ (m.s = s /\ ForPod(m))
        \/ sb[s] = "Ready" /\ s \notin mgr /\ ~(l.s = s /\ ForPod(l))

VmHas(l, m) ==
    \A s \in Sandboxes \ lost' : vm'[s] = "up" =>
        \/ s \in mgr' \/ (m.s = s /\ ForVm(m))
        \/ vm[s] = "up" /\ s \notin mgr /\ ~(l.s = s /\ ForVm(l))

NetHas(l, m) ==
    \A s \in Sandboxes \ lost' : s \in net' =>
        \/ sb'[s] # "none" \/ (m.s = s /\ Booting(m))
        \/ sb[s] = "none" /\ ~(l.s = s /\ Booting(l))

DirHas(l, m) ==
    \A c \in rootfs' :
        \/ ct'[c].st # "none"
        \/ (m.c = c /\ ForRootfs(m)) \/ (m.s = Pod[c] /\ ForPodDir(m))
        \/ /\ c \in rootfs /\ ct[c].st = "none"
           /\ ~(l.c = c /\ ForRootfs(l)) /\ ~(l.s = Pod[c] /\ ForPodDir(l))

\* A step that changes what its own pod or container has keeps the invariant when what
\* is left has somebody to answer for it.
LEMMA WorkInv ==
    ASSUME Inv, NEW r \in Reqs, NEW l, l = loc[r], NEW m, loc' = [loc EXCEPT ![r] = m], l # Idle,
           Works(l, m), Resources', UNCHANGED <<phase, rec, file, used, count>>,
           Own(l, m), PodHas(l, m), VmHas(l, m), NetHas(l, m), DirHas(l, m),
           \/ \E C \in SUBSET Containers : Unregister(C)
           \/ UNCHANGED <<stops, streams, wl>>
    PROVE  Inv'
<1>0. /\ wl' \in [Sups -> Workload] /\ \A w \in Sups : wl'[w].c = wl[w].c
      /\ stops' \subseteq stops /\ streams' \subseteq streams
    BY ChannelFacts
<1>1. StepOf(r, m) /\ r \in Procs
    BY DEF StepOf, Works, Procs
<1>2. /\ TypeOK /\ Minted /\ Serving /\ phase = "serve"
      /\ loc[r] \in Local /\ Active(loc[r]) /\ loc[r].s \in Sandboxes
    BY <1>1 DEF Inv, Shape, Phases, Works, Active
<1>3. Shape'
  <2>1. m \in Local
      BY IdleFacts DEF Works, Active
  <2>2. TypeOK'
      BY <1>0, <1>2, <2>1 DEF TypeOK, Resources, Own
  <2> QED  BY <1>1, <2>2, ShapeKept
<1>4. Phases' /\ Recovery'
    BY <1>2, PhasesKept
<1>5. Minted'
  <2>1. loc[r].op = "run" => loc[r].s \in used
      BY <1>2 DEF Minted
  <2>2. loc[r].op = "create" => loc[r].c \in used
      BY <1>2 DEF Minted
  <2>3. m.bs \in {loc[r].bs, NoSandboxes} /\ m.bc \in {loc[r].bc, NoContainers}
      BY DEF Works
  <2>4. \A s \in Sandboxes \ used :
          sb'[s] = "none" /\ vm'[s] # "up" /\ file'.sb[s] = "none" /\ m.bs[s] = "none"
    <3>1. \A s \in Sandboxes \ used : m.bs[s] = "none" /\ file'.sb[s] = "none"
        BY <1>1, <1>2, <2>3 DEF Minted, NoSandboxes
    <3>2. \A s \in Sandboxes \ used : sb'[s] = "none" /\ vm'[s] # "up"
        BY <1>2, <2>1 DEF Minted, Own
    <3> QED  BY <3>1, <3>2
  <2>5. \A c \in Containers \ used :
          ct'[c].st = "none" /\ file'.ct[c].st = "none" /\ m.bc[c].st = "none"
    <3>1. \A c \in Containers \ used : m.bc[c].st = "none" /\ file'.ct[c].st = "none"
        BY <1>1, <1>2, <2>3 DEF Minted, NoContainers, NoContainer
    <3>2. \A c \in Containers \ used : ct'[c].st = "none"
        BY <1>2, <2>2 DEF Minted, Own
    <3> QED  BY <3>1, <3>2
  <2> QED  BY <1>1, <2>4, <2>5, MintedKept
<1>6. Young'
  <2>1. /\ Booting(m) => Booting(loc[r])
        /\ m.pc = "boot" => loc[r].pc = "boot"
        /\ Making(m) => Making(loc[r])
      BY DEF Works
  <2>2. \A s \in Sandboxes : sb[s] = "none" =>
          sb'[s] = "none" \/ (r \in Reqs /\ loc[r].op = "run" /\ s = loc[r].s /\ ~Booting(m))
      BY DEF Own
  <2>3. \A s \in Sandboxes : vm'[s] = "up" =>
          vm[s] = "up" \/ (r \in Reqs /\ loc[r].op = "run" /\ s = loc[r].s /\ m.pc # "boot")
      BY DEF Works, Own
  <2>4. \A c \in Containers : ct[c].st = "none" =>
          ct'[c].st = "none" \/ (r \in Reqs /\ loc[r].op = "create" /\ c = loc[r].c /\ ~Making(m))
      BY DEF Own
  <2> QED  BY <1>1, <2>1, <2>2, <2>3, <2>4, YoungKept
<1>7. Removal'
  <2>1. m.s = loc[r].s \/ ~Disconnected(m)
      BY IdleBits DEF Works
  <2>2. \A s \in Sandboxes : sb'[s] = "Ready" =>
          sb[s] = "Ready" \/ (r \in Reqs /\ Booting(loc[r]) /\ loc[r].op = "run" /\ s = loc[r].s)
      BY DEF Own
  <2>3. net' \subseteq net /\ (Disconnected(m) => Disconnected(loc[r]) \/ m.s \notin net')
      BY <2>1 DEF Own
  <2> QED  BY <1>1, <2>2, <2>3, RemovalKept
<1>8. Serving'
  <2>1. ASSUME NEW s \in Sandboxes \ lost'
        PROVE  sb'[s] = "Ready" => s \in mgr' \/ \E q \in Reqs : loc'[q].s = s /\ ForPod(loc'[q])
      BY <1>1, <1>2, PodKept DEF PodHas, Own
  <2>2. ASSUME NEW s \in Sandboxes \ lost'
        PROVE  vm'[s] = "up" => s \in mgr' \/ \E q \in Reqs : loc'[q].s = s /\ ForVm(loc'[q])
      BY <1>1, <1>2, VmKept DEF VmHas, Own
  <2>3. ASSUME NEW s \in Sandboxes \ lost'
        PROVE  s \in net' => sb'[s] # "none" \/ \E q \in Reqs : loc'[q].s = s /\ Booting(loc'[q])
      BY <1>1, <1>2, NetKept DEF NetHas, Own
  <2>4. ASSUME NEW c \in rootfs'
        PROVE  \/ ct'[c].st # "none" \/ Pod[c] \in lost'
               \/ \E q \in Reqs : \/ loc'[q].c = c /\ ForRootfs(loc'[q])
                                  \/ loc'[q].s = Pod[c] /\ ForPodDir(loc'[q])
    <3>1. lost \subseteq lost'
        BY DEF Own
    <3> QED  BY <1>1, <1>2, <3>1, RootfsKept DEF DirHas
  <2> QED  BY <2>1, <2>2, <2>3, <2>4, ServingKept
<1>9. Slots'
    BY <1>0, <1>1, SlotsKept DEF Works
<1>10. RegistriesBacked'
    BY <1>0, <1>1, RegistriesKept DEF Works
<1> QED  BY <1>3, <1>4, <1>5, <1>6, <1>7, <1>8, <1>9, <1>10 DEF Inv


\* What holds at a busy place.
LEMMA BusyFacts ==
    ASSUME Inv, NEW r \in Reqs, loc[r].pc \in Busy
    PROVE  /\ r \in Procs /\ loc[r] # Idle /\ Active(loc[r]) /\ loc[r] \in Local
           /\ loc[r].s \in Sandboxes /\ loc[r].op # "sup"
           /\ TypeOK /\ Resources /\ wl \in [Sups -> Workload]
<1>1. r \in Procs /\ ~At(r, "idle")
    BY DEF Procs, At, Busy
<1>2. loc[r] # Idle /\ Active(loc[r]) /\ loc[r] \in Local /\ loc[r].op # "sup"
    BY <1>1, Somewhere
<1> QED  BY <1>1, <1>2 DEF Inv, Shape, TypeOK, Resources, Active


\* RunPodSandbox boots the VM, adds the record and inserts the manager.
LEMMA RunInv ==
    ASSUME Inv, NEW r \in Reqs,
           acquire_vm(r) \/ acquire_vm_fails(r) \/ add_sandbox(r) \/ insert_manager(r)
    PROVE  Inv'
<1>1. PICK l : l = loc[r]
    OBVIOUS
<1>2. /\ l.pc \in {"boot", "add", "insert"} /\ l.pc \in Busy
      /\ UNCHANGED <<phase, rec, ct, file, rootfs, stops, streams, wl, used, count, lost>>
    BY <1>1 DEF acquire_vm, acquire_vm_fails, add_sandbox, insert_manager, At, store, maps, Busy
<1>3. /\ r \in Procs /\ l # Idle /\ Active(l) /\ l \in Local /\ l.s \in Sandboxes
      /\ TypeOK /\ Resources /\ wl \in [Sups -> Workload]
    BY <1>1, <1>2, BusyFacts
<1>4. l.op = "run"
    BY <1>2, <1>3 DEF Active, Flow, Through, Saving, StopPlaces
<1>5. ~ForRootfs(l) /\ ~ForPodDir(l)
    BY <1>2, <1>4 DEF ForRootfs, ForPodDir
<1>6. CASE acquire_vm(r)
  <2>1. /\ l.pc = "boot" /\ vm' = [vm EXCEPT ![l.s] = "up"] /\ Goto(r, "add") /\ "add" \in PC
        /\ UNCHANGED <<sb, mgr, net>>
      BY <1>1, <1>6 DEF acquire_vm, At, store, PC
  <2>2. PICK m : /\ loc' = [loc EXCEPT ![r] = m] /\ Same(l, m) /\ m.pc = "add"
                 /\ m.bs = l.bs /\ m.bc = l.bc
      BY <1>1, <1>3, <2>1, GotoFacts
  <2>3. m.s = l.s /\ Flow(m) /\ Booting(m) /\ ~Making(m) /\ ForVm(m) /\ ~Disconnected(m) /\ ~ForPod(l)
      BY <1>4, <2>1, <2>2 DEF Same, Flow, Through, Saving, Booting, Making, ForVm, ForPod, Point, Disconnected
  <2>4. Works(l, m)
      BY <1>2, <1>3, <2>1, <2>2, <2>3, BusyWorks
  <2>5. Resources' /\ \A s \in Sandboxes : s # l.s => vm'[s] = vm[s]
      BY <1>2, <1>3, <2>1 DEF Resources
  <2>6. Booting(l) /\ ~ForVm(l)
      BY <2>1 DEF Booting, ForVm, Point, Saving
  <2>7. Own(l, m)
      BY <1>2, <1>3, <1>4, <2>1, <2>3, <2>5 DEF Own
  <2>8. PodHas(l, m)
      BY <1>2, <2>1, <2>3 DEF PodHas
  <2>9. VmHas(l, m)
      BY <1>2, <2>1, <2>3, <2>5 DEF VmHas
  <2>10. NetHas(l, m)
      BY <1>2, <2>1, <2>3 DEF NetHas
  <2>11. DirHas(l, m)
      BY <1>2, <1>5 DEF DirHas
  <2> QED  BY <1>1, <1>2, <1>3, <2>2, <2>4, <2>5, <2>7, <2>8, <2>9, <2>10, <2>11, WorkInv
<1>7. CASE acquire_vm_fails(r)
  <2>1. /\ l.pc = "boot" /\ net' = net \ {l.s} /\ loc' = [loc EXCEPT ![r] = Idle]
        /\ UNCHANGED <<sb, mgr, vm>>
      BY <1>1, <1>7 DEF acquire_vm_fails, At, End, store
  <2>2. Works(l, Idle)
      BY <1>2, <1>3, BusyWorks
  <2>3. Resources'
      BY <1>2, <1>3, <2>1 DEF Resources
  <2>4. ~ForVm(l) /\ ~ForPod(l)
      BY <2>1 DEF ForVm, ForPod, Point, Saving
  <2>5. Own(l, Idle)
      BY <1>2, <1>3, <2>1, IdleBits DEF Own
  <2>6. PodHas(l, Idle)
      BY <1>2, <2>1, <2>4 DEF PodHas
  <2>7. VmHas(l, Idle)
      BY <1>2, <2>1, <2>4 DEF VmHas
  <2>8. NetHas(l, Idle)
      BY <1>2, <2>1 DEF NetHas
  <2>9. DirHas(l, Idle)
      BY <1>2, <1>5 DEF DirHas
  <2> QED  BY <1>1, <1>2, <1>3, <2>1, <2>2, <2>3, <2>5, <2>6, <2>7, <2>8, <2>9, WorkInv
<1>8. CASE add_sandbox(r)
  <2>1. /\ l.pc = "add" /\ sb' = [sb EXCEPT ![l.s] = "Ready"] /\ Persist(r, TRUE, "insert")
        /\ "insert" \in PC /\ UNCHANGED <<vm, mgr, net>>
      BY <1>1, <1>8 DEF add_sandbox, At, PC
  <2>2. PICK m : /\ loc' = [loc EXCEPT ![r] = m] /\ Same(l, m) /\ m.pc = "list" /\ m.ret = "insert"
                 /\ m.bs \in {l.bs, NoSandboxes} /\ m.bc \in {l.bc, NoContainers}
    <3>1. PICK x : x = [l EXCEPT !.pc = "list", !.ret = "insert"]
        OBVIOUS
    <3>2. loc' = [loc EXCEPT ![r] = x]
        BY <1>1, <2>1, <3>1 DEF Persist
    <3>3. "list" \in PC
        BY DEF PC
    <3>4. Same(l, x) /\ x.pc = "list" /\ x.ret = "insert" /\ x.bs = l.bs /\ x.bc = l.bc
        BY <1>3, <2>1, <3>1, <3>3 DEF Same, Local
    <3> QED  BY <3>2, <3>4
  <2>3. /\ m.s = l.s /\ Flow(m) /\ ~Booting(m) /\ ~Making(m) /\ ForVm(m) /\ ForPod(m)
        /\ ~Disconnected(m) /\ Booting(l)
      BY <1>4, <2>1, <2>2 DEF Same, Flow, Through, Saving, Booting, Making, ForVm, ForPod, Point, Disconnected
  <2>4. Works(l, m)
      BY <1>2, <1>3, <2>1, <2>2, <2>3, BusyWorks
  <2>5. Resources' /\ (\A s \in Sandboxes : s # l.s => sb'[s] = sb[s]) /\ sb'[l.s] = "Ready"
      BY <1>2, <1>3, <2>1 DEF Resources, SandboxState
  <2>6. Own(l, m)
      BY <1>2, <1>3, <1>4, <2>1, <2>3, <2>5 DEF Own
  <2>7. PodHas(l, m)
      BY <1>2, <2>1, <2>3, <2>5 DEF PodHas
  <2>8. VmHas(l, m)
      BY <1>2, <2>1, <2>3 DEF VmHas
  <2>9. NetHas(l, m)
      BY <1>2, <2>1, <2>3, <2>5 DEF NetHas
  <2>10. DirHas(l, m)
      BY <1>2, <1>5 DEF DirHas
  <2> QED  BY <1>1, <1>2, <1>3, <2>2, <2>4, <2>5, <2>6, <2>7, <2>8, <2>9, <2>10, WorkInv
<1>9. CASE insert_manager(r)
  <2>1. /\ l.pc = "insert" /\ mgr' = mgr \cup {l.s} /\ loc' = [loc EXCEPT ![r] = Idle]
        /\ UNCHANGED <<sb, net, vm>>
      BY <1>1, <1>9 DEF insert_manager, At, End, store
  <2>2. Works(l, Idle) /\ ~Booting(l)
      BY <1>2, <1>3, <2>1, BusyWorks DEF Booting
  <2>3. Resources'
      BY <1>2, <1>3, <2>1 DEF Resources
  <2>4. Own(l, Idle)
      BY <1>2, <1>3, <2>1, IdleBits DEF Own
  <2>5. PodHas(l, Idle)
      BY <1>2, <2>1 DEF PodHas
  <2>6. VmHas(l, Idle)
      BY <1>2, <2>1 DEF VmHas
  <2>7. NetHas(l, Idle)
      BY <1>2, <2>1, <2>2 DEF NetHas
  <2>8. DirHas(l, Idle)
      BY <1>2, <1>5 DEF DirHas
  <2> QED  BY <1>1, <1>2, <1>3, <2>1, <2>2, <2>3, <2>4, <2>5, <2>6, <2>7, <2>8, WorkInv
<1> QED  BY <1>6, <1>7, <1>8, <1>9

\* CreateContainer prepares the rootfs and adds the record.
LEMMA MakeInv ==
    ASSUME Inv, NEW r \in Reqs,
           \/ prepare_container_rootfs(r) \/ prepare_container_rootfs_fails(r)
           \/ add_container(r)
    PROVE  Inv'
<1>1. PICK l : l = loc[r]
    OBVIOUS
<1>2. /\ l.pc \in {"prepare", "addc"} /\ l.pc \in Busy
      /\ UNCHANGED <<phase, rec, sb, file, vm, mgr, net, stops, streams, wl, used, count, lost>>
    BY <1>1 DEF prepare_container_rootfs, prepare_container_rootfs_fails, add_container, At, store, maps, Busy
<1>3. /\ r \in Procs /\ l # Idle /\ Active(l) /\ l \in Local /\ l.s \in Sandboxes
      /\ TypeOK /\ Resources /\ wl \in [Sups -> Workload]
    BY <1>1, <1>2, BusyFacts
<1>4. l.op = "create" /\ l.c \in Containers
    BY <1>2, <1>3 DEF Active, Flow, Through, Saving, StopPlaces, OnContainer
<1>5. ~ForPod(l) /\ ~ForVm(l) /\ ~ForPodDir(l) /\ ~Booting(l)
    BY <1>2, <1>4 DEF ForPod, ForVm, ForPodDir, Booting
<1>6. CASE prepare_container_rootfs(r)
  <2>1. /\ l.pc = "prepare" /\ rootfs' = rootfs \cup {l.c} /\ Goto(r, "addc") /\ "addc" \in PC
        /\ UNCHANGED ct
      BY <1>1, <1>6 DEF prepare_container_rootfs, At, store, PC
  <2>2. PICK m : /\ loc' = [loc EXCEPT ![r] = m] /\ Same(l, m) /\ m.pc = "addc"
                 /\ m.bs = l.bs /\ m.bc = l.bc
      BY <1>1, <1>3, <2>1, GotoFacts
  <2>3. m.c = l.c /\ Flow(m) /\ ~Booting(m) /\ ForRootfs(m) /\ ~Disconnected(m) /\ ~ForRootfs(l)
      BY <1>4, <2>1, <2>2 DEF Same, Flow, Through, Saving, Booting, ForRootfs, Disconnected
  <2>4. Works(l, m)
      BY <1>2, <1>3, <2>1, <2>2, <2>3, BusyWorks
  <2>5. Resources'
      BY <1>2, <1>3, <1>4, <2>1 DEF Resources
  <2>6. Own(l, m)
      BY <1>2, <1>3, <2>1, <2>3 DEF Own
  <2>7. PodHas(l, m)
      BY <1>2, <1>5 DEF PodHas
  <2>8. VmHas(l, m)
      BY <1>2, <1>5 DEF VmHas
  <2>9. NetHas(l, m)
      BY <1>2, <1>5 DEF NetHas
  <2>10. DirHas(l, m)
      BY <1>2, <1>5, <2>1, <2>3 DEF DirHas
  <2> QED  BY <1>1, <1>2, <1>3, <2>1, <2>2, <2>4, <2>5, <2>6, <2>7, <2>8, <2>9, <2>10, WorkInv
<1>7. CASE prepare_container_rootfs_fails(r)
  <2>1. /\ l.pc = "prepare" /\ rootfs' = rootfs \ {l.c} /\ loc' = [loc EXCEPT ![r] = Idle]
        /\ UNCHANGED ct
      BY <1>1, <1>7 DEF prepare_container_rootfs_fails, At, End, store
  <2>2. Works(l, Idle)
      BY <1>2, <1>3, BusyWorks
  <2>3. Resources'
      BY <1>2, <1>3, <2>1 DEF Resources
  <2>4. ~ForRootfs(l)
      BY <1>4, <2>1 DEF ForRootfs
  <2>5. Own(l, Idle)
      BY <1>2, <1>3, <2>1, IdleBits DEF Own
  <2>6. PodHas(l, Idle)
      BY <1>2, <1>5 DEF PodHas
  <2>7. VmHas(l, Idle)
      BY <1>2, <1>5 DEF VmHas
  <2>8. NetHas(l, Idle)
      BY <1>2, <1>5 DEF NetHas
  <2>9. DirHas(l, Idle)
      BY <1>2, <1>5, <2>1, <2>4 DEF DirHas
  <2> QED  BY <1>1, <1>2, <1>3, <2>1, <2>2, <2>3, <2>5, <2>6, <2>7, <2>8, <2>9, WorkInv
<1>8. CASE add_container(r)
  <2>1. /\ l.pc = "addc" /\ ct' = [ct EXCEPT ![l.c] = Created] /\ Persist(r, TRUE, "idle")
        /\ UNCHANGED rootfs
      BY <1>1, <1>8 DEF add_container, At
  <2>2. PICK m : m = [l EXCEPT !.pc = "list", !.ret = "idle"]
      OBVIOUS
  <2>3. loc' = [loc EXCEPT ![r] = m]
      BY <1>1, <2>1, <2>2 DEF Persist
  <2>4. Same(l, m) /\ m.pc = "list" /\ m.ret = "idle" /\ m.bs = l.bs /\ m.bc = l.bc
    <3>1. {"list", "idle"} \subseteq PC
        BY DEF PC
    <3> QED  BY <1>3, <2>2, <3>1 DEF Same, Local
  <2>5. m.c = l.c /\ Flow(m) /\ ~Booting(m) /\ ~Making(m) /\ ~Disconnected(m)
      BY <1>4, <2>4 DEF Same, Flow, Through, Saving, Booting, Making, Disconnected
  <2>6. Works(l, m)
      BY <1>2, <1>3, <2>4, <2>5, BusyWorks
  <2>7. /\ Resources' /\ (\A c \in Containers : c # l.c => ct'[c] = ct[c]) /\ ct'[l.c].st = "Created"
      BY <1>2, <1>3, <1>4, <2>1 DEF Resources, Container, Created, Code
  <2>8. rootfs' \subseteq Containers
      BY <2>7 DEF Resources
  <2>9. Own(l, m)
      BY <1>2, <1>3, <1>4, <2>1, <2>5, <2>7 DEF Own
  <2>10. PodHas(l, m)
      BY <1>2, <1>5 DEF PodHas
  <2>11. VmHas(l, m)
      BY <1>2, <1>5 DEF VmHas
  <2>12. NetHas(l, m)
      BY <1>2, <1>5 DEF NetHas
  <2>13. DirHas(l, m)
      BY <1>2, <1>5, <2>1, <2>7, <2>8 DEF DirHas
  <2> QED  BY <1>1, <1>2, <1>3, <2>1, <2>3, <2>6, <2>7, <2>9, <2>10, <2>11, <2>12, <2>13, WorkInv
<1> QED  BY <1>6, <1>7, <1>8


\* Persist of a change that ends the request.
LEMMA PersistLast ==
    ASSUME NEW r \in Procs, NEW l \in Local, l = loc[r], NEW changed \in BOOLEAN,
           NEW next \in PC, Persist(r, changed, next), changed \/ next = "idle"
    PROVE  \E m : /\ loc' = [loc EXCEPT ![r] = m]
                  /\ changed => Same(l, m) /\ m.pc = "list" /\ m.ret = next /\ m.bs = l.bs /\ m.bc = l.bc
                  /\ ~changed => m = Idle
<1>1. PICK m : m = IF changed THEN [l EXCEPT !.pc = "list", !.ret = next] ELSE Idle
    OBVIOUS
<1>2. loc' = [loc EXCEPT ![r] = m]
    BY <1>1 DEF Persist, Continue
<1>3. "list" \in PC
    BY DEF PC
<1>4. changed => Same(l, m) /\ m.pc = "list" /\ m.ret = next /\ m.bs = l.bs /\ m.bc = l.bc
    BY <1>1, <1>3 DEF Same, Local
<1> QED  BY <1>1, <1>2, <1>4

\* A pod's manager leaves the map and its VM is destroyed.
LEMMA DestroyInv ==
    ASSUME Inv, NEW r \in Reqs, destroy_sandbox_vm(r) \/ destroy_vm(r) \/ destroy_vm_fails(r)
    PROVE  Inv'
<1>1. PICK l : l = loc[r]
    OBVIOUS
<1>2. /\ l.pc \in {"take", "kill"} /\ l.pc \in Busy
      /\ UNCHANGED <<phase, rec, sb, ct, file, net, rootfs, stops, streams, wl, used, count>>
    BY <1>1 DEF destroy_sandbox_vm, destroy_vm, destroy_vm_fails, At, store, maps, Busy
<1>3. /\ r \in Procs /\ l # Idle /\ Active(l) /\ l \in Local /\ l.s \in Sandboxes
      /\ TypeOK /\ Resources /\ wl \in [Sups -> Workload]
    BY <1>1, <1>2, BusyFacts
<1>4. l.op \in {"stop", "remove", "stopc", "removec"}
    BY <1>2, <1>3 DEF Active, Flow, Through, Saving
<1>5. /\ ~ForRootfs(l) /\ ~ForPodDir(l) /\ ~Booting(l) /\ (l.pc # "kill" => ~ForPod(l) /\ ~ForVm(l))
      /\ l.op = "remove" => sb[l.s] # "Ready"
  <2>1. l.op = "remove" => sb[l.s] # "Ready"
      BY <1>1 DEF Inv, Removal
  <2> QED  BY <1>2, <1>4, <2>1 DEF ForRootfs, ForPodDir, Booting, ForPod, ForVm, Point, Saving
<1>6. ASSUME NEW x \in {"kill", "net"}, Goto(r, x)
      PROVE  \E m : /\ loc' = [loc EXCEPT ![r] = m] /\ Works(l, m) /\ m.s = l.s /\ m.pc = x
                    /\ ~Disconnected(m) /\ (l.op # "remove" => ForPod(m)) /\ (x = "kill" => ForVm(m))
  <2>1. x \in PC
      BY DEF PC
  <2>2. PICK m : /\ loc' = [loc EXCEPT ![r] = m] /\ Same(l, m) /\ m.pc = x
                 /\ m.bs = l.bs /\ m.bc = l.bc
      BY <1>1, <1>3, <1>6, <2>1, GotoFacts
  <2>3. m.s = l.s /\ Flow(m) /\ ~Booting(m) /\ ~Making(m)
      BY <1>4, <2>2 DEF Same, Flow, Through, Saving, Booting, Making, StopPlaces
  <2>4. ~Disconnected(m) /\ (l.op # "remove" => ForPod(m)) /\ (x = "kill" => ForVm(m))
      BY <2>2 DEF Same, Disconnected, Point, Saving, ForPod, ForVm
  <2>5. Works(l, m)
      BY <1>2, <1>3, <2>2, <2>3, BusyWorks
  <2> QED  BY <2>2, <2>3, <2>4, <2>5
<1>7. CASE destroy_sandbox_vm(r)
  <2>1. /\ l.pc = "take" /\ mgr' = mgr \ {l.s} /\ UNCHANGED <<vm, lost>>
        /\ Goto(r, IF l.s \in mgr THEN "kill" ELSE "net")
      BY <1>1, <1>7 DEF destroy_sandbox_vm, At
  <2>2. PICK x \in {"kill", "net"} : x = IF l.s \in mgr THEN "kill" ELSE "net"
      OBVIOUS
  <2>3. PICK m : /\ loc' = [loc EXCEPT ![r] = m] /\ Works(l, m) /\ m.s = l.s /\ m.pc = x
                 /\ ~Disconnected(m) /\ (l.op # "remove" => ForPod(m)) /\ (x = "kill" => ForVm(m))
      BY <1>6, <2>1, <2>2
  <2>4. Resources'
      BY <1>2, <1>3, <2>1 DEF Resources
  <2>5. Own(l, m)
      BY <1>2, <2>1, <2>3 DEF Own
  <2>6. PodHas(l, m)
      BY <1>2, <1>5, <2>1, <2>3 DEF PodHas
  <2>7. VmHas(l, m)
      BY <1>2, <1>5, <2>1, <2>2, <2>3 DEF VmHas
  <2>8. NetHas(l, m)
      BY <1>2, <1>5, <2>1 DEF NetHas
  <2>9. DirHas(l, m)
      BY <1>2, <1>5 DEF DirHas
  <2> QED  BY <1>1, <1>2, <1>3, <2>3, <2>4, <2>5, <2>6, <2>7, <2>8, <2>9, WorkInv
<1>8. CASE destroy_vm(r)
  <2>1. /\ l.pc = "kill" /\ vm' = [vm EXCEPT ![l.s] = "gone"] /\ Goto(r, "net")
        /\ UNCHANGED <<mgr, lost>>
      BY <1>1, <1>8 DEF destroy_vm, At
  <2>2. PICK m : /\ loc' = [loc EXCEPT ![r] = m] /\ Works(l, m) /\ m.s = l.s /\ m.pc = "net"
                 /\ ~Disconnected(m) /\ (l.op # "remove" => ForPod(m))
      BY <1>6, <2>1
  <2>3. /\ Resources' /\ (\A s \in Sandboxes : s # l.s => vm'[s] = vm[s])
        /\ vm'[l.s] = "gone"
      BY <1>2, <1>3, <2>1 DEF Resources
  <2>4. Own(l, m)
      BY <1>2, <2>1, <2>2, <2>3 DEF Own
  <2>5. PodHas(l, m)
      BY <1>2, <1>5, <2>1, <2>2 DEF PodHas
  <2>6. VmHas(l, m)
      BY <1>2, <2>1, <2>3 DEF VmHas
  <2>7. NetHas(l, m)
      BY <1>2, <1>5, <2>1 DEF NetHas
  <2>8. DirHas(l, m)
      BY <1>2, <1>5 DEF DirHas
  <2> QED  BY <1>1, <1>2, <1>3, <2>2, <2>3, <2>4, <2>5, <2>6, <2>7, <2>8, WorkInv
<1>9. CASE destroy_vm_fails(r)
  <2>1. /\ l.pc = "kill" /\ lost' = lost \cup {l.s} /\ loc' = [loc EXCEPT ![r] = Idle]
        /\ UNCHANGED <<vm, mgr>>
      BY <1>1, <1>9 DEF destroy_vm_fails, At, End
  <2>2. Works(l, Idle)
      BY <1>2, <1>3, BusyWorks
  <2>3. Resources'
      BY <1>2, <1>3, <2>1 DEF Resources
  <2>4. Own(l, Idle)
      BY <1>2, <2>1, IdleBits DEF Own
  <2>5. PodHas(l, Idle)
      BY <1>2, <2>1 DEF PodHas
  <2>6. VmHas(l, Idle)
      BY <1>2, <2>1 DEF VmHas
  <2>7. NetHas(l, Idle)
      BY <1>2, <2>1 DEF NetHas
  <2>8. DirHas(l, Idle)
      BY <1>2, <1>5 DEF DirHas
  <2> QED  BY <1>1, <1>2, <1>3, <2>1, <2>2, <2>3, <2>4, <2>5, <2>6, <2>7, <2>8, WorkInv
<1> QED  BY <1>7, <1>8, <1>9

\* The endpoint of a pod is released, its record is NotReady or about to go.
LEMMA DisconnectInv ==
    ASSUME Inv, NEW r \in Reqs,
           \/ stop_pod_network(r) \/ stop_container_not_ready(r)
           \/ stop_container_network(r) \/ remove_pod_network(r)
    PROVE  Inv'
<1>1. PICK l : l = loc[r]
    OBVIOUS
<1>2. /\ l.pc \in {"net", "netc"} /\ l.pc \in Busy
      /\ UNCHANGED <<phase, rec, ct, file, vm, mgr, rootfs, stops, streams, wl, used, count, lost>>
    BY <1>1 DEF stop_pod_network, stop_container_not_ready, stop_container_network,
          remove_pod_network, At, store, maps, Busy
<1>3. /\ r \in Procs /\ l # Idle /\ Active(l) /\ l \in Local /\ l.s \in Sandboxes
      /\ TypeOK /\ Resources /\ wl \in [Sups -> Workload]
    BY <1>1, <1>2, BusyFacts
<1>4. /\ l.op \in {"stop", "remove", "stopc", "removec"}
      /\ l.pc = "netc" => l.op \in {"stopc", "removec"}
    BY <1>2, <1>3 DEF Active, Flow, Through, Saving, StopPlaces
<1>5. /\ ~ForRootfs(l) /\ ~ForPodDir(l) /\ ~Booting(l) /\ ~ForVm(l)
      /\ l.op = "remove" \/ l.pc = "netc" => ~ForPod(l)
    BY <1>2, <1>4 DEF ForRootfs, ForPodDir, Booting, ForVm, ForPod, Point, Saving
<1>6. CASE stop_pod_network(r) \/ stop_container_not_ready(r)
  <2>1. PICK changed \in BOOLEAN : changed = (sb[l.s] # "none")
      OBVIOUS
  <2>2. PICK next : next = IF l.op = "stop" THEN "idle" ELSE "netc"
      OBVIOUS
  <2>3. /\ l.op # "remove" /\ Persist(r, changed, next)
        /\ net' \subseteq net
        /\ sb' = [sb EXCEPT ![l.s] = IF @ = "none" THEN @ ELSE "NotReady"]
      BY <1>1, <1>6, <2>1, <2>2 DEF stop_pod_network, stop_container_not_ready, update_sandbox_state
  <2>4. next \in PC
      BY <2>2 DEF PC
  <2>5. PICK m : /\ loc' = [loc EXCEPT ![r] = m]
                 /\ \/ m = Idle
                    \/ /\ Same(l, m) /\ m.bs \in {l.bs, NoSandboxes} /\ m.bc \in {l.bc, NoContainers}
                       /\ (m.pc = "list" /\ m.ret = next) \/ (m.pc = next /\ next # "idle")
    <3>1. CASE next = "idle"
        BY <1>1, <1>3, <2>3, <2>4, <3>1, PersistLast
    <3>2. CASE next # "idle"
        BY <1>1, <1>3, <2>3, <2>4, <3>2, PersistFacts
    <3> QED  BY <3>1, <3>2
  <2>6. ~Disconnected(m) /\ (m # Idle => Flow(m) /\ ~Booting(m) /\ ~Making(m))
      BY <1>4, <2>2, <2>3, <2>5, IdleBits DEF Same, Flow, Through, Saving, Booting, Making,
             StopPlaces, StopReturns, Disconnected
  <2>7. Works(l, m)
      BY <1>2, <1>3, <2>5, <2>6, BusyWorks DEF Booting
  <2>8. /\ Resources' /\ (\A s \in Sandboxes : s # l.s => sb'[s] = sb[s])
        /\ (sb[l.s] = "none" => sb'[l.s] = "none") /\ sb'[l.s] # "Ready"
        /\ (sb'[l.s] = "none" => sb[l.s] = "none")
      BY <1>2, <1>3, <2>3 DEF Resources, SandboxState
  <2>9. net' \subseteq net
      BY <2>3
  <2>10. Own(l, m)
      BY <1>2, <2>6, <2>8, <2>9 DEF Own
  <2>11. PodHas(l, m)
      BY <1>2, <2>8 DEF PodHas
  <2>12. VmHas(l, m)
      BY <1>2, <1>5 DEF VmHas
  <2>13. NetHas(l, m)
      BY <1>2, <1>5, <2>8, <2>9 DEF NetHas
  <2>14. DirHas(l, m)
      BY <1>2, <1>5 DEF DirHas
  <2> QED  BY <1>1, <1>2, <1>3, <2>5, <2>7, <2>8, <2>10, <2>11, <2>12, <2>13, <2>14, WorkInv
<1>7. CASE stop_container_network(r)
  <2>1. /\ l.pc = "netc" /\ Goto(r, "mark137") /\ "mark137" \in PC
        /\ net' \subseteq net /\ UNCHANGED sb
      BY <1>1, <1>7 DEF stop_container_network, At, store, PC
  <2>2. PICK m : /\ loc' = [loc EXCEPT ![r] = m] /\ Same(l, m) /\ m.pc = "mark137"
                 /\ m.bs = l.bs /\ m.bc = l.bc
      BY <1>1, <1>3, <2>1, GotoFacts
  <2>3. Flow(m) /\ ~Booting(m) /\ ~Making(m) /\ ~Disconnected(m)
      BY <1>4, <2>1, <2>2 DEF Same, Flow, Through, Saving, Booting, Making, StopPlaces, Disconnected
  <2>4. Works(l, m)
      BY <1>2, <1>3, <2>2, <2>3, BusyWorks
  <2>5. Resources'
      BY <1>2, <1>3, <2>1 DEF Resources
  <2>6. Own(l, m)
      BY <1>2, <2>1, <2>3 DEF Own
  <2>7. PodHas(l, m)
      BY <1>2, <1>5, <2>1 DEF PodHas
  <2>8. VmHas(l, m)
      BY <1>2, <1>5 DEF VmHas
  <2>9. NetHas(l, m)
      BY <1>2, <1>5, <2>1 DEF NetHas
  <2>10. DirHas(l, m)
      BY <1>2, <1>5 DEF DirHas
  <2> QED  BY <1>1, <1>2, <1>3, <2>2, <2>4, <2>5, <2>6, <2>7, <2>8, <2>9, <2>10, WorkInv
<1>8. CASE remove_pod_network(r)
  <2>1. /\ l.op = "remove" /\ net' = net \ {l.s} /\ Goto(r, "rmcts") /\ "rmcts" \in PC
        /\ UNCHANGED sb
      BY <1>1, <1>8 DEF remove_pod_network, At, store, PC
  <2>2. PICK m : /\ loc' = [loc EXCEPT ![r] = m] /\ Same(l, m) /\ m.pc = "rmcts"
                 /\ m.bs = l.bs /\ m.bc = l.bc
      BY <1>1, <1>3, <2>1, GotoFacts
  <2>3. Flow(m) /\ ~Booting(m) /\ ~Making(m)
      BY <2>1, <2>2 DEF Same, Flow, Through, Saving, Booting, Making
  <2>4. Works(l, m)
      BY <1>2, <1>3, <2>2, <2>3, BusyWorks
  <2>5. Resources'
      BY <1>2, <1>3, <2>1 DEF Resources
  <2>6. Own(l, m)
      BY <1>2, <2>1 DEF Own
  <2>7. PodHas(l, m)
      BY <1>2, <1>5, <2>1 DEF PodHas
  <2>8. VmHas(l, m)
      BY <1>2, <1>5 DEF VmHas
  <2>9. NetHas(l, m)
      BY <1>2, <1>5, <2>1 DEF NetHas
  <2>10. DirHas(l, m)
      BY <1>2, <1>5 DEF DirHas
  <2> QED  BY <1>1, <1>2, <1>3, <2>2, <2>4, <2>5, <2>6, <2>7, <2>8, <2>9, <2>10, WorkInv
<1> QED  BY <1>6, <1>7, <1>8


\* RemovePodSandbox removes the containers, their directories and the record.
LEMMA RemoveInv ==
    ASSUME Inv, NEW r \in Reqs,
           remove_containers_by_sandbox(r) \/ remove_pod_rootfs(r) \/ remove_sandbox(r)
    PROVE  Inv'
<1>1. PICK l : l = loc[r]
    OBVIOUS
<1>2. /\ l.pc \in {"rmcts", "rmdirs", "rmsb"} /\ l.pc \in Busy
      /\ UNCHANGED <<phase, rec, file, vm, mgr, net, stops, streams, wl, used, count, lost>>
    BY <1>1 DEF remove_containers_by_sandbox, remove_pod_rootfs, remove_sandbox, At, store, maps, Busy
<1>3. /\ r \in Procs /\ l # Idle /\ Active(l) /\ l \in Local /\ l.s \in Sandboxes
      /\ TypeOK /\ Resources /\ wl \in [Sups -> Workload]
    BY <1>1, <1>2, BusyFacts
<1>4. l.op = "remove"
    BY <1>2, <1>3 DEF Active, Flow, Through, Saving, StopPlaces
<1>5. /\ ~ForRootfs(l) /\ ~Booting(l) /\ ~ForVm(l) /\ ~ForPod(l) /\ Disconnected(l)
      /\ (l.pc # "rmdirs" => ~ForPodDir(l))
    BY <1>2, <1>4 DEF ForRootfs, ForPodDir, Booting, ForVm, ForPod, Point, Saving, Disconnected
<1>6. l.s \notin net
    BY <1>1, <1>5 DEF Inv, Removal
<1>7. CASE remove_containers_by_sandbox(r)
  <2>1. PICK x : x = IF InPod(l.s) = {} THEN "unmap" ELSE "list"
      OBVIOUS
  <2>2. PICK y : y = IF InPod(l.s) = {} THEN "idle" ELSE "unmap"
      OBVIOUS
  <2>3. PICK m : m = [l EXCEPT !.ids = InPod(l.s), !.pc = x, !.ret = y]
      OBVIOUS
  <2>4. /\ l.pc = "rmcts" /\ loc' = [loc EXCEPT ![r] = m] /\ UNCHANGED <<sb, rootfs>>
        /\ ct' = [c \in Containers |-> IF Pod[c] = l.s THEN NoContainer ELSE ct[c]]
      BY <1>1, <1>7, <2>1, <2>2, <2>3 DEF remove_containers_by_sandbox, At
  <2>5. /\ Same(l, m) /\ m.bs = l.bs /\ m.bc = l.bc
        /\ m.pc = "unmap" \/ (m.pc = "list" /\ m.ret = "unmap")
    <3>1. x \in PC /\ y \in PC /\ InPod(l.s) \subseteq Containers
        BY <2>1, <2>2 DEF PC, InPod
    <3> QED  BY <1>3, <2>1, <2>2, <2>3, <3>1 DEF Same, Local
  <2>6. Flow(m) /\ ~Booting(m) /\ ~Making(m) /\ ForPodDir(m) /\ m.s = l.s
      BY <1>4, <2>5 DEF Same, Flow, Through, Saving, Booting, Making, ForPodDir, Point
  <2>7. Works(l, m)
      BY <1>2, <1>3, <2>5, <2>6, BusyWorks DEF Booting
  <2>8. /\ Resources'
        /\ \A c \in Containers : (Pod[c] # l.s => ct'[c] = ct[c]) /\ (Pod[c] = l.s => ct'[c].st = "none")
      BY <1>2, <1>3, <2>4 DEF Resources, Container, NoContainer, Code
  <2>9. Own(l, m)
      BY <1>2, <1>5, <2>4, <2>8 DEF Own
  <2>10. PodHas(l, m)
      BY <1>2, <1>5, <2>4 DEF PodHas
  <2>11. VmHas(l, m)
      BY <1>2, <1>5 DEF VmHas
  <2>12. NetHas(l, m)
      BY <1>2, <1>5, <2>4 DEF NetHas
  <2>13. DirHas(l, m)
    <3>1. rootfs \subseteq Containers
        BY <1>3 DEF Resources
    <3> QED  BY <1>5, <2>4, <2>6, <2>8, <3>1 DEF DirHas
  <2> QED  BY <1>1, <1>2, <1>3, <2>4, <2>7, <2>8, <2>9, <2>10, <2>11, <2>12, <2>13, WorkInv
<1>8. CASE remove_pod_rootfs(r)
  <2>1. /\ l.pc = "rmdirs" /\ rootfs' = {c \in rootfs : Pod[c] # l.s} /\ Goto(r, "rmsb")
        /\ "rmsb" \in PC /\ UNCHANGED <<sb, ct>>
      BY <1>1, <1>8 DEF remove_pod_rootfs, At, store, PC
  <2>2. PICK m : /\ loc' = [loc EXCEPT ![r] = m] /\ Same(l, m) /\ m.pc = "rmsb"
                 /\ m.bs = l.bs /\ m.bc = l.bc
      BY <1>1, <1>3, <2>1, GotoFacts
  <2>3. Flow(m) /\ ~Booting(m) /\ ~Making(m)
      BY <1>4, <2>2 DEF Same, Flow, Through, Saving, Booting, Making
  <2>4. Works(l, m)
      BY <1>2, <1>3, <2>2, <2>3, BusyWorks
  <2>5. Resources'
      BY <1>2, <1>3, <2>1 DEF Resources
  <2>6. Own(l, m)
      BY <1>2, <1>5, <2>1 DEF Own
  <2>7. PodHas(l, m)
      BY <1>2, <1>5, <2>1 DEF PodHas
  <2>8. VmHas(l, m)
      BY <1>2, <1>5 DEF VmHas
  <2>9. NetHas(l, m)
      BY <1>2, <1>5, <2>1 DEF NetHas
  <2>10. DirHas(l, m)
      BY <1>2, <1>5, <2>1 DEF DirHas
  <2> QED  BY <1>1, <1>2, <1>3, <2>2, <2>4, <2>5, <2>6, <2>7, <2>8, <2>9, <2>10, WorkInv
<1>9. CASE remove_sandbox(r)
  <2>1. PICK changed \in BOOLEAN : changed = (sb[l.s] # "none")
      OBVIOUS
  <2>2. /\ l.pc = "rmsb" /\ sb' = [sb EXCEPT ![l.s] = "none"] /\ Persist(r, changed, "idle")
        /\ "idle" \in PC /\ UNCHANGED <<ct, rootfs>>
      BY <1>1, <1>9, <2>1 DEF remove_sandbox, At, PC
  <2>3. PICK m : /\ loc' = [loc EXCEPT ![r] = m]
                 /\ \/ m = Idle
                    \/ Same(l, m) /\ m.pc = "list" /\ m.ret = "idle" /\ m.bs = l.bs /\ m.bc = l.bc
      BY <1>1, <1>3, <2>2, PersistLast
  <2>4. m # Idle => Flow(m) /\ ~Booting(m) /\ ~Making(m)
      BY <1>4, <2>3 DEF Same, Flow, Through, Saving, Booting, Making
  <2>5. Works(l, m)
      BY <1>2, <1>3, <2>3, <2>4, BusyWorks DEF Booting
  <2>6. Resources' /\ (\A s \in Sandboxes : s # l.s => sb'[s] = sb[s]) /\ sb'[l.s] = "none"
      BY <1>2, <1>3, <2>2 DEF Resources, SandboxState
  <2>7. Own(l, m)
      BY <1>2, <1>5, <2>2, <2>6 DEF Own
  <2>8. PodHas(l, m)
      BY <1>2, <2>6 DEF PodHas
  <2>9. VmHas(l, m)
      BY <1>2, <1>5 DEF VmHas
  <2>10. NetHas(l, m)
      BY <1>2, <1>5, <1>6, <2>6 DEF NetHas
  <2>11. DirHas(l, m)
    <3>1. ~ForPodDir(l)
        BY <1>5, <2>2
    <3> QED  BY <1>5, <2>2, <3>1 DEF DirHas
  <2> QED  BY <1>1, <1>2, <1>3, <2>3, <2>5, <2>6, <2>7, <2>8, <2>9, <2>10, <2>11, WorkInv
<1> QED  BY <1>7, <1>8, <1>9

\* RemoveContainer removes the record, then the registry entries and the directory.
LEMMA RemoveContainerInv ==
    ASSUME Inv, NEW r \in Reqs, remove_container_delete(r) \/ remove_container_cleanup(r)
    PROVE  Inv'
<1>1. PICK l : l = loc[r]
    OBVIOUS
<1>2. /\ l.pc \in {"delete", "undir"} /\ l.pc \in Busy
      /\ UNCHANGED <<phase, rec, sb, file, vm, mgr, net, used, count, lost>>
    BY <1>1 DEF remove_container_delete, remove_container_cleanup, At, store, maps, Busy
<1>3. /\ r \in Procs /\ l # Idle /\ Active(l) /\ l \in Local /\ l.s \in Sandboxes
      /\ TypeOK /\ Resources /\ wl \in [Sups -> Workload]
    BY <1>1, <1>2, BusyFacts
<1>4. l.op = "removec" /\ l.c \in Containers
    BY <1>2, <1>3 DEF Active, Flow, Through, Saving, StopPlaces, OnContainer
<1>5. /\ ~ForPodDir(l) /\ ~Booting(l) /\ ~ForVm(l) /\ ~ForPod(l)
      /\ (l.pc = "delete" => ~ForRootfs(l))
    BY <1>2, <1>4 DEF ForRootfs, ForPodDir, Booting, ForVm, ForPod, Point, Saving
<1>6. CASE remove_container_delete(r)
  <2>1. PICK changed \in BOOLEAN : changed = (ct[l.c].st # "none")
      OBVIOUS
  <2>2. /\ l.pc = "delete" /\ ct' = [ct EXCEPT ![l.c] = NoContainer]
        /\ UNCHANGED <<rootfs, stops, streams, wl>>
        /\ ~changed => loc' = [loc EXCEPT ![r] = Idle]
        /\ changed => Persist(r, changed, "undir")
    <3>1. Persist(r, TRUE, "undir") /\ changed => Persist(r, changed, "undir")
        BY DEF Persist
    <3> QED  BY <1>1, <1>6, <2>1, <3>1 DEF remove_container_delete, At, End, maps
  <2>3. PICK m : /\ loc' = [loc EXCEPT ![r] = m]
                 /\ changed => Same(l, m) /\ m.pc = "list" /\ m.ret = "undir" /\ m.bs = l.bs /\ m.bc = l.bc
                 /\ ~changed => m = Idle
    <3>1. "undir" \in PC
        BY DEF PC
    <3>2. CASE changed
      <4>1. PICK m : m = [l EXCEPT !.pc = "list", !.ret = "undir"]
          OBVIOUS
      <4>2. loc' = [loc EXCEPT ![r] = m]
          BY <1>1, <2>2, <3>2, <4>1 DEF Persist
      <4>3. "list" \in PC
          BY DEF PC
      <4>4. Same(l, m) /\ m.pc = "list" /\ m.ret = "undir" /\ m.bs = l.bs /\ m.bc = l.bc
          BY <1>3, <3>1, <4>1, <4>3 DEF Same, Local
      <4> QED  BY <3>2, <4>2, <4>4
    <3>3. CASE ~changed
        BY <2>2, <3>3
    <3> QED  BY <3>2, <3>3
  <2>4. /\ changed => Flow(m) /\ ~Booting(m) /\ ~Making(m) /\ ForRootfs(m) /\ m.c = l.c
        /\ ~Disconnected(m)
      BY <1>4, <2>3, IdleBits DEF Same, Flow, Through, Saving, Booting, Making, ForRootfs, Point,
             StopReturns, Disconnected
  <2>5. Works(l, m)
      BY <1>2, <1>3, <2>3, <2>4, BusyWorks DEF Booting
  <2>6. /\ Resources' /\ (\A c \in Containers : c # l.c => ct'[c] = ct[c]) /\ ct'[l.c].st = "none"
      BY <1>2, <1>3, <1>4, <2>2 DEF Resources, Container, NoContainer, Code
  <2>7. Own(l, m)
      BY <1>2, <2>4, <2>6 DEF Own
  <2>8. PodHas(l, m)
      BY <1>2, <1>5 DEF PodHas
  <2>9. VmHas(l, m)
      BY <1>2, <1>5 DEF VmHas
  <2>10. NetHas(l, m)
      BY <1>2, <1>5 DEF NetHas
  <2>11. DirHas(l, m)
    <3>1. rootfs \subseteq Containers
        BY <1>3 DEF Resources
    <3> QED  BY <1>5, <2>1, <2>2, <2>4, <2>6, <3>1 DEF DirHas
  <2> QED  BY <1>1, <1>2, <1>3, <2>2, <2>3, <2>5, <2>6, <2>7, <2>8, <2>9, <2>10, <2>11, WorkInv
<1>7. CASE remove_container_cleanup(r)
  <2>1. /\ l.pc = "undir" /\ rootfs' = rootfs \ {l.c} /\ loc' = [loc EXCEPT ![r] = Idle]
        /\ Unregister({l.c}) /\ UNCHANGED ct
      BY <1>1, <1>7 DEF remove_container_cleanup, At, End, store
  <2>2. Works(l, Idle)
      BY <1>2, <1>3, BusyWorks
  <2>3. Resources'
      BY <1>2, <1>3, <2>1 DEF Resources
  <2>4. Own(l, Idle)
      BY <1>2, <2>1, IdleBits DEF Own
  <2>5. PodHas(l, Idle)
      BY <1>2, <1>5 DEF PodHas
  <2>6. VmHas(l, Idle)
      BY <1>2, <1>5 DEF VmHas
  <2>7. NetHas(l, Idle)
      BY <1>2, <1>5 DEF NetHas
  <2>8. DirHas(l, Idle)
      BY <1>5, <2>1 DEF DirHas
  <2>9. \E C \in SUBSET Containers : Unregister(C)
    <3>1. {l.c} \in SUBSET Containers
        BY <1>4
    <3> QED  BY <2>1, <3>1
  <2> QED  BY <1>1, <1>2, <1>3, <2>1, <2>2, <2>3, <2>4, <2>5, <2>6, <2>7, <2>8, <2>9, WorkInv
<1> QED  BY <1>6, <1>7


-----------------------------------------------------------------------------
(* Workload slots                                                          *)

\* What a start or a supervisor on its way to the next place keeps.
LEMMA SlotStep ==
    ASSUME Inv, NEW p \in Procs, NEW l, l = loc[p], l # Idle, NEW m, loc' = [loc EXCEPT ![p] = m],
           l.op \in {"start", "sup"},
           m = Idle \/ (Active(m) /\ m.op = l.op /\ m.s = l.s /\ m.c = l.c /\ m.bs = l.bs /\ m.bc = l.bc),
           wl' \in [Sups -> Workload], stops' \subseteq Containers, streams' \subseteq Containers,
           UNCHANGED <<phase, rec, sb, ct, file, vm, mgr, net, rootfs, used, count, lost>>
    PROVE  /\ StepOf(p, m) /\ Shape' /\ Phases' /\ Recovery' /\ Minted' /\ Young'
           /\ Removal' /\ Serving'
<1>1. TypeOK /\ Minted /\ Active(l)
    BY DEF Inv, Shape
<1>2. ASSUME NEW x, Active(x), x.op \in {"start", "sup"}
      PROVE  /\ ~Booting(x) /\ ~Making(x) /\ ~Disconnected(x) /\ ~ForPod(x) /\ ~ForVm(x)
             /\ ~ForRootfs(x) /\ ~ForPodDir(x)
    BY <1>2 DEF Active, Flow, Through, Saving, Booting, Making, Disconnected, ForPod, ForVm, ForRootfs,
           ForPodDir, Point
<1>3. Mild(l, m)
    BY <1>1, <1>2, IdleBits DEF Mild
<1>4. m \in Local
    BY IdleFacts DEF Active
<1>5. TypeOK'
    BY <1>1, <1>4 DEF TypeOK
<1>6. \A s \in Sandboxes \ used : file'.sb[s] = "none" /\ m.bs[s] = "none"
    BY <1>1, IdleFacts DEF Minted
<1>7. \A c \in Containers \ used : file'.ct[c].st = "none" /\ m.bc[c].st = "none"
    BY <1>1, IdleFacts DEF Minted
<1> QED  BY <1>3, <1>5, <1>6, <1>7, MildMost

\* StartContainer takes a free slot.
LEMMA LaunchInv ==
    ASSUME Inv, NEW r \in Reqs, launch(r)
    PROVE  Inv'
<1>1. PICK l : l = loc[r]
    OBVIOUS
<1>2. PICK w \in Sups : /\ wl[w] = NoWorkload
                        /\ wl' = [wl EXCEPT ![w] = [c |-> l.c, guest |-> "run", stop |-> "none"]]
                        /\ loc' = [loc EXCEPT ![r].pc = "started", ![r].w = w]
    BY <1>1 DEF launch
<1>3. /\ l.pc = "launch" /\ r \in Procs /\ w \in Procs /\ w # r
      /\ UNCHANGED <<phase, rec, sb, ct, file, vm, mgr, net, rootfs, stops, streams, used, count, lost>>
    BY <1>1, CriAssumption DEF launch, At, store, maps, Procs
<1>4. l # Idle /\ Active(l) /\ l \in Local /\ TypeOK /\ Slots
    BY <1>1, <1>3, Somewhere DEF At, Inv, Shape
<1>5. l.op = "start" /\ l.c \in Containers /\ l.w = None
    BY <1>3, <1>4 DEF Active, Flow, Through, Saving, StopPlaces, OnContainer, Point
<1>6. PICK m : m = [l EXCEPT !.pc = "started", !.w = w]
    OBVIOUS
<1>7. loc' = [loc EXCEPT ![r] = m]
    BY <1>1, <1>2, <1>6
<1>8. /\ m \in Local /\ m.pc = "started" /\ m.w = w /\ m.op = l.op /\ m.s = l.s /\ m.c = l.c
      /\ m.bs = l.bs /\ m.bc = l.bc
  <2>1. "started" \in PC
      BY DEF PC
  <2> QED  BY <1>4, <1>6, <2>1 DEF Local
<1>9. Active(m)
    BY <1>4, <1>5, <1>8 DEF Active, Flow, Through, Saving, Point
<1>10. wl' \in [Sups -> Workload] /\ wl'[w].c = l.c /\ \A v \in Sups : v # w => wl'[v] = wl[v]
    BY <1>2, <1>4, <1>5 DEF TypeOK, Workload
<1>11. /\ StepOf(r, m) /\ Shape' /\ Phases' /\ Recovery' /\ Minted' /\ Young'
       /\ Removal' /\ Serving'
  <2>1. stops' \subseteq Containers /\ streams' \subseteq Containers
      BY <1>3, <1>4 DEF TypeOK
  <2> QED  BY <1>1, <1>3, <1>4, <1>5, <1>7, <1>8, <1>9, <1>10, <2>1, SlotStep
<1>12. loc'[r] = m /\ \A q \in Procs : q # r => loc'[q] = loc[q]
    BY <1>1, <1>3, <1>4, <1>11, StepLocals
<1>13. Reqs \subseteq Procs /\ Sups \subseteq Procs /\ Reqs \cap Sups = {} /\ None \notin Containers \cup Sups
    BY CriAssumption DEF Procs
<1>14. loc[w] = Idle /\ \A q \in Reqs : loc[q].w # w
    BY <1>2, <1>4 DEF Slots, NoWorkload
<1>15. Slots'
  <2>1. ASSUME NEW v \in Sups, wl'[v].c = None
        PROVE  loc'[v] = Idle /\ \A q \in Reqs : loc'[q].w # v
    <3>1. v # w /\ wl[v].c = None
        BY <1>5, <1>10, <1>13, <2>1
    <3>2. loc[v] = Idle /\ \A q \in Reqs : loc[q].w # v
        BY <1>4, <3>1 DEF Slots
    <3> QED  BY <1>8, <1>12, <1>13, <3>1, <3>2
  <2>2. ASSUME NEW q \in Reqs, loc'[q].w # None
        PROVE  loc'[loc'[q].w] = Idle /\ \A k \in Reqs \ {q} : loc'[k].w # loc'[q].w
    <3>1. CASE q = r
      <4>1. loc'[q].w = w /\ loc'[w] = Idle
          BY <1>3, <1>8, <1>12, <1>14, <3>1
      <4> QED  BY <1>12, <1>13, <1>14, <3>1, <4>1
    <3>2. CASE q # r
      <4>1. PICK u : u = loc[q].w
          OBVIOUS
      <4>2. loc'[q].w = u /\ u # None /\ u # w
          BY <1>12, <1>13, <1>14, <2>2, <3>2, <4>1
      <4>3. u \in Sups
          BY <1>4, <1>13, <4>1, <4>2 DEF TypeOK, Local
      <4>4. loc[u] = Idle /\ \A k \in Reqs \ {q} : loc[k].w # u
          BY <1>4, <4>1, <4>2 DEF Slots
      <4>5. loc'[u] = Idle
          BY <1>12, <1>13, <4>3, <4>4
      <4> QED  BY <1>8, <1>12, <1>13, <4>2, <4>4, <4>5
    <3> QED  BY <3>1, <3>2
  <2> QED  BY <2>1, <2>2 DEF Slots
<1>16. RegistriesBacked'
  <2>1. stops' \subseteq stops /\ streams' \subseteq streams /\ loc[r].pc # "spawn" /\ loc[r].op # "sup"
      BY <1>1, <1>3, <1>5
  <2> QED  BY <1>1, <1>3, <1>4, <1>11, <2>1, RegistriesKept
<1> QED  BY <1>11, <1>15, <1>16 DEF Inv

\* StartContainer registers the stop channel and the streams.
LEMMA RegisterInv ==
    ASSUME Inv, NEW r \in Reqs, register(r)
    PROVE  Inv'
<1>1. PICK l : l = loc[r]
    OBVIOUS
<1>2. /\ l.pc = "register" /\ r \in Procs /\ Goto(r, "spawn") /\ "spawn" \in PC
      /\ stops' = stops \cup {l.c} /\ streams' = streams \cup {l.c}
      /\ wl' = [wl EXCEPT ![l.w].stop = "open"]
      /\ UNCHANGED <<phase, rec, sb, ct, file, vm, mgr, net, rootfs, used, count, lost>>
    BY <1>1 DEF register, At, store, Procs, PC
<1>3. l # Idle /\ Active(l) /\ l \in Local /\ TypeOK
    BY <1>1, <1>2, Somewhere DEF At, Inv, Shape
<1>4. l.op = "start" /\ l.c \in Containers /\ l.w \in Sups
    BY <1>2, <1>3 DEF Active, Flow, Through, Saving, StopPlaces, OnContainer, Point
<1>5. PICK m : /\ loc' = [loc EXCEPT ![r] = m] /\ Same(l, m) /\ m.pc = "spawn"
               /\ m.bs = l.bs /\ m.bc = l.bc
    BY <1>1, <1>2, GotoFacts
<1>6. Active(m)
    BY <1>3, <1>4, <1>5 DEF Active, Same, Flow, Through, Saving, Point, OnContainer
<1>7. wl' \in [Sups -> Workload] /\ \A w \in Sups : wl'[w].c = wl[w].c
  <2>1. PICK w \in Sups : w = l.w
      BY <1>4
  <2>2. wl' = [wl EXCEPT ![w].stop = "open"] /\ wl \in [Sups -> Workload]
      BY <1>2, <1>3, <2>1 DEF TypeOK
  <2> QED  BY <2>2 DEF Workload
<1>8. /\ StepOf(r, m) /\ Shape' /\ Phases' /\ Recovery' /\ Minted' /\ Young'
      /\ Removal' /\ Serving'
  <2>1. stops' \subseteq Containers /\ streams' \subseteq Containers
      BY <1>2, <1>3, <1>4 DEF TypeOK
  <2> QED  BY <1>1, <1>2, <1>3, <1>4, <1>5, <1>6, <1>7, <2>1, SlotStep DEF Same
<1>9. Slots'
  <2>1. m.w \in {loc[r].w, None}
      BY <1>1, <1>5 DEF Same
  <2> QED  BY <1>1, <1>2, <1>3, <1>7, <1>8, <2>1, SlotsKept
<1>10. loc'[r] = m /\ \A q \in Procs : q # r => loc'[q] = loc[q]
    BY <1>1, <1>2, <1>3, <1>8, StepLocals
<1>11. RegistriesBacked'
  <2> SUFFICES ASSUME NEW c \in stops' \cup streams'
               PROVE  \/ \E w \in Sups : loc'[w].op = "sup" /\ loc'[w].c = c
                      \/ \E q \in Reqs : loc'[q].op = "start" /\ loc'[q].c = c /\ loc'[q].pc = "spawn"
      BY DEF RegistriesBacked, At
  <2>1. CASE c = l.c
      BY <1>4, <1>5, <1>10, <2>1 DEF Same
  <2>2. CASE c # l.c
    <3>1. \/ \E w \in Sups : loc[w].op = "sup" /\ loc[w].c = c
          \/ \E q \in Reqs : loc[q].op = "start" /\ loc[q].c = c /\ loc[q].pc = "spawn"
        BY <1>2, <2>2 DEF Inv, RegistriesBacked, At
    <3> QED  BY <1>1, <1>10, <2>2, <3>1, <1>4 DEF Procs
  <2> QED  BY <2>1, <2>2
<1> QED  BY <1>8, <1>9, <1>11 DEF Inv

\* The supervisor ends: its entries and its slot go.
LEMMA CleanInv ==
    ASSUME Inv, NEW w \in Sups, supervisor_clean(w)
    PROVE  Inv'
<1>1. PICK l : l = loc[w]
    OBVIOUS
<1>2. /\ l.pc = "clean" /\ w \in Procs /\ loc' = [loc EXCEPT ![w] = Idle]
      /\ stops' = stops \ {l.c} /\ streams' = streams \ {l.c}
      /\ wl' = [v \in Sups |->
                  IF v = w THEN NoWorkload
                  ELSE IF wl[v].c = l.c /\ wl[v].stop = "open"
                       THEN [wl[v] EXCEPT !.stop = "dropped"] ELSE wl[v]]
      /\ UNCHANGED <<phase, rec, sb, ct, file, vm, mgr, net, rootfs, used, count, lost>>
    BY <1>1 DEF supervisor_clean, At, End, store, Procs
<1>3. l # Idle /\ Active(l) /\ l.op = "sup" /\ TypeOK /\ Slots
    BY <1>1, <1>2, Somewhere DEF At, Inv, Shape
<1>4. /\ wl' \in [Sups -> Workload]
      /\ \A v \in Sups : v # w => wl'[v].c = wl[v].c
  <2>1. wl \in [Sups -> Workload] /\ NoWorkload \in Workload
      BY <1>3 DEF TypeOK, NoWorkload, Workload
  <2>2. \A v \in Sups : [wl[v] EXCEPT !.stop = "dropped"] \in Workload
                        /\ [wl[v] EXCEPT !.stop = "dropped"].c = wl[v].c
      BY <2>1 DEF Workload
  <2>3. \A v \in Sups : v # w => wl'[v] \in {wl[v], [wl[v] EXCEPT !.stop = "dropped"]}
      BY <1>2
  <2> QED  BY <1>2, <2>1, <2>2, <2>3
<1>5. /\ StepOf(w, Idle) /\ Shape' /\ Phases' /\ Recovery' /\ Minted' /\ Young'
      /\ Removal' /\ Serving'
  <2>1. stops' \subseteq Containers /\ streams' \subseteq Containers
      BY <1>2, <1>3 DEF TypeOK
  <2> QED  BY <1>1, <1>2, <1>3, <1>4, <2>1, SlotStep
<1>6. loc'[w] = Idle /\ \A q \in Procs : q # w => loc'[q] = loc[q]
    BY <1>1, <1>2, <1>3, <1>5, StepLocals
<1>7. Reqs \subseteq Procs /\ Sups \subseteq Procs /\ Reqs \cap Sups = {} /\ None \notin Sups
    BY CriAssumption DEF Procs
<1>8. \A r \in Reqs : loc[r].w # w
    BY <1>1, <1>3, <1>7 DEF Slots
<1>9. Slots'
  <2>1. ASSUME NEW v \in Sups, wl'[v].c = None
        PROVE  loc'[v] = Idle /\ \A q \in Reqs : loc'[q].w # v
      BY <1>3, <1>4, <1>6, <1>7, <1>8, <2>1 DEF Slots
  <2>2. ASSUME NEW q \in Reqs, loc'[q].w # None
        PROVE  loc'[loc'[q].w] = Idle /\ \A k \in Reqs \ {q} : loc'[k].w # loc'[q].w
    <3>1. PICK u : u = loc[q].w
        OBVIOUS
    <3>2. loc'[q].w = u /\ u # None
        BY <1>6, <1>7, <2>2, <3>1
    <3>3. u \in Sups
        BY <1>3, <1>7, <3>1, <3>2 DEF TypeOK, Local
    <3>4. loc[u] = Idle /\ \A k \in Reqs \ {q} : loc[k].w # u
        BY <1>3, <3>1, <3>2 DEF Slots
    <3> QED  BY <1>6, <1>7, <3>2, <3>3, <3>4
  <2> QED  BY <2>1, <2>2 DEF Slots
<1>10. RegistriesBacked'
  <2> SUFFICES ASSUME NEW c \in stops' \cup streams'
               PROVE  \/ \E v \in Sups : loc'[v].op = "sup" /\ loc'[v].c = c
                      \/ \E q \in Reqs : loc'[q].op = "start" /\ loc'[q].c = c /\ loc'[q].pc = "spawn"
      BY DEF RegistriesBacked, At
  <2>1. c # l.c /\ c \in stops \cup streams
      BY <1>2
  <2>2. \/ \E v \in Sups : loc[v].op = "sup" /\ loc[v].c = c
        \/ \E q \in Reqs : loc[q].op = "start" /\ loc[q].c = c /\ loc[q].pc = "spawn"
      BY <2>1 DEF Inv, RegistriesBacked, At
  <2> QED  BY <1>1, <1>6, <1>7, <2>1, <2>2
<1> QED  BY <1>5, <1>9, <1>10 DEF Inv


\* StartContainer hands its slot to the supervisor.
LEMMA SpawnInv ==
    ASSUME Inv, NEW r \in Reqs, spawn_supervisor(r)
    PROVE  Inv'
<1>1. PICK l : l = loc[r]
    OBVIOUS
<1>2. PICK w : w = l.w
    OBVIOUS
<1>3. PICK m : m = [Idle EXCEPT !.op = "sup", !.pc = "watch", !.s = l.s, !.c = l.c]
    OBVIOUS
<1>4. /\ l.pc = "spawn" /\ r \in Procs
      /\ wl' = [wl EXCEPT ![w].stop = IF @ = "none" THEN "dropped" ELSE @]
      /\ loc' = [loc EXCEPT ![r] = Idle, ![w] = m]
      /\ UNCHANGED <<phase, rec, sb, ct, file, vm, mgr, net, rootfs, stops, streams, used, count, lost>>
    BY <1>1, <1>2, <1>3 DEF spawn_supervisor, At, store, maps, Procs
<1>5. l # Idle /\ Active(l) /\ l \in Local /\ TypeOK /\ phase = "serve"
    BY <1>1, <1>4, Somewhere DEF At, Inv, Shape
<1>6. l.op = "start" /\ l.c \in Containers /\ l.s \in Sandboxes /\ w \in Sups
    BY <1>2, <1>4, <1>5 DEF Active, Flow, Through, Saving, StopPlaces, OnContainer, Point
<1>7. Reqs \subseteq Procs /\ Sups \subseteq Procs /\ Reqs \cap Sups = {} /\ None \notin Containers \cup Sups
    BY CriAssumption DEF Procs
<1>8. loc[w] = Idle /\ \A q \in Reqs \ {r} : loc[q].w # w
    BY <1>1, <1>2, <1>6, <1>7 DEF Inv, Slots
<1>9. loc'[r] = Idle /\ loc'[w] = m /\ \A q \in Procs : q # r /\ q # w => loc'[q] = loc[q]
  <2>1. loc \in [Procs -> Local] /\ r # w
      BY <1>5, <1>6, <1>7 DEF TypeOK
  <2> QED  BY <1>4, <1>6, <1>7, <2>1
<1>10. /\ m \in Local /\ m.op = "sup" /\ m.pc = "watch" /\ m.s = l.s /\ m.c = l.c /\ m.w = None
       /\ m.bs = NoSandboxes /\ m.bc = NoContainers
  <2>1. "watch" \in PC /\ "sup" \in Op
      BY DEF PC, Op
  <2>2. Idle \in Local /\ Idle.w = None /\ Idle.bs = NoSandboxes /\ Idle.bc = NoContainers
      BY IdleFacts DEF Idle
  <2> QED  BY <1>3, <1>6, <2>1, <2>2 DEF Local
<1>11. Active(m)
    BY <1>6, <1>10 DEF Active, Flow, Through, Saving, OnContainer
<1>12. \A q \in Reqs : loc'[q] = Idle \/ (q # r /\ loc'[q] = loc[q])
    BY <1>6, <1>7, <1>9
<1>13. \A q \in Reqs : q # r => loc'[q] = loc[q]
    BY <1>6, <1>7, <1>9
<1>14. wl' \in [Sups -> Workload] /\ \A v \in Sups : wl'[v].c = wl[v].c
  <2>1. PICK x : x = IF wl[w].stop = "none" THEN "dropped" ELSE wl[w].stop
      OBVIOUS
  <2>2. wl' = [wl EXCEPT ![w] = [wl[w] EXCEPT !.stop = x]] /\ wl \in [Sups -> Workload]
      BY <1>4, <1>5, <2>1 DEF TypeOK
  <2>3. x \in {"none", "open", "sent", "cancelled", "dropped"}
      BY <1>6, <2>1, <2>2 DEF Workload
  <2> QED  BY <1>6, <2>2, <2>3 DEF Workload
<1>15. Shape'
  <2>1. loc' \in [Procs -> Local]
      BY <1>4, <1>5, <1>10, IdleFacts DEF TypeOK
  <2>2. TypeOK'
      BY <1>4, <1>5, <1>14, <2>1 DEF TypeOK
  <2>3. \A q \in Procs : loc'[q] = Idle \/ Active(loc'[q])
      BY <1>9, <1>11 DEF Inv, Shape
  <2>4. \A q \in Reqs : loc'[q].op # "sup"
      BY <1>12, IdleFacts DEF Inv, Shape
  <2>5. \A v \in Sups : loc'[v] = Idle \/ loc'[v].op = "sup"
      BY <1>7, <1>9, <1>10 DEF Inv, Shape
  <2> QED  BY <2>2, <2>3, <2>4, <2>5 DEF Shape, Active, Flow, Through, Point
<1>16. Phases' /\ Recovery'
    BY <1>4, <1>5, PhasesKept
<1>17. Minted'
  <2>1. \A s \in Sandboxes \ used : \A q \in Procs : loc'[q].bs[s] = "none"
      BY <1>9, <1>10, IdleFacts DEF Inv, Minted, NoSandboxes
  <2>2. \A c \in Containers \ used : \A q \in Procs : loc'[q].bc[c].st = "none"
      BY <1>9, <1>10, IdleFacts DEF Inv, Minted, NoContainers, NoContainer
  <2>3. \A q \in Reqs : /\ loc'[q].op \in {"run", "remove"} => loc'[q].s \in used
                        /\ loc'[q].op = "create" => loc'[q].c \in used
      BY <1>12, IdleFacts DEF Inv, Minted
  <2> QED  BY <1>4, <2>1, <2>2, <2>3 DEF Inv, Minted
<1>18. ~Booting(l) /\ ~Making(l) /\ ~ForPod(l) /\ ~ForVm(l) /\ ~ForRootfs(l) /\ ~ForPodDir(l)
    BY <1>4, <1>6 DEF Booting, Making, ForPod, ForVm, ForRootfs, ForPodDir
<1>19. Young'
  <2>1. \A q \in Reqs : Booting(loc'[q]) \/ Making(loc'[q]) => loc'[q] = loc[q]
      BY <1>12, IdleBits
  <2>2. \A q \in Reqs : loc'[q].op \in {"run", "remove", "create"} => loc'[q] = loc[q]
      BY <1>12, IdleFacts
  <2>3. ASSUME NEW q \in Reqs, Booting(loc'[q])
        PROVE  /\ sb'[loc'[q].s] = "none"
               /\ loc'[q].pc = "boot" => vm'[loc'[q].s] # "up"
               /\ \A k \in Reqs \ {q} : loc'[k].op \in {"run", "remove"} => loc'[k].s # loc'[q].s
    <3>1. PICK x : x = loc[q]
        OBVIOUS
    <3>2. loc'[q] = x /\ Booting(x)
        BY <2>1, <2>3, <3>1
    <3>3. /\ sb[x.s] = "none" /\ (x.pc = "boot" => vm[x.s] # "up")
          /\ \A k \in Reqs \ {q} : loc[k].op \in {"run", "remove"} => loc[k].s # x.s
        BY <3>1, <3>2 DEF Inv, Young
    <3> QED  BY <1>4, <2>2, <3>2, <3>3
  <2>4. ASSUME NEW q \in Reqs, Making(loc'[q])
        PROVE  /\ ct'[loc'[q].c].st = "none"
               /\ \A k \in Reqs \ {q} : loc'[k].op = "create" => loc'[k].c # loc'[q].c
    <3>1. PICK x : x = loc[q]
        OBVIOUS
    <3>2. loc'[q] = x /\ Making(x)
        BY <2>1, <2>4, <3>1
    <3>3. ct[x.c].st = "none" /\ \A k \in Reqs \ {q} : loc[k].op = "create" => loc[k].c # x.c
        BY <3>1, <3>2 DEF Inv, Young
    <3> QED  BY <1>4, <2>2, <3>2, <3>3
  <2> QED  BY <2>3, <2>4 DEF Young, Booting, Making
<1>20. Removal'
  <2>1. \A q \in Reqs : loc'[q].op = "remove" \/ Disconnected(loc'[q]) => loc'[q] = loc[q]
      BY <1>12, IdleFacts, IdleBits
  <2>2. ASSUME NEW q \in Reqs
        PROVE  /\ loc'[q].op = "remove" => sb'[loc'[q].s] # "Ready"
               /\ Disconnected(loc'[q]) => loc'[q].s \notin net'
    <3>1. PICK x : x = loc[q]
        OBVIOUS
    <3>2. (x.op = "remove" => sb[x.s] # "Ready") /\ (Disconnected(x) => x.s \notin net)
        BY <3>1 DEF Inv, Removal
    <3>3. loc'[q].op = "remove" \/ Disconnected(loc'[q]) => loc'[q] = x
        BY <2>1, <3>1
    <3> QED  BY <1>4, <3>2, <3>3
  <2> QED  BY <2>2 DEF Removal, Disconnected, Point
<1>21. Serving'
  <2>0. Serving
      BY DEF Inv
  <2>1. ASSUME NEW s \in Sandboxes \ lost
        PROVE  sb[s] = "Ready" => s \in mgr \/ \E q \in Reqs : loc'[q].s = s /\ ForPod(loc'[q])
    <3>1. CASE \E q \in Reqs : loc[q].s = s /\ ForPod(loc[q])
        BY <1>1, <1>13, <1>18, <3>1
    <3> QED  BY <1>5, <2>0, <3>1 DEF Serving
  <2>2. ASSUME NEW s \in Sandboxes \ lost
        PROVE  vm[s] = "up" => s \in mgr \/ \E q \in Reqs : loc'[q].s = s /\ ForVm(loc'[q])
    <3>1. CASE \E q \in Reqs : loc[q].s = s /\ ForVm(loc[q])
        BY <1>1, <1>13, <1>18, <3>1
    <3> QED  BY <1>5, <2>0, <3>1 DEF Serving
  <2>3. ASSUME NEW s \in Sandboxes \ lost
        PROVE  s \in net => sb[s] # "none" \/ \E q \in Reqs : loc'[q].s = s /\ Booting(loc'[q])
    <3>1. CASE \E q \in Reqs : loc[q].s = s /\ Booting(loc[q])
        BY <1>1, <1>13, <1>18, <3>1
    <3> QED  BY <1>5, <2>0, <3>1 DEF Serving
  <2>4. ASSUME NEW c \in rootfs
        PROVE  \/ ct[c].st # "none" \/ Pod[c] \in lost
               \/ \E q \in Reqs : \/ loc'[q].c = c /\ ForRootfs(loc'[q])
                                  \/ loc'[q].s = Pod[c] /\ ForPodDir(loc'[q])
    <3>1. CASE \E q \in Reqs : \/ loc[q].c = c /\ ForRootfs(loc[q])
                               \/ loc[q].s = Pod[c] /\ ForPodDir(loc[q])
        BY <1>1, <1>13, <1>18, <3>1
    <3> QED  BY <1>5, <2>0, <3>1 DEF Serving
  <2> QED  BY <1>4, <2>1, <2>2, <2>3, <2>4, ServingKept
<1>22. Slots'
  <2>1. wl[w].c # None
      BY <1>1, <1>2, <1>6 DEF Inv, Slots
  <2>2. ASSUME NEW v \in Sups, wl'[v].c = None
        PROVE  loc'[v] = Idle /\ \A q \in Reqs : loc'[q].w # v
    <3>1. v # w /\ loc[v] = Idle /\ \A q \in Reqs : loc[q].w # v
        BY <1>14, <2>1, <2>2 DEF Inv, Slots
    <3> QED  BY <1>7, <1>9, <1>12, <3>1, IdleFacts
  <2>3. ASSUME NEW q \in Reqs, loc'[q].w # None
        PROVE  loc'[loc'[q].w] = Idle /\ \A k \in Reqs \ {q} : loc'[k].w # loc'[q].w
    <3>1. PICK u : u = loc[q].w
        OBVIOUS
    <3>2. q # r /\ loc'[q].w = u /\ u # None
        BY <1>12, <2>3, <3>1, IdleFacts
    <3>3. u # w /\ u \in Sups
        BY <1>5, <1>7, <1>8, <3>1, <3>2 DEF TypeOK, Local
    <3>4. loc[u] = Idle /\ \A k \in Reqs \ {q} : loc[k].w # u
        BY <3>1, <3>2 DEF Inv, Slots
    <3> QED  BY <1>7, <1>9, <1>12, <3>2, <3>3, <3>4, IdleFacts
  <2> QED  BY <2>2, <2>3 DEF Slots
<1>23. RegistriesBacked'
  <2> SUFFICES ASSUME NEW c \in stops' \cup streams'
               PROVE  \/ \E v \in Sups : loc'[v].op = "sup" /\ loc'[v].c = c
                      \/ \E q \in Reqs : loc'[q].op = "start" /\ loc'[q].c = c /\ loc'[q].pc = "spawn"
      BY DEF RegistriesBacked, At
  <2>1. CASE c = l.c
      BY <1>6, <1>9, <1>10, <2>1
  <2>2. CASE c # l.c
    <3>1. \/ \E v \in Sups : loc[v].op = "sup" /\ loc[v].c = c
          \/ \E q \in Reqs : loc[q].op = "start" /\ loc[q].c = c /\ loc[q].pc = "spawn"
        BY <1>4 DEF Inv, RegistriesBacked, At
    <3>2. CASE \E v \in Sups : loc[v].op = "sup" /\ loc[v].c = c
        BY <1>7, <1>8, <1>9, <3>2, IdleFacts
    <3>3. CASE \E q \in Reqs : loc[q].op = "start" /\ loc[q].c = c /\ loc[q].pc = "spawn"
        BY <1>1, <1>13, <2>2, <3>3
    <3> QED  BY <3>1, <3>2, <3>3
  <2> QED  BY <2>1, <2>2
<1> QED  BY <1>15, <1>16, <1>17, <1>19, <1>20, <1>21, <1>22, <1>23 DEF Inv


-----------------------------------------------------------------------------
(* New requests                                                            *)

\* The local of a new request, and what is known of the ids it names.
Fresh(m) ==
    /\ Active(m) /\ m.op \in Ops /\ m.w = None /\ m.bs = NoSandboxes /\ m.bc = NoContainers
    /\ m.pc \in {"boot", "prepare", "launch", "exec", "stopread", "delete", "signal", "take"}
    /\ m.op = "run" => m.s \notin used
    /\ m.op = "create" => m.c \notin used
    /\ m.op = "remove" => sb[m.s] = "NotReady"

\* A request arrives.
LEMMA IssueInv ==
    ASSUME Inv, NEW r \in Reqs, NEW m, Issue(r, m), Fresh(m),
           UNCHANGED <<phase, rec, sb, ct, file, vm, mgr, rootfs, stops, streams, wl, lost>>,
           used' = used \cup (IF m.op = "run" THEN {m.s} ELSE IF m.op = "create" THEN {m.c} ELSE {}),
           net' = IF m.op = "run" THEN net \cup {m.s} ELSE net
    PROVE  Inv'
<1>1. /\ phase = "serve" /\ At(r, "idle") /\ loc' = [loc EXCEPT ![r] = m] /\ count.reqs < MaxReqs
      /\ count' = [count EXCEPT !.reqs = @ + 1]
    BY DEF Issue
<1>2. TypeOK /\ Minted /\ Young /\ Removal /\ Serving /\ Slots /\ RegistriesBacked
    BY DEF Inv, Shape
<1>3. Reqs \subseteq Procs /\ Sups \subseteq Procs /\ Reqs \cap Sups = {} /\ None \notin Sups
    BY CriAssumption DEF Procs
<1>4. loc[r] = Idle
  <2>1. ~Active(loc[r])
      BY <1>1 DEF At, Active, Flow, Through, Saving, StopPlaces
  <2> QED  BY <1>3, <2>1 DEF Inv, Shape
<1>5. /\ Active(m) /\ m \in Local /\ m.s \in Sandboxes /\ m.op \in Op \ {"sup"}
      /\ m.op = "create" => m.c \in Containers
    BY CriAssumption DEF Fresh, Active, OnContainer
<1>6. /\ Booting(m) => m.op = "run"
      /\ Making(m) => m.op = "create"
      /\ m.op = "run" => Booting(m)
      /\ ~Disconnected(m)
    BY <1>5 DEF Fresh, Active, Flow, Through, Saving, Booting, Making, Disconnected, Point, StopPlaces
<1>7. loc'[r] = m /\ \A q \in Procs : q # r => loc'[q] = loc[q]
    BY <1>1, <1>2, <1>3 DEF TypeOK
<1>8. used \subseteq used' /\ net \subseteq net' /\ (m.op # "run" => net' = net)
    OBVIOUS
<1>9. Shape'
  <2>1. loc' \in [Procs -> Local]
      BY <1>1, <1>2, <1>5 DEF TypeOK
  <2>2. count' \in [reqs : 0..MaxReqs, crashes : 0..MaxCrashes, deaths : 0..MaxDeaths]
      BY <1>1, <1>2, CriAssumption DEF TypeOK
  <2>3. used' \subseteq Sandboxes \cup Containers /\ net' \subseteq Sandboxes
      BY <1>2, <1>5 DEF TypeOK
  <2>4. TypeOK'
      BY <1>2, <2>1, <2>2, <2>3 DEF TypeOK
  <2>5. \A q \in Procs : loc'[q] = Idle \/ Active(loc'[q])
      BY <1>5, <1>7 DEF Inv, Shape
  <2>6. \A q \in Reqs : loc'[q].op # "sup"
      BY <1>3, <1>5, <1>7 DEF Inv, Shape
  <2>7. \A w \in Sups : loc'[w] = Idle \/ loc'[w].op = "sup"
      BY <1>3, <1>7 DEF Inv, Shape
  <2> QED  BY <2>4, <2>5, <2>6, <2>7 DEF Shape, Active, Flow, Through, Point
<1>10. Phases' /\ Recovery'
    BY <1>1, PhasesKept
<1>11. Minted'
  <2>1. \A s \in Sandboxes \ used' : \A q \in Procs : loc'[q].bs[s] = "none"
      BY <1>2, <1>7, <1>8 DEF Fresh, Minted, NoSandboxes
  <2>2. \A c \in Containers \ used' : \A q \in Procs : loc'[q].bc[c].st = "none"
      BY <1>2, <1>7, <1>8 DEF Fresh, Minted, NoContainers, NoContainer
  <2>3. /\ m.op \in {"run", "remove"} => m.s \in used'
        /\ m.op = "create" => m.c \in used'
      BY <1>2, <1>5 DEF Fresh, Minted
  <2>4. \A q \in Reqs : /\ loc'[q].op \in {"run", "remove"} => loc'[q].s \in used'
                        /\ loc'[q].op = "create" => loc'[q].c \in used'
      BY <1>2, <1>3, <1>7, <1>8, <2>3 DEF Minted
  <2> QED  BY <1>2, <1>8, <2>1, <2>2, <2>4 DEF Minted
<1>12. \A q \in Reqs : /\ Booting(loc[q]) => loc[q].op = "run" /\ loc[q].s \in used
                       /\ Making(loc[q]) => loc[q].op = "create" /\ loc[q].c \in used
  <2>1. ASSUME NEW q \in Reqs
        PROVE  /\ Booting(loc[q]) => loc[q].op = "run"
               /\ Making(loc[q]) => loc[q].op = "create"
    <3>1. CASE Active(loc[q])
        BY <3>1 DEF Active, Flow, Through, Saving, Booting, Making, StopPlaces
    <3> QED  BY <1>3, <3>1, IdleBits DEF Inv, Shape
  <2> QED  BY <1>2, <2>1 DEF Minted
<1>13. Young'
  <2>1. ASSUME NEW q \in Reqs, Booting(loc'[q])
        PROVE  /\ sb'[loc'[q].s] = "none"
               /\ loc'[q].pc = "boot" => vm'[loc'[q].s] # "up"
               /\ \A k \in Reqs \ {q} : loc'[k].op \in {"run", "remove"} => loc'[k].s # loc'[q].s
    <3>1. CASE q = r
      <4>1. loc'[q] = m /\ m.s \notin used
          BY <1>6, <1>7, <1>3, <2>1, <3>1 DEF Fresh
      <4>2. sb[m.s] = "none" /\ vm[m.s] # "up"
          BY <1>2, <1>5, <4>1 DEF Minted
      <4>3. \A k \in Reqs \ {q} : loc'[k].op \in {"run", "remove"} => loc'[k].s \in used
          BY <1>2, <1>3, <1>7, <3>1 DEF Minted
      <4> QED  BY <4>1, <4>2, <4>3
    <3>2. CASE q # r
      <4>1. PICK x : x = loc[q]
          OBVIOUS
      <4>2. loc'[q] = x /\ Booting(x) /\ x.s \in used
          BY <1>3, <1>7, <1>12, <2>1, <3>2, <4>1
      <4>3. /\ sb[x.s] = "none" /\ (x.pc = "boot" => vm[x.s] # "up")
            /\ \A k \in Reqs \ {q} : loc[k].op \in {"run", "remove"} => loc[k].s # x.s
          BY <1>2, <4>1, <4>2 DEF Young
      <4>4. m.op \in {"run", "remove"} => m.s # x.s
          BY <4>2, <4>3 DEF Fresh
      <4> QED  BY <1>3, <1>7, <4>2, <4>3, <4>4
    <3> QED  BY <3>1, <3>2
  <2>2. ASSUME NEW q \in Reqs, Making(loc'[q])
        PROVE  /\ ct'[loc'[q].c].st = "none"
               /\ \A k \in Reqs \ {q} : loc'[k].op = "create" => loc'[k].c # loc'[q].c
    <3>1. CASE q = r
      <4>1. loc'[q] = m /\ m.c \notin used /\ m.c \in Containers
          BY <1>5, <1>6, <1>7, <1>3, <2>2, <3>1 DEF Fresh
      <4>2. ct[m.c].st = "none"
          BY <1>2, <4>1 DEF Minted
      <4>3. \A k \in Reqs \ {q} : loc'[k].op = "create" => loc'[k].c \in used
          BY <1>2, <1>3, <1>7, <3>1 DEF Minted
      <4> QED  BY <4>1, <4>2, <4>3
    <3>2. CASE q # r
      <4>1. PICK x : x = loc[q]
          OBVIOUS
      <4>2. loc'[q] = x /\ Making(x) /\ x.c \in used
          BY <1>3, <1>7, <1>12, <2>2, <3>2, <4>1
      <4>3. ct[x.c].st = "none" /\ \A k \in Reqs \ {q} : loc[k].op = "create" => loc[k].c # x.c
          BY <1>2, <4>1, <4>2 DEF Young
      <4>4. m.op = "create" => m.c # x.c
          BY <4>2 DEF Fresh
      <4> QED  BY <1>3, <1>7, <4>2, <4>3, <4>4
    <3> QED  BY <3>1, <3>2
  <2> QED  BY <2>1, <2>2 DEF Young, Booting, Making
<1>14. Removal'
  <2>1. ASSUME NEW q \in Reqs
        PROVE  /\ loc'[q].op = "remove" => sb'[loc'[q].s] # "Ready"
               /\ Disconnected(loc'[q]) => loc'[q].s \notin net'
    <3>1. CASE q = r
        BY <1>3, <1>6, <1>7, <3>1 DEF Fresh
    <3>2. CASE q # r
      <4>1. PICK x : x = loc[q]
          OBVIOUS
      <4>2. loc'[q] = x
          BY <1>3, <1>7, <3>2, <4>1
      <4>3. /\ x.op = "remove" => sb[x.s] # "Ready" /\ x.s \in used
            /\ Disconnected(x) => x.op = "remove" /\ x.s \notin net
          BY <1>2, <4>1 DEF Removal, Minted, Disconnected
      <4>4. m.op = "run" => m.s \notin used
          BY DEF Fresh
      <4> QED  BY <4>2, <4>3, <4>4
    <3> QED  BY <3>1, <3>2
  <2> QED  BY <2>1 DEF Removal, Disconnected, Point
<1>15. Serving'
  <2>1. ASSUME NEW s \in Sandboxes \ lost
        PROVE  sb[s] = "Ready" => s \in mgr \/ \E q \in Reqs : loc'[q].s = s /\ ForPod(loc'[q])
    <3>1. CASE \E q \in Reqs : loc[q].s = s /\ ForPod(loc[q])
        BY <1>3, <1>4, <1>7, <3>1, IdleBits
    <3> QED  BY <1>1, <1>2, <3>1 DEF Serving
  <2>2. ASSUME NEW s \in Sandboxes \ lost
        PROVE  vm[s] = "up" => s \in mgr \/ \E q \in Reqs : loc'[q].s = s /\ ForVm(loc'[q])
    <3>1. CASE \E q \in Reqs : loc[q].s = s /\ ForVm(loc[q])
        BY <1>3, <1>4, <1>7, <3>1, IdleBits
    <3> QED  BY <1>1, <1>2, <3>1 DEF Serving
  <2>3. ASSUME NEW s \in Sandboxes \ lost, s \in net'
        PROVE  sb[s] # "none" \/ \E q \in Reqs : loc'[q].s = s /\ Booting(loc'[q])
    <3>1. CASE \E q \in Reqs : loc[q].s = s /\ Booting(loc[q])
        BY <1>3, <1>4, <1>7, <3>1, IdleBits
    <3>2. CASE s \notin net
        BY <1>3, <1>6, <1>7, <2>3, <3>2
    <3> QED  BY <1>1, <1>2, <3>1, <3>2 DEF Serving
  <2>4. ASSUME NEW c \in rootfs
        PROVE  \/ ct[c].st # "none" \/ Pod[c] \in lost
               \/ \E q \in Reqs : \/ loc'[q].c = c /\ ForRootfs(loc'[q])
                                  \/ loc'[q].s = Pod[c] /\ ForPodDir(loc'[q])
    <3>1. CASE \E q \in Reqs : \/ loc[q].c = c /\ ForRootfs(loc[q])
                               \/ loc[q].s = Pod[c] /\ ForPodDir(loc[q])
        BY <1>3, <1>4, <1>7, <3>1, IdleBits
    <3> QED  BY <1>1, <1>2, <3>1 DEF Serving
  <2> QED  BY <2>1, <2>2, <2>3, <2>4, ServingKept
<1>16. Slots'
  <2>1. m.w = None
      BY DEF Fresh
  <2>2. ASSUME NEW w \in Sups, wl'[w].c = None
        PROVE  loc'[w] = Idle /\ \A q \in Reqs : loc'[q].w # w
      BY <1>2, <1>3, <1>7, <2>1, <2>2 DEF Slots
  <2>3. ASSUME NEW q \in Reqs, loc'[q].w # None
        PROVE  loc'[loc'[q].w] = Idle /\ \A k \in Reqs \ {q} : loc'[k].w # loc'[q].w
    <3>1. PICK u : u = loc[q].w
        OBVIOUS
    <3>2. q # r /\ loc'[q].w = u /\ u # None
        BY <1>3, <1>7, <2>1, <2>3, <3>1
    <3>3. u \in Sups
        BY <1>2, <1>3, <3>1, <3>2 DEF TypeOK, Local
    <3>4. loc[u] = Idle /\ \A k \in Reqs \ {q} : loc[k].w # u
        BY <1>2, <3>1, <3>2 DEF Slots
    <3> QED  BY <1>3, <1>7, <2>1, <3>2, <3>3, <3>4
  <2> QED  BY <2>2, <2>3 DEF Slots
<1>17. RegistriesBacked'
  <2> SUFFICES ASSUME NEW c \in stops' \cup streams'
               PROVE  \/ \E v \in Sups : loc'[v].op = "sup" /\ loc'[v].c = c
                      \/ \E q \in Reqs : loc'[q].op = "start" /\ loc'[q].c = c /\ loc'[q].pc = "spawn"
      BY DEF RegistriesBacked, At
  <2>1. \/ \E v \in Sups : loc[v].op = "sup" /\ loc[v].c = c
        \/ \E q \in Reqs : loc[q].op = "start" /\ loc[q].c = c /\ loc[q].pc = "spawn"
      BY <1>2 DEF RegistriesBacked, At
  <2> QED  BY <1>3, <1>4, <1>7, <2>1, IdleFacts
<1> QED  BY <1>9, <1>10, <1>11, <1>13, <1>14, <1>15, <1>16, <1>17 DEF Inv


\* The eight requests.
LEMMA RequestInv ==
    ASSUME Inv, NewRequest
    PROVE  Inv'
<1>1. PICK r \in Reqs :
        \/ \E s \in Sandboxes :
              run_pod_sandbox(r, s) \/ stop_pod_sandbox(r, s) \/ remove_pod_sandbox(r, s)
        \/ \E c \in Containers :
              \/ create_container(r, c) \/ start_container(r, c) \/ stop_container(r, c)
              \/ remove_container(r, c) \/ exec_sync(r, c)
    BY DEF NewRequest
<1>2. /\ Idle \in Local /\ Idle.w = None /\ Idle.bs = NoSandboxes /\ Idle.bc = NoContainers
      /\ Idle.op = "none" /\ Idle.ret = "idle"
    BY IdleFacts DEF Idle
<1>3. {"boot", "prepare", "launch", "exec", "stopread", "delete", "signal", "take"} \subseteq PC
    BY DEF PC
<1>4. {"run", "stop", "remove", "create", "start", "stopc", "removec", "exec"} \subseteq Op
    BY DEF Op
<1>5. Pod \in [Containers -> Sandboxes]
    BY CriAssumption
<1>6. ASSUME NEW s \in Sandboxes, run_pod_sandbox(r, s)
      PROVE  Inv'
  <2>1. PICK m : m = [Idle EXCEPT !.op = "run", !.s = s, !.pc = "boot"]
      OBVIOUS
  <2>2. /\ Issue(r, m) /\ m.op \in Ops
        /\ UNCHANGED <<phase, rec, sb, ct, file, vm, mgr, rootfs, stops, streams, wl, lost>>
        /\ used' = used \cup {s} /\ net' = net \cup {s}
      BY <1>6, <2>1 DEF run_pod_sandbox, Issue, store, maps
  <2>3. /\ m \in Local /\ m.op = "run" /\ m.s = s /\ m.pc = "boot"
        /\ m.w = None /\ m.bs = NoSandboxes /\ m.bc = NoContainers
      BY <1>2, <1>3, <1>4, <1>5, <2>1 DEF Local
  <2>4. Active(m)
      BY <1>5, <2>3 DEF Active, Flow, Through, Saving, StopPlaces, Point, OnContainer
  <2>5. Fresh(m)
      BY <1>6, <2>2, <2>3, <2>4 DEF Fresh, run_pod_sandbox
  <2>6. used' = used \cup (IF m.op = "run" THEN {m.s} ELSE IF m.op = "create" THEN {m.c} ELSE {})
      BY <2>2, <2>3
  <2>7. net' = IF m.op = "run" THEN net \cup {m.s} ELSE net
      BY <2>2, <2>3
  <2> QED  BY <2>2, <2>5, <2>6, <2>7, IssueInv
<1>7. ASSUME NEW s \in Sandboxes, stop_pod_sandbox(r, s)
      PROVE  Inv'
  <2>1. PICK t \in SUBSET Containers : t = {c \in InPod(s) : ct[c].st = "Running"}
      BY DEF InPod
  <2>2. PICK m : m = [Idle EXCEPT !.op = "stop", !.s = s, !.pc = "signal", !.todo = t]
      OBVIOUS
  <2>3. /\ Issue(r, m) /\ m.op \in Ops
        /\ UNCHANGED <<phase, rec, sb, ct, file, vm, mgr, rootfs, stops, streams, wl, lost, used, net>>
      BY <1>7, <2>1, <2>2 DEF stop_pod_sandbox, Issue, store, maps
  <2>4. /\ m \in Local /\ m.op = "stop" /\ m.s = s /\ m.pc = "signal"
        /\ m.w = None /\ m.bs = NoSandboxes /\ m.bc = NoContainers
      BY <1>2, <1>3, <1>4, <1>5, <2>2 DEF Local
  <2>5. Active(m)
      BY <1>5, <2>4 DEF Active, Flow, Through, Saving, StopPlaces, Point, OnContainer
  <2>6. Fresh(m)
      BY <1>7, <2>3, <2>4, <2>5 DEF Fresh, stop_pod_sandbox
  <2>7. used' = used \cup (IF m.op = "run" THEN {m.s} ELSE IF m.op = "create" THEN {m.c} ELSE {})
      BY <2>3, <2>4
  <2>8. net' = IF m.op = "run" THEN net \cup {m.s} ELSE net
      BY <2>3, <2>4
  <2> QED  BY <2>3, <2>6, <2>7, <2>8, IssueInv
<1>8. ASSUME NEW s \in Sandboxes, remove_pod_sandbox(r, s)
      PROVE  Inv'
  <2>1. PICK m : m = [Idle EXCEPT !.op = "remove", !.s = s, !.pc = "take"]
      OBVIOUS
  <2>2. /\ Issue(r, m) /\ m.op \in Ops
        /\ UNCHANGED <<phase, rec, sb, ct, file, vm, mgr, rootfs, stops, streams, wl, lost, used, net>>
      BY <1>8, <2>1 DEF remove_pod_sandbox, Issue, store, maps
  <2>3. /\ m \in Local /\ m.op = "remove" /\ m.s = s /\ m.pc = "take"
        /\ m.w = None /\ m.bs = NoSandboxes /\ m.bc = NoContainers
      BY <1>2, <1>3, <1>4, <1>5, <2>1 DEF Local
  <2>4. Active(m)
      BY <1>5, <2>3 DEF Active, Flow, Through, Saving, StopPlaces, Point, OnContainer
  <2>5. Fresh(m)
      BY <1>8, <2>2, <2>3, <2>4 DEF Fresh, remove_pod_sandbox
  <2>6. used' = used \cup (IF m.op = "run" THEN {m.s} ELSE IF m.op = "create" THEN {m.c} ELSE {})
      BY <2>2, <2>3
  <2>7. net' = IF m.op = "run" THEN net \cup {m.s} ELSE net
      BY <2>2, <2>3
  <2> QED  BY <2>2, <2>5, <2>6, <2>7, IssueInv
<1>9. ASSUME NEW c \in Containers, create_container(r, c)
      PROVE  Inv'
  <2>1. PICK m : m = [Idle EXCEPT !.op = "create", !.s = Pod[c], !.c = c, !.pc = "prepare"]
      OBVIOUS
  <2>2. /\ Issue(r, m) /\ m.op \in Ops
        /\ UNCHANGED <<phase, rec, sb, ct, file, vm, mgr, rootfs, stops, streams, wl, lost>>
        /\ used' = used \cup {c} /\ UNCHANGED net
      BY <1>9, <2>1 DEF create_container, Issue, store, maps
  <2>3. /\ m \in Local /\ m.op = "create" /\ m.s = Pod[c] /\ m.c = c /\ m.pc = "prepare"
        /\ m.w = None /\ m.bs = NoSandboxes /\ m.bc = NoContainers
      BY <1>2, <1>3, <1>4, <1>5, <2>1 DEF Local
  <2>4. Active(m)
      BY <1>5, <2>3 DEF Active, Flow, Through, Saving, StopPlaces, Point, OnContainer
  <2>5. Fresh(m)
      BY <1>9, <2>2, <2>3, <2>4 DEF Fresh, create_container
  <2>6. used' = used \cup (IF m.op = "run" THEN {m.s} ELSE IF m.op = "create" THEN {m.c} ELSE {})
      BY <2>2, <2>3
  <2>7. net' = IF m.op = "run" THEN net \cup {m.s} ELSE net
      BY <2>2, <2>3
  <2> QED  BY <2>2, <2>5, <2>6, <2>7, IssueInv
<1>10. ASSUME NEW c \in Containers, start_container(r, c)
      PROVE  Inv'
  <2>1. PICK m : m = [Idle EXCEPT !.op = "start", !.s = Pod[c], !.c = c, !.pc = "launch"]
      OBVIOUS
  <2>2. /\ Issue(r, m) /\ m.op \in Ops
        /\ UNCHANGED <<phase, rec, sb, ct, file, vm, mgr, rootfs, stops, streams, wl, lost, used, net>>
      BY <1>10, <2>1 DEF start_container, Issue, store, maps
  <2>3. /\ m \in Local /\ m.op = "start" /\ m.s = Pod[c] /\ m.c = c /\ m.pc = "launch"
        /\ m.w = None /\ m.bs = NoSandboxes /\ m.bc = NoContainers
      BY <1>2, <1>3, <1>4, <1>5, <2>1 DEF Local
  <2>4. Active(m)
      BY <1>5, <2>3 DEF Active, Flow, Through, Saving, StopPlaces, Point, OnContainer
  <2>5. Fresh(m)
      BY <1>10, <2>2, <2>3, <2>4 DEF Fresh, start_container
  <2>6. used' = used \cup (IF m.op = "run" THEN {m.s} ELSE IF m.op = "create" THEN {m.c} ELSE {})
      BY <2>2, <2>3
  <2>7. net' = IF m.op = "run" THEN net \cup {m.s} ELSE net
      BY <2>2, <2>3
  <2> QED  BY <2>2, <2>5, <2>6, <2>7, IssueInv
<1>11. ASSUME NEW c \in Containers, stop_container(r, c)
      PROVE  Inv'
  <2>1. PICK m : m = [Idle EXCEPT !.op = "stopc", !.s = Pod[c], !.c = c, !.pc = "stopread"]
      OBVIOUS
  <2>2. /\ Issue(r, m) /\ m.op \in Ops
        /\ UNCHANGED <<phase, rec, sb, ct, file, vm, mgr, rootfs, stops, streams, wl, lost, used, net>>
      BY <1>11, <2>1 DEF stop_container, Issue, store, maps
  <2>3. /\ m \in Local /\ m.op = "stopc" /\ m.s = Pod[c] /\ m.c = c /\ m.pc = "stopread"
        /\ m.w = None /\ m.bs = NoSandboxes /\ m.bc = NoContainers
      BY <1>2, <1>3, <1>4, <1>5, <2>1 DEF Local
  <2>4. Active(m)
      BY <1>5, <2>3 DEF Active, Flow, Through, Saving, StopPlaces, Point, OnContainer
  <2>5. Fresh(m)
      BY <1>11, <2>2, <2>3, <2>4 DEF Fresh, stop_container
  <2>6. used' = used \cup (IF m.op = "run" THEN {m.s} ELSE IF m.op = "create" THEN {m.c} ELSE {})
      BY <2>2, <2>3
  <2>7. net' = IF m.op = "run" THEN net \cup {m.s} ELSE net
      BY <2>2, <2>3
  <2> QED  BY <2>2, <2>5, <2>6, <2>7, IssueInv
<1>12. ASSUME NEW c \in Containers, remove_container(r, c)
      PROVE  Inv'
  <2>1. PICK x \in {"stopread", "delete"} : x = IF ct[c].st = "Running" THEN "stopread" ELSE "delete"
      OBVIOUS
  <2>2. PICK m : m = [Idle EXCEPT !.op = "removec", !.s = Pod[c], !.c = c, !.pc = x]
      OBVIOUS
  <2>3. /\ Issue(r, m) /\ m.op \in Ops
        /\ UNCHANGED <<phase, rec, sb, ct, file, vm, mgr, rootfs, stops, streams, wl, lost, used, net>>
      BY <1>12, <2>1, <2>2 DEF remove_container, Issue, store, maps
  <2>4. /\ m \in Local /\ m.op = "removec" /\ m.s = Pod[c] /\ m.c = c /\ m.pc = x
        /\ m.w = None /\ m.bs = NoSandboxes /\ m.bc = NoContainers
      BY <1>2, <1>3, <1>4, <1>5, <2>2 DEF Local
  <2>5. Active(m)
      BY <1>5, <2>4 DEF Active, Flow, Through, Saving, StopPlaces, Point, OnContainer
  <2>6. Fresh(m)
      BY <1>12, <2>3, <2>4, <2>5 DEF Fresh, remove_container
  <2>7. used' = used \cup (IF m.op = "run" THEN {m.s} ELSE IF m.op = "create" THEN {m.c} ELSE {})
      BY <2>3, <2>4
  <2>8. net' = IF m.op = "run" THEN net \cup {m.s} ELSE net
      BY <2>3, <2>4
  <2> QED  BY <2>3, <2>6, <2>7, <2>8, IssueInv
<1>13. ASSUME NEW c \in Containers, exec_sync(r, c)
      PROVE  Inv'
  <2>1. PICK m : m = [Idle EXCEPT !.op = "exec", !.s = Pod[c], !.c = c, !.pc = "exec"]
      OBVIOUS
  <2>2. /\ Issue(r, m) /\ m.op \in Ops
        /\ UNCHANGED <<phase, rec, sb, ct, file, vm, mgr, rootfs, stops, streams, wl, lost, used, net>>
      BY <1>13, <2>1 DEF exec_sync, Issue, store, maps
  <2>3. /\ m \in Local /\ m.op = "exec" /\ m.s = Pod[c] /\ m.c = c /\ m.pc = "exec"
        /\ m.w = None /\ m.bs = NoSandboxes /\ m.bc = NoContainers
      BY <1>2, <1>3, <1>4, <1>5, <2>1 DEF Local
  <2>4. Active(m)
      BY <1>5, <2>3 DEF Active, Flow, Through, Saving, StopPlaces, Point, OnContainer
  <2>5. Fresh(m)
      BY <1>13, <2>2, <2>3, <2>4 DEF Fresh, exec_sync
  <2>6. used' = used \cup (IF m.op = "run" THEN {m.s} ELSE IF m.op = "create" THEN {m.c} ELSE {})
      BY <2>2, <2>3
  <2>7. net' = IF m.op = "run" THEN net \cup {m.s} ELSE net
      BY <2>2, <2>3
  <2> QED  BY <2>2, <2>5, <2>6, <2>7, IssueInv
<1> QED  BY <1>1, <1>6, <1>7, <1>8, <1>9, <1>10, <1>11, <1>12, <1>13


-----------------------------------------------------------------------------
(* The end of the process and the recovery                                 *)

\* When no process is in progress there is nothing to say about them.
LEMMA Quiescent ==
    ASSUME TypeOK', \A p \in Procs : loc'[p] = Idle, stops' = {}, streams' = {}
    PROVE  Shape' /\ Young' /\ Removal' /\ Slots' /\ RegistriesBacked'
<1>1. Reqs \subseteq Procs /\ Sups \subseteq Procs
    BY DEF Procs
<1>2. Shape'
    BY <1>1, IdleFacts DEF Shape
<1>3. \A r \in Reqs : ~Booting(loc'[r]) /\ ~Making(loc'[r]) /\ ~Disconnected(loc'[r])
                      /\ loc'[r].op = "none" /\ loc'[r].w = None
    BY <1>1, IdleBits, IdleFacts
<1>4. Young'
    BY <1>3 DEF Young, Booting, Making
<1>5. Removal'
    BY <1>3 DEF Removal, Disconnected, Point
<1>6. Slots'
  <2>1. \A w \in Sups : loc'[w] = Idle
      BY <1>1
  <2>2. None \notin Sups
      BY CriAssumption DEF Procs
  <2> QED  BY <1>3, <2>1, <2>2 DEF Slots
<1>7. RegistriesBacked'
    BY DEF RegistriesBacked
<1> QED  BY <1>2, <1>4, <1>5, <1>6, <1>7

\* The process ends, in a crash or after a shutdown.
LEMMA StoppedInv ==
    ASSUME Inv, Crash \/ shutdown_all_sandboxes
    PROVE  Inv'
<1>1. TypeOK /\ Phases /\ Minted
    BY DEF Inv, Shape
<1>2. ASSUME NEW v, NEW d, Stopped(v, d), v \in [Sandboxes -> {"none", "up", "gone"}],
             d \subseteq rootfs, \A s \in Sandboxes : v[s] = "up" => vm[s] = "up"
      PROVE  Inv'
  <2>1. /\ phase = "serve" /\ count.crashes < MaxCrashes /\ phase' = "down"
        /\ count' = [count EXCEPT !.crashes = @ + 1]
        /\ sb' = NoSandboxes /\ ct' = NoContainers /\ mgr' = {} /\ stops' = {} /\ streams' = {}
        /\ wl' = [w \in Sups |-> NoWorkload] /\ loc' = [p \in Procs |-> Idle]
        /\ vm' = v /\ rootfs' = d
        /\ lost' = lost \cup {s \in Sandboxes : file.sb[s] = "none" /\ Leftovers(s, v, net, d)}
        /\ UNCHANGED <<rec, file, net, used>>
      BY <1>2 DEF Stopped
  <2>2. TypeOK'
    <3>1. count' \in [reqs : 0..MaxReqs, crashes : 0..MaxCrashes, deaths : 0..MaxDeaths]
        BY <1>1, <2>1, CriAssumption DEF TypeOK
    <3>2. sb' \in [Sandboxes -> SandboxState] /\ ct' \in [Containers -> Container]
        BY <2>1 DEF NoSandboxes, SandboxState, NoContainers, NoContainer, Container, Code
    <3>3. wl' \in [Sups -> Workload] /\ loc' \in [Procs -> Local]
        BY <2>1, IdleFacts DEF NoWorkload, Workload
    <3>4. rootfs' \subseteq Containers /\ lost' \subseteq Sandboxes /\ vm' \in [Sandboxes -> {"none", "up", "gone"}]
        BY <1>1, <1>2, <2>1 DEF TypeOK
    <3> QED  BY <1>1, <2>1, <3>1, <3>2, <3>3, <3>4 DEF TypeOK
  <2>3. \A p \in Procs : loc'[p] = Idle
      BY <2>1
  <2>4. Shape' /\ Young' /\ Removal' /\ Slots' /\ RegistriesBacked'
      BY <2>1, <2>2, <2>3, Quiescent
  <2>5. Phases'
    <3>1. \A w \in Sups : wl'[w].c = None
        BY <2>1 DEF NoWorkload
    <3>2. \A s \in Sandboxes : rec'[s] = "done"
        BY <1>1, <2>1 DEF Phases
    <3> QED  BY <2>1, <2>3, <3>1, <3>2 DEF Phases
  <2>6. Minted'
    <3>1. \A s \in Sandboxes \ used : sb'[s] = "none" /\ vm'[s] # "up" /\ file'.sb[s] = "none"
        BY <1>1, <1>2, <2>1 DEF Minted, NoSandboxes
    <3>2. \A c \in Containers \ used : ct'[c].st = "none" /\ file'.ct[c].st = "none"
        BY <1>1, <2>1 DEF Minted, NoContainers, NoContainer
    <3>3. \A p \in Procs : /\ \A s \in Sandboxes : loc'[p].bs[s] = "none"
                           /\ \A c \in Containers : loc'[p].bc[c].st = "none"
                           /\ loc'[p].op = "none"
        BY <2>3, IdleFacts
    <3> QED  BY <2>1, <3>1, <3>2, <3>3 DEF Minted, Procs
  <2>7. Serving'
      BY <2>1 DEF Serving
  <2>8. Recovery'
      BY <2>1 DEF Recovery, Leftovers
  <2> QED  BY <2>4, <2>5, <2>6, <2>7, <2>8 DEF Inv
<1>3. CASE Crash
    BY <1>1, <1>2, <1>3 DEF Crash, TypeOK
<1>4. CASE shutdown_all_sandboxes
  <2>1. PICK v : v = [s \in Sandboxes |-> IF s \in mgr THEN "gone" ELSE vm[s]]
      OBVIOUS
  <2>2. PICK d : d = {c \in rootfs : Pod[c] \notin mgr}
      OBVIOUS
  <2>3. Stopped(v, d)
      BY <1>4, <2>1, <2>2 DEF shutdown_all_sandboxes
  <2>4. v \in [Sandboxes -> {"none", "up", "gone"}] /\ \A s \in Sandboxes : v[s] = "up" => vm[s] = "up"
      BY <1>1, <2>1 DEF TypeOK
  <2> QED  BY <1>2, <2>2, <2>3, <2>4
<1> QED  BY <1>3, <1>4

\* What every step of load_state keeps.
LEMMA LoadKept ==
    ASSUME Inv, phase # "serve", UNCHANGED <<mgr, net, stops, streams, wl, loc, used>>, TypeOK',
           \A s \in Sandboxes \ used : sb'[s] = "none" /\ vm'[s] # "up" /\ file'.sb[s] = "none",
           \A c \in Containers \ used : ct'[c].st = "none" /\ file'.ct[c].st = "none"
    PROVE  /\ Shape' /\ Young' /\ Removal' /\ Slots' /\ RegistriesBacked' /\ Minted'
           /\ mgr' = {} /\ stops' = {} /\ streams' = {}
           /\ \A p \in Procs : loc'[p] = Idle
           /\ \A w \in Sups : wl'[w].c = None
<1>1. /\ mgr' = {} /\ stops' = {} /\ streams' = {}
      /\ \A p \in Procs : loc'[p] = Idle
      /\ \A w \in Sups : wl'[w].c = None
    BY DEF Inv, Phases
<1>2. Shape' /\ Young' /\ Removal' /\ Slots' /\ RegistriesBacked'
    BY <1>1, Quiescent
<1>3. Minted'
  <2>1. \A p \in Procs : /\ \A s \in Sandboxes : loc'[p].bs[s] = "none"
                         /\ \A c \in Containers : loc'[p].bc[c].st = "none"
                         /\ loc'[p].op = "none"
      BY <1>1, IdleFacts
  <2> QED  BY <2>1 DEF Minted, Procs
<1> QED  BY <1>1, <1>2, <1>3

\* load_state and the start of the service.
LEMMA LoadInv ==
    ASSUME Inv, LoadState
    PROVE  Inv'
<1>1. TypeOK /\ Phases /\ Minted /\ Recovery
    BY DEF Inv, Shape
<1>2. rootfs \subseteq Containers /\ Pod \in [Containers -> Sandboxes]
    BY <1>1, CriAssumption DEF TypeOK
<1>3. CASE load
  <2>1. /\ phase = "down" /\ phase' = "load" /\ sb' = file.sb /\ ct' = file.ct
        /\ rec' = [s \in Sandboxes |-> IF file.sb[s] = "none" THEN "done" ELSE "mark"]
        /\ UNCHANGED <<file, vm, mgr, net, rootfs, stops, streams, wl, loc, used, count, lost>>
      BY <1>3 DEF load, maps
  <2>2. TypeOK'
      BY <1>1, <2>1 DEF TypeOK
  <2>3. \A s \in Sandboxes \ used : sb'[s] = "none" /\ vm'[s] # "up" /\ file'.sb[s] = "none"
      BY <1>1, <2>1 DEF Minted
  <2>4. \A c \in Containers \ used : ct'[c].st = "none" /\ file'.ct[c].st = "none"
      BY <1>1, <2>1 DEF Minted
  <2>5. /\ Shape' /\ Young' /\ Removal' /\ Slots' /\ RegistriesBacked' /\ Minted'
        /\ mgr' = {} /\ stops' = {} /\ streams' = {}
        /\ \A p \in Procs : loc'[p] = Idle
        /\ \A w \in Sups : wl'[w].c = None
      BY <2>1, <2>2, <2>3, <2>4, LoadKept
  <2>6. \A s \in Sandboxes : rec'[s] = IF sb'[s] = "none" THEN "done" ELSE "mark"
      BY <2>1
  <2>7. Phases'
      BY <2>1, <2>5, <2>6 DEF Phases
  <2>8. Recovery'
    <3>1. \A s \in Sandboxes \ lost : Leftovers(s, vm, net, rootfs) => sb'[s] # "none"
        BY <1>1, <2>1 DEF Recovery
    <3> QED  BY <2>1, <2>6, <3>1 DEF Recovery, Leftovers
  <2>9. Serving'
      BY <2>1 DEF Serving
  <2> QED  BY <2>5, <2>7, <2>8, <2>9 DEF Inv
<1>4. ASSUME NEW s \in Sandboxes, load_state_mark(s)
      PROVE  Inv'
  <2>1. /\ rec[s] = "mark" /\ sb' = [sb EXCEPT ![s] = "NotReady"]
        /\ file' = [sb |-> sb', ct |-> ct] /\ rec' = [rec EXCEPT ![s] = "reap"]
        /\ UNCHANGED <<phase, ct, vm, mgr, net, rootfs, stops, streams, wl, loc, used, count, lost>>
      BY <1>4 DEF load_state_mark, maps
  <2>2. phase = "load" /\ sb[s] # "none" /\ s \in used
      BY <1>1, <1>4, <2>1 DEF Phases, Minted
  <2>3. /\ sb' \in [Sandboxes -> SandboxState] /\ rec' \in [Sandboxes -> {"done", "mark", "reap"}]
        /\ sb'[s] = "NotReady" /\ rec'[s] = "reap"
        /\ \A t \in Sandboxes : t # s => sb'[t] = sb[t] /\ rec'[t] = rec[t]
      BY <1>1, <2>1 DEF TypeOK, SandboxState
  <2>4. file'.sb = sb' /\ file'.ct = ct
        /\ file' \in [sb : [Sandboxes -> SandboxState], ct : [Containers -> Container]]
      BY <1>1, <2>1, <2>3 DEF TypeOK
  <2>5. TypeOK'
      BY <1>1, <2>1, <2>3, <2>4 DEF TypeOK
  <2>6. \A t \in Sandboxes \ used : sb'[t] = "none" /\ vm'[t] # "up" /\ file'.sb[t] = "none"
      BY <1>1, <2>1, <2>2, <2>3, <2>4 DEF Minted
  <2>7. \A c \in Containers \ used : ct'[c].st = "none" /\ file'.ct[c].st = "none"
      BY <1>1, <2>1, <2>4 DEF Minted
  <2>8. /\ Shape' /\ Young' /\ Removal' /\ Slots' /\ RegistriesBacked' /\ Minted'
        /\ mgr' = {} /\ stops' = {} /\ streams' = {}
        /\ \A p \in Procs : loc'[p] = Idle
        /\ \A w \in Sups : wl'[w].c = None
      BY <2>1, <2>2, <2>5, <2>6, <2>7, LoadKept
  <2>9. Phases'
      BY <1>1, <2>1, <2>2, <2>3, <2>8 DEF Phases
  <2>10. Recovery'
      BY <1>1, <2>1, <2>2, <2>3 DEF Recovery
  <2>11. Serving'
      BY <2>1, <2>2 DEF Serving
  <2> QED  BY <2>8, <2>9, <2>10, <2>11 DEF Inv
<1>5. ASSUME NEW s \in Sandboxes, load_state_reap(s)
      PROVE  Inv'
  <2>1. /\ rec[s] = "reap" /\ vm' = [vm EXCEPT ![s] = IF @ = "up" THEN "gone" ELSE @]
        /\ rootfs' = {c \in rootfs : Pod[c] # s} /\ rec' = [rec EXCEPT ![s] = "done"]
        /\ UNCHANGED <<phase, sb, ct, file, mgr, net, stops, streams, wl, loc, used, count, lost>>
      BY <1>5 DEF load_state_reap, store, maps
  <2>2. phase = "load"
      BY <1>1, <2>1 DEF Phases
  <2>3. /\ vm' \in [Sandboxes -> {"none", "up", "gone"}] /\ rec' \in [Sandboxes -> {"done", "mark", "reap"}]
        /\ vm'[s] # "up" /\ rec'[s] = "done"
        /\ \A t \in Sandboxes : t # s => vm'[t] = vm[t] /\ rec'[t] = rec[t]
      BY <1>1, <2>1 DEF TypeOK
  <2>4. TypeOK'
      BY <1>1, <1>2, <2>1, <2>3 DEF TypeOK
  <2>5. \A t \in Sandboxes \ used : sb'[t] = "none" /\ vm'[t] # "up" /\ file'.sb[t] = "none"
      BY <1>1, <2>1, <2>3 DEF Minted
  <2>6. \A c \in Containers \ used : ct'[c].st = "none" /\ file'.ct[c].st = "none"
      BY <1>1, <2>1 DEF Minted
  <2>7. /\ Shape' /\ Young' /\ Removal' /\ Slots' /\ RegistriesBacked' /\ Minted'
        /\ mgr' = {} /\ stops' = {} /\ streams' = {}
        /\ \A p \in Procs : loc'[p] = Idle
        /\ \A w \in Sups : wl'[w].c = None
      BY <2>1, <2>2, <2>4, <2>5, <2>6, LoadKept
  <2>8. Phases'
      BY <1>1, <2>1, <2>2, <2>3, <2>7 DEF Phases
  <2>9. Recovery'
      BY <1>1, <2>1, <2>2, <2>3 DEF Recovery
  <2>10. Serving'
      BY <2>1, <2>2 DEF Serving
  <2> QED  BY <2>7, <2>8, <2>9, <2>10 DEF Inv
<1>6. CASE load_state_containers
  <2>1. PICK c \in Containers : ct[c].st \in {"Created", "Running"} /\ ct' = [ct EXCEPT ![c] = Exited("255")]
      BY <1>6 DEF load_state_containers
  <2>2. /\ phase = "load" /\ file' = [sb |-> sb, ct |-> ct']
        /\ UNCHANGED <<phase, rec, sb, vm, mgr, net, rootfs, stops, streams, wl, loc, used, count, lost>>
      BY <1>6 DEF load_state_containers, maps
  <2>3. ct' \in [Containers -> Container] /\ c \in used /\ \A d \in Containers : d # c => ct'[d] = ct[d]
      BY <1>1, <2>1 DEF TypeOK, Minted, Container, Exited, Code
  <2>4. /\ file'.sb = sb /\ file'.ct = ct'
        /\ file' \in [sb : [Sandboxes -> SandboxState], ct : [Containers -> Container]]
      BY <1>1, <2>2, <2>3 DEF TypeOK
  <2>5. TypeOK'
      BY <1>1, <2>2, <2>3, <2>4 DEF TypeOK
  <2>6. \A t \in Sandboxes \ used : sb'[t] = "none" /\ vm'[t] # "up" /\ file'.sb[t] = "none"
      BY <1>1, <2>2, <2>4 DEF Minted
  <2>7. \A d \in Containers \ used : ct'[d].st = "none" /\ file'.ct[d].st = "none"
      BY <1>1, <2>3, <2>4 DEF Minted
  <2>8. /\ Shape' /\ Young' /\ Removal' /\ Slots' /\ RegistriesBacked' /\ Minted'
        /\ mgr' = {} /\ stops' = {} /\ streams' = {}
        /\ \A p \in Procs : loc'[p] = Idle
        /\ \A w \in Sups : wl'[w].c = None
      BY <2>2, <2>5, <2>6, <2>7, LoadKept
  <2>9. Phases' /\ Recovery' /\ Serving'
      BY <1>1, <2>2, <2>8 DEF Phases, Recovery, Serving
  <2> QED  BY <2>8, <2>9 DEF Inv
<1>7. CASE serve
  <2>1. /\ phase = "load" /\ phase' = "serve" /\ \A s \in Sandboxes : rec[s] = "done"
        /\ UNCHANGED <<rec, sb, ct, file, vm, mgr, net, rootfs, stops, streams, wl, loc, used, count, lost>>
      BY <1>7 DEF serve, store, maps
  <2>2. TypeOK'
      BY <1>1, <2>1 DEF TypeOK
  <2>3. \A t \in Sandboxes \ used : sb'[t] = "none" /\ vm'[t] # "up" /\ file'.sb[t] = "none"
      BY <1>1, <2>1 DEF Minted
  <2>4. \A d \in Containers \ used : ct'[d].st = "none" /\ file'.ct[d].st = "none"
      BY <1>1, <2>1 DEF Minted
  <2>5. Shape' /\ Young' /\ Removal' /\ Slots' /\ RegistriesBacked' /\ Minted'
      BY <2>1, <2>2, <2>3, <2>4, LoadKept
  <2>6. Phases' /\ Recovery'
      BY <2>1 DEF Phases, Recovery
  <2>7. Serving'
    <3>1. \A s \in Sandboxes \ lost : sb[s] # "Ready" /\ vm[s] # "up" /\ (s \in net => sb[s] # "none")
        BY <1>1, <2>1 DEF Recovery
    <3>2. \A c \in rootfs : Pod[c] \in lost
        BY <1>1, <1>2, <2>1 DEF Recovery
    <3> QED  BY <2>1, <3>1, <3>2, ServingKept
  <2> QED  BY <2>5, <2>6, <2>7 DEF Inv
<1>8. CASE load_fails
  <2>1. /\ phase = "down" /\ phase' = "serve"
        /\ lost' = lost \cup {s \in Sandboxes : Leftovers(s, vm, net, rootfs)}
        /\ UNCHANGED <<rec, sb, ct, file, vm, mgr, net, rootfs, stops, streams, wl, loc, used, count>>
      BY <1>8 DEF load_fails, store, maps
  <2>2. TypeOK'
      BY <1>1, <2>1 DEF TypeOK
  <2>3. \A t \in Sandboxes \ used : sb'[t] = "none" /\ vm'[t] # "up" /\ file'.sb[t] = "none"
      BY <1>1, <2>1 DEF Minted
  <2>4. \A d \in Containers \ used : ct'[d].st = "none" /\ file'.ct[d].st = "none"
      BY <1>1, <2>1 DEF Minted
  <2>5. Shape' /\ Young' /\ Removal' /\ Slots' /\ RegistriesBacked' /\ Minted'
      BY <2>1, <2>2, <2>3, <2>4, LoadKept
  <2>6. Phases' /\ Recovery'
      BY <1>1, <2>1 DEF Phases, Recovery
  <2>7. Serving'
    <3>1. \A s \in Sandboxes : sb'[s] = "none"
        BY <1>1, <2>1 DEF Phases, NoSandboxes
    <3>2. \A s \in Sandboxes \ lost' : vm'[s] # "up" /\ s \notin net'
        BY <2>1 DEF Leftovers
    <3>3. \A c \in rootfs' : Pod[c] \in lost'
        BY <1>2, <2>1 DEF Leftovers
    <3> QED  BY <3>1, <3>2, <3>3 DEF Serving
  <2> QED  BY <2>5, <2>6, <2>7 DEF Inv
<1> QED  BY <1>3, <1>4, <1>5, <1>6, <1>7, <1>8 DEF LoadState


-----------------------------------------------------------------------------
(* The theorems                                                            *)

\* A server that has been running for a while.
LEMMA InitInv ==
    ASSUME Init
    PROVE  Inv
<1>1. PICK sup \in [InitialContainers -> Sups \cup {None}] :
        /\ \A c, d \in InitialContainers : sup[c] = sup[d] /\ sup[c] # None => c = d
        /\ InitWith(sup)
    BY DEF Init
<1> DEFINE Of(w) == {c \in InitialContainers : sup[c] = w}
           Runs(c) == c \in InitialContainers /\ sup[c] # None
<1>2. /\ ct = [c \in Containers |-> IF Runs(c) THEN Running
                                    ELSE IF c \in InitialContainers THEN Created ELSE NoContainer]
      /\ stops = {c \in Containers : Runs(c)}
      /\ wl = [w \in Sups |-> IF Of(w) = {} THEN NoWorkload
                              ELSE [c |-> CHOOSE c \in Of(w) : TRUE, guest |-> "run", stop |-> "open"]]
      /\ loc = [p \in Procs |-> IF p \notin Sups \/ Of(p) = {} THEN Idle
                                ELSE [Idle EXCEPT !.op = "sup", !.pc = "watch",
                                                  !.c = wl[p].c, !.s = Pod[wl[p].c]]]
    BY <1>1 DEF InitWith
<1>3. /\ phase = "serve" /\ rec = [s \in Sandboxes |-> "done"]
      /\ sb = [s \in Sandboxes |-> IF s \in Initial THEN "Ready" ELSE "none"]
      /\ file = [sb |-> sb, ct |-> ct]
      /\ vm = [s \in Sandboxes |-> IF s \in Initial THEN "up" ELSE "none"]
      /\ mgr = Initial /\ net = Initial /\ rootfs = InitialContainers /\ streams = stops
      /\ used = Initial \cup InitialContainers /\ lost = {}
      /\ count = [reqs |-> 0, crashes |-> 0, deaths |-> 0]
    BY DEF Init
<1>4. /\ InitialContainers \subseteq Containers /\ Initial \subseteq Sandboxes
      /\ Pod \in [Containers -> Sandboxes]
      /\ Reqs \subseteq Procs /\ Sups \subseteq Procs /\ Reqs \cap Sups = {}
      /\ None \notin Sups /\ None \notin Containers
    BY CriAssumption DEF InitialContainers, Procs
<1>5. \A w \in Sups : Of(w) \subseteq Containers
    BY <1>4
<1>6. ASSUME NEW w \in Sups, Of(w) # {}
      PROVE  wl[w].c \in Of(w) /\ wl[w] \in Workload
  <2>1. PICK d : d = CHOOSE c \in Of(w) : TRUE
      OBVIOUS
  <2>2. d \in Of(w)
      BY <1>6, <2>1
  <2>3. wl[w] = [c |-> d, guest |-> "run", stop |-> "open"]
      BY <1>2, <1>6, <2>1
  <2> HIDE DEF Of
  <2> QED  BY <1>5, <2>2, <2>3 DEF Workload
<1>7. ASSUME NEW w \in Sups, Of(w) # {}
      PROVE  /\ loc[w] \in Local /\ loc[w].op = "sup" /\ loc[w].pc = "watch" /\ loc[w].c = wl[w].c
             /\ loc[w].w = None /\ loc[w].bs = NoSandboxes /\ loc[w].bc = NoContainers /\ Active(loc[w])
  <2>1. PICK d : d = wl[w].c
      OBVIOUS
  <2>2. PICK m : m = [Idle EXCEPT !.op = "sup", !.pc = "watch", !.c = d, !.s = Pod[d]]
      OBVIOUS
  <2>3. loc[w] = m /\ d \in Containers /\ Pod[d] \in Sandboxes
    <3>1. d \in Of(w)
        BY <1>6, <1>7, <2>1
    <3>2. d \in Containers
        BY <1>4, <3>1
    <3> QED  BY <1>2, <1>4, <1>7, <2>1, <2>2, <3>2
  <2>4. "watch" \in PC /\ "sup" \in Op
      BY DEF PC, Op
  <2>5. Idle \in Local /\ Idle.w = None /\ Idle.bs = NoSandboxes /\ Idle.bc = NoContainers
      BY IdleFacts DEF Idle
  <2>6. /\ m \in Local /\ m.op = "sup" /\ m.pc = "watch" /\ m.c = d
        /\ m.w = None /\ m.bs = NoSandboxes /\ m.bc = NoContainers
      BY <2>2, <2>3, <2>4, <2>5 DEF Local
  <2>7. Active(m)
      BY <2>3, <2>6 DEF Active, Flow, Through, Saving, OnContainer
  <2> QED  BY <2>1, <2>3, <2>6, <2>7
<1>8. /\ \A p \in Procs : p \notin Sups => loc[p] = Idle
      /\ \A w \in Sups : Of(w) = {} => loc[w] = Idle /\ wl[w] = NoWorkload
    BY <1>2, <1>4
<1>9. \A r \in Reqs : loc[r] = Idle
    BY <1>4, <1>8
<1>10. /\ ct \in [Containers -> Container]
       /\ \A c \in Containers : ct[c].st = "none" <=> c \notin InitialContainers
    BY <1>2 DEF Running, Created, NoContainer, Container, Code
<1>11. TypeOK
  <2>1. wl \in [Sups -> Workload]
    <3>1. NoWorkload \in Workload
        BY DEF NoWorkload, Workload
    <3>2. \A w \in Sups : wl[w] \in Workload
        BY <1>6, <1>8, <3>1
    <3>3. wl = [w \in Sups |-> wl[w]]
        BY <1>2
    <3> QED  BY <3>2, <3>3
  <2>2. loc \in [Procs -> Local]
    <3>1. \A p \in Procs : loc[p] \in Local
        BY <1>7, <1>8, IdleFacts
    <3>2. loc = [p \in Procs |-> loc[p]]
        BY <1>2
    <3> QED  BY <3>1, <3>2
  <2>3. sb \in [Sandboxes -> SandboxState] /\ vm \in [Sandboxes -> {"none", "up", "gone"}]
      BY <1>3 DEF SandboxState
  <2>4. file \in [sb : [Sandboxes -> SandboxState], ct : [Containers -> Container]]
      BY <1>3, <1>10, <2>3
  <2>5. count \in [reqs : 0..MaxReqs, crashes : 0..MaxCrashes, deaths : 0..MaxDeaths]
      BY <1>3, CriAssumption
  <2>6. stops \subseteq Containers
      BY <1>2
  <2> QED  BY <1>3, <1>4, <1>10, <2>1, <2>2, <2>3, <2>4, <2>5, <2>6 DEF TypeOK
<1> HIDE DEF Of, Runs
<1>12. Shape
  <2>1. \A p \in Procs : loc[p] = Idle \/ (p \in Sups /\ Active(loc[p]) /\ loc[p].op = "sup")
      BY <1>7, <1>8
  <2> QED  BY <1>4, <1>9, <1>11, <2>1, IdleFacts DEF Shape
<1>13. Phases /\ Recovery
    BY <1>3 DEF Phases, Recovery
<1>14. Minted
  <2>1. \A s \in Sandboxes \ used : sb[s] = "none" /\ vm[s] # "up" /\ file.sb[s] = "none"
      BY <1>3
  <2>2. \A c \in Containers \ used : ct[c].st = "none" /\ file.ct[c].st = "none"
      BY <1>3, <1>10
  <2>3. \A p \in Procs : loc[p].bs = NoSandboxes /\ loc[p].bc = NoContainers
    <3>1. Idle.bs = NoSandboxes /\ Idle.bc = NoContainers
        BY DEF Idle
    <3> QED  BY <1>7, <1>8, <3>1
  <2> QED  BY <1>9, <2>1, <2>2, <2>3, IdleFacts DEF Minted, NoSandboxes, NoContainers, NoContainer
<1>15. Young /\ Removal
    BY <1>9, IdleBits, IdleFacts DEF Young, Removal
<1>16. Serving
    BY <1>3, <1>4, <1>10 DEF Serving
<1>17. Slots
  <2>1. \A w \in Sups : wl[w].c = None => loc[w] = Idle
    <3>1. \A w \in Sups : Of(w) # {} => wl[w].c # None
        BY <1>4, <1>5, <1>6
    <3> QED  BY <1>8, <3>1
  <2> QED  BY <1>4, <1>9, <2>1, IdleFacts DEF Slots
<1>18. RegistriesBacked
  <2> SUFFICES ASSUME NEW c \in stops
               PROVE  \E w \in Sups : loc[w].op = "sup" /\ loc[w].c = c
      BY <1>3 DEF RegistriesBacked
  <2>1. c \in InitialContainers /\ sup[c] # None
      BY <1>2 DEF Runs
  <2>2. PICK w \in Sups : w = sup[c]
      BY <1>1, <2>1
  <2>3. c \in Of(w) /\ \A d \in Of(w) : d = c
      BY <1>1, <2>1, <2>2 DEF Of
  <2>4. wl[w].c = c
      BY <1>6, <2>3
  <2> QED  BY <1>7, <2>3, <2>4
<1> QED  BY <1>12, <1>13, <1>14, <1>15, <1>16, <1>17, <1>18 DEF Inv

\* A step that changes nothing.
LEMMA StutterInv ==
    ASSUME Inv, UNCHANGED vars
    PROVE  Inv'
<1>1. UNCHANGED <<phase, rec, sb, ct, file, vm, mgr, net, rootfs, stops, streams, wl, loc, used, count, lost>>
    BY DEF vars
<1>2. Shape'
    BY <1>1 DEF Inv, Shape, TypeOK
<1>3. Phases' /\ Minted' /\ Recovery'
    BY <1>1 DEF Inv, Phases, Minted, Recovery
<1>4. Young' /\ Removal' /\ Slots'
    BY <1>1 DEF Inv, Young, Removal, Slots
<1>5. Serving' /\ RegistriesBacked'
    BY <1>1 DEF Inv, Serving, RegistriesBacked, At
<1> QED  BY <1>2, <1>3, <1>4, <1>5 DEF Inv

\* Every step of the service, of the guests and of the recovery keeps the invariant.
LEMMA NextInv ==
    ASSUME Inv, [Next]_vars
    PROVE  Inv'
<1>1. ASSUME NEW r \in Reqs, RequestStep(r) \/ exec_done(r)
      PROVE  Inv'
  <2>1. r \in Procs
      BY DEF Procs
  <2>2. CASE PersistStep(r)
      BY <2>1, <2>2, PersistInv
  <2>3. CASE acquire_vm(r) \/ acquire_vm_fails(r) \/ add_sandbox(r) \/ insert_manager(r)
      BY <2>3, RunInv
  <2>4. CASE prepare_container_rootfs(r) \/ prepare_container_rootfs_fails(r) \/ add_container(r)
      BY <2>4, MakeInv
  <2>5. CASE launch(r) \/ register(r) \/ spawn_supervisor(r)
      BY <2>5, LaunchInv, RegisterInv, SpawnInv
  <2>6. CASE launch_fails(r) \/ exec_done(r)
      BY <2>6, EndsInv
  <2>7. CASE started(r) \/ stop_created(r) \/ stop_running(r)
      BY <2>1, <2>7, MarkInv
  <2>8. CASE \/ stop_container_read(r) \/ stop_container_workload(r) \/ stop_container_waited(r)
             \/ stop_container_timeout(r) \/ stop_container_fallback(r) \/ stop_container_unmap(r)
      BY <2>8, StopInv
  <2>9. CASE remove_container_delete(r) \/ remove_container_cleanup(r)
      BY <2>9, RemoveContainerInv
  <2>10. CASE \/ \E c \in Containers : stop_pod_signal(r, c) \/ stop_pod_mark(r, c)
              \/ stop_pod_relist(r)
      BY <2>10, PodStopInv
  <2>11. CASE pod_unmap(r)
      BY <2>11, PodUnmapInv
  <2>12. CASE destroy_sandbox_vm(r) \/ destroy_vm(r) \/ destroy_vm_fails(r)
      BY <2>12, DestroyInv
  <2>13. CASE \/ stop_pod_network(r) \/ stop_container_not_ready(r)
              \/ stop_container_network(r) \/ remove_pod_network(r)
      BY <2>13, DisconnectInv
  <2>14. CASE remove_containers_by_sandbox(r) \/ remove_pod_rootfs(r) \/ remove_sandbox(r)
      BY <2>14, RemoveInv
  <2> QED  BY <1>1, <2>2, <2>3, <2>4, <2>5, <2>6, <2>7, <2>8, <2>9, <2>10, <2>11, <2>12, <2>13, <2>14
              DEF RequestStep, GuardedStep
<1>2. ASSUME NEW w \in Sups, SupervisorStep(w)
      PROVE  Inv'
  <2>1. w \in Procs
      BY DEF Procs
  <2> QED  BY <1>2, <2>1, PersistInv, SupervisorInv, MarkInv, CleanInv DEF SupervisorStep
<1>3. CASE (\E w \in Sups : WorkloadExits(w)) \/ (\E s \in Sandboxes : VmDies(s))
    BY <1>3, DeathInv
<1>4. CASE UNCHANGED vars
    BY <1>4, StutterInv
<1> QED  BY <1>1, <1>2, <1>3, <1>4, RequestInv, StoppedInv, LoadInv DEF Next

\* Inv is an invariant of the CRI runtime service.
THEOREM Invariance == Spec => []Inv
<1>1. Init => Inv
    BY InitInv
<1>2. Inv /\ [Next]_vars => Inv'
    BY NextInv
<1> QED  BY <1>1, <1>2, PTL DEF Spec

\* Every variable keeps its type.
THEOREM TypeCorrect == Spec => []TypeOK
<1>1. Inv => TypeOK
    BY DEF Inv, Shape
<1> QED  BY <1>1, Invariance, PTL

\* A serving process leads to every VM, endpoint and rootfs directory of a pod that is
\* not lost, whatever requests, supervisors, crashes and recoveries came before
\* (load_state, destroy_sandbox_vm, run_pod_sandbox).
THEOREM Accounted == Spec => []ResourcesAccounted
<1>1. Inv => ResourcesAccounted
  <2> SUFFICES ASSUME Inv, phase = "serve"
               PROVE  ResourcesAccounted
      BY DEF ResourcesAccounted
  <2>1. Serving /\ Shape /\ Reqs \subseteq Procs
      BY DEF Inv, Procs
  <2>2. \A r \in Reqs : Booting(loc[r]) => loc[r].op = "run"
    <3>1. ASSUME NEW r \in Reqs, Booting(loc[r])
          PROVE  loc[r].op = "run"
      <4>1. Active(loc[r])
          BY <2>1, <3>1, IdleBits DEF Shape
      <4> QED  BY <3>1, <4>1 DEF Active, Flow, Through, Saving, Booting, StopPlaces
    <3> QED  BY <3>1
  <2>3. \A r \in Reqs : /\ ForVm(loc[r]) => loc[r].op = "run" \/ loc[r].pc = "kill"
                        /\ ForPodDir(loc[r]) => loc[r].op = "remove"
      BY DEF ForVm, ForPodDir
  <2>4. ASSUME NEW s \in Sandboxes \ lost
        PROVE  /\ vm[s] = "up" => \/ s \in mgr
                                  \/ \E r \in Reqs : loc[r].s = s /\ (loc[r].op = "run" \/ At(r, "kill"))
               /\ s \in net => sb[s] # "none" \/ \E r \in Reqs : loc[r].s = s /\ loc[r].op = "run"
      BY <2>1, <2>2, <2>3 DEF Serving, At
  <2>5. \A c \in rootfs : \/ ct[c].st # "none" \/ Pod[c] \in lost
                          \/ \E r \in Reqs : loc[r].c = c \/ (loc[r].op = "remove" /\ loc[r].s = Pod[c])
      BY <2>1, <2>3 DEF Serving
  <2> QED  BY <2>4, <2>5 DEF ResourcesAccounted
<1> QED  BY <1>1, Invariance, PTL

\* A pod is Ready only with a manager, or with a request that will insert or has just
\* taken it (stop_container_vm, load_state).
THEOREM Managed == Spec => []ReadyHasManager
<1>1. Inv => ReadyHasManager
    BY DEF Inv, Serving, ReadyHasManager
<1> QED  BY <1>1, Invariance, PTL

\* Every registered stop channel and stream has a supervisor that removes it
\* (spawn_container_exit_supervisor).
THEOREM Backed == Spec => []RegistriesBacked
<1>1. Inv => RegistriesBacked
    BY DEF Inv
<1> QED  BY <1>1, Invariance, PTL

\* What ExitedStays says of a step.
Kept == \A c \in Containers : ct[c].st = "Exited" => ct'[c].st \in {"Exited", "none"}

\* Marking a container, whatever it names, leaves an exited one exited.
LEMMA MarkKeeps ==
    ASSUME ct \in [Containers -> Container], NEW c, NEW k,
           \/ ct' = [ct EXCEPT ![c] = IF @.st = "Created" THEN Running ELSE @]
           \/ ct' = [ct EXCEPT ![c] = IF @.st = "none" THEN @ ELSE Exited(k)]
           \/ ct' = [ct EXCEPT ![c] = IF @.st = "Running" THEN Exited(k) ELSE @]
           \/ ct' = [ct EXCEPT ![c] = NoContainer]
           \/ ct' = [ct EXCEPT ![c] = Exited(k)]
    PROVE  Kept
<1>1. Exited(k).st = "Exited" /\ NoContainer.st = "none"
    BY DEF Exited, NoContainer
<1> SUFFICES ASSUME NEW d \in Containers, ct[d].st = "Exited"
             PROVE  ct'[d] \in {ct[d], Exited(k), NoContainer}
    BY <1>1 DEF Kept
<1>2. CASE d # c
    BY <1>2
<1>3. CASE d = c
    BY <1>3
<1> QED  BY <1>2, <1>3

\* No step of the server brings an exited container back.
LEMMA NextKeeps ==
    ASSUME Inv, [Next]_vars
    PROVE  Kept
<1>1. /\ ct \in [Containers -> Container]
      /\ UNCHANGED ct => Kept
    BY DEF Inv, Shape, TypeOK, Kept
<1>2. ASSUME NEW r \in Reqs, RequestStep(r) \/ exec_done(r)
      PROVE  Kept
  <2>1. CASE started(r)
      BY <1>1, <2>1, MarkKeeps DEF started, mark_started_if_created
  <2>2. CASE stop_created(r)
      BY <1>1, <2>2, MarkKeeps DEF stop_created, mark_exited
  <2>3. CASE stop_running(r)
      BY <1>1, <2>3, MarkKeeps DEF stop_running, mark_exited_if_running
  <2>4. ASSUME NEW c \in Containers, stop_pod_mark(r, c)
        PROVE  Kept
      BY <1>1, <2>4, MarkKeeps DEF stop_pod_mark
  <2>5. CASE remove_container_delete(r)
      BY <1>1, <2>5, MarkKeeps DEF remove_container_delete
  <2>6. CASE remove_containers_by_sandbox(r)
      BY <2>6 DEF remove_containers_by_sandbox, NoContainer, Kept
  <2>7. CASE add_container(r)
    <3>1. /\ ct[loc[r].c].st = "none"
          /\ ct' = [ct EXCEPT ![loc[r].c] = Created]
        BY <2>7 DEF add_container, At, Inv, Young, Making
    <3> QED  BY <1>1, <3>1 DEF Kept
  <2>8. CASE \/ PersistStep(r) \/ GuardedStep(r)
             \/ acquire_vm(r) \/ acquire_vm_fails(r) \/ add_sandbox(r)
             \/ prepare_container_rootfs(r) \/ prepare_container_rootfs_fails(r)
             \/ launch(r) \/ launch_fails(r) \/ register(r) \/ spawn_supervisor(r) \/ exec_done(r)
      BY <1>1, <2>8 DEF PersistStep, persist_sandboxes, persist_containers, persist_save,
            GuardedStep, insert_manager, destroy_sandbox_vm, acquire_vm, acquire_vm_fails,
            add_sandbox, prepare_container_rootfs, prepare_container_rootfs_fails, launch,
            launch_fails, register, spawn_supervisor, exec_done, store
  <2>9. CASE \/ stop_container_read(r) \/ stop_container_workload(r) \/ stop_container_waited(r)
             \/ stop_container_timeout(r) \/ stop_container_fallback(r)
             \/ stop_container_unmap(r) \/ remove_container_cleanup(r)
             \/ (\E c \in Containers : stop_pod_signal(r, c))
             \/ stop_pod_relist(r) \/ pod_unmap(r) \/ destroy_vm(r) \/ destroy_vm_fails(r)
             \/ stop_pod_network(r) \/ stop_container_not_ready(r) \/ stop_container_network(r)
             \/ remove_pod_network(r) \/ remove_pod_rootfs(r) \/ remove_sandbox(r)
      BY <1>1, <2>9 DEF stop_container_read, stop_container_workload, stop_container_waited,
            stop_container_timeout, stop_container_fallback, stop_container_unmap,
            remove_container_cleanup, stop_pod_signal, stop_pod_relist, pod_unmap, destroy_vm,
            destroy_vm_fails, stop_pod_network, stop_container_not_ready, stop_container_network,
            remove_pod_network, remove_pod_rootfs,
            remove_sandbox, store
  <2> QED  BY <1>2, <2>1, <2>2, <2>3, <2>4, <2>5, <2>6, <2>7, <2>8, <2>9 DEF RequestStep
<1>3. ASSUME NEW w \in Sups, SupervisorStep(w) \/ WorkloadExits(w)
      PROVE  Kept
  <2>1. CASE supervisor_mark(w)
      BY <1>1, <2>1, MarkKeeps DEF supervisor_mark, mark_exited_if_running
  <2>2. CASE PersistStep(w) \/ supervisor_cancel(w) \/ supervisor_exit(w) \/ supervisor_clean(w)
                \/ WorkloadExits(w)
      BY <1>1, <2>2 DEF PersistStep, persist_sandboxes, persist_containers, persist_save,
            supervisor_cancel, supervisor_exit, supervisor_clean, WorkloadExits, store
  <2> QED  BY <1>3, <2>1, <2>2 DEF SupervisorStep
<1>4. CASE NewRequest
    BY <1>1, <1>4 DEF NewRequest, run_pod_sandbox, stop_pod_sandbox, remove_pod_sandbox,
          create_container, start_container, stop_container, remove_container, exec_sync, store
<1>5. CASE Crash \/ shutdown_all_sandboxes
    BY <1>5 DEF Crash, shutdown_all_sandboxes, Stopped, NoContainers, NoContainer, Kept
<1>6. CASE LoadState
  <2>1. CASE load
    <3>1. \A c \in Containers : ct[c].st = "none"
        BY <2>1 DEF load, Inv, Phases, NoContainers, NoContainer
    <3> QED  BY <3>1 DEF Kept
  <2>2. CASE load_state_containers
      BY <1>1, <2>2, MarkKeeps DEF load_state_containers
  <2>3. CASE (\E s \in Sandboxes : load_state_mark(s) \/ load_state_reap(s)) \/ serve \/ load_fails
      BY <1>1, <2>3 DEF load_state_mark, load_state_reap, serve, load_fails, store
  <2> QED  BY <1>6, <2>1, <2>2, <2>3 DEF LoadState
<1>7. CASE (\E s \in Sandboxes : VmDies(s)) \/ UNCHANGED vars
    BY <1>1, <1>7 DEF VmDies, store, vars
<1> QED  BY <1>2, <1>3, <1>4, <1>5, <1>6, <1>7 DEF Next

\* An exited container is never started or created again: not by a start that
\* overlaps its stop, and not by a server that restarts (mark_started_if_created,
\* load_state).
THEOREM StaysExited == Spec => ExitedStays
<1>1. Inv /\ [Next]_vars => [Kept]_vars
    BY NextKeeps
<1> QED  BY <1>1, Invariance, PTL DEF Spec, ExitedStays, Kept


=============================================================================
