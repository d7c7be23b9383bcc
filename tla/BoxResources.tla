----------------------------- MODULE BoxResources ----------------------------
(***************************************************************************)
(* What a box holds outside its own record: an address in a network        *)
(* (networks.json) and an attachment to a volume (volumes.json), and the   *)
(* commands that take and give them back: run, start, stop, rm, compose up *)
(* and down, network create and rm, volume rm.                             *)
(*                                                                         *)
(* Neither store has a lock.  Every change is `get`, a change to the copy, *)
(* and `update`, which loads the file again, puts the copy in, writes a    *)
(* temporary file whose name all writers share, and renames it.  Commands  *)
(* are processes of their own and interleave between these steps, fail at  *)
(* some and roll back, or are killed at any.                               *)
(*                                                                         *)
(* A command is the sequence of operations it has still to do for the box  *)
(* it works on; compose goes through its services with one such sequence   *)
(* each.  There is one network and one volume, which every box uses; two   *)
(* commands never work on the same box (BoxState is about those).          *)
(***************************************************************************)
EXTENDS Naturals, Sequences, FiniteSets, SequencesExt

CONSTANTS
    Boxes,      \* boxes made by `run`
    Services,   \* the services of the compose project, in service_order
    Stale,      \* boxes that may have left an endpoint behind before
    Waits,      \* the services that wait for the one before to be healthy
    Procs,      \* the commands that may run at the same time
    HostBits,   \* 32 minus the prefix length of the network
    MaxCmds,    \* bound on the number of commands
    MaxFaults   \* bound on failed boots, timeouts, exits and kills

Svcs == Range(Services)
All  == Boxes \cup Svcs \cup Stale

ASSUME ResourcesAssumption ==
    /\ Services \in Seq(Svcs) /\ Waits \subseteq Svcs
    \* every box has an id of its own
    /\ Boxes \cap Svcs = {} /\ Stale \cap (Boxes \cup Svcs) = {}
    \* Ipam::new accepts prefixes 1 to 30
    /\ HostBits \in 2 .. 31 /\ MaxCmds \in Nat /\ MaxFaults \in Nat

-----------------------------------------------------------------------------
(* Ipam and NetworkConfig.  Addresses are offsets from the network address. *)

Gateway   == 1
Broadcast == 2^HostBits - 1
NoAddr    == 0

\* What was left behind fits into the network.
ASSUME StaleAssumption == IsFiniteSet(Stale) /\ Cardinality(Stale) + 1 < Broadcast

\* Mutant of allocate: the addresses in use are counted, not looked at.
allocate_next(used) ==
    IF Cardinality(used) + 2 < Broadcast THEN Cardinality(used) + 2 ELSE NoAddr

\* Mutant of allocate: the broadcast address is handed out too.
allocate_all(used) ==
    LET usable == {a \in 2 .. Broadcast : a # Gateway /\ a \notin used} IN
    IF usable = {} THEN NoAddr ELSE CHOOSE a \in usable : \A x \in usable : a <= x

\* The first free address after the gateway, NoAddr when there is none.
allocate(used) ==
    LET usable == {a \in 2 .. Broadcast - 1 : a # Gateway /\ a \notin used} IN
    IF usable = {} THEN NoAddr ELSE CHOOSE a \in usable : \A x \in usable : a <= x

\* What networks.json says of the network: whether it is there, and the endpoints.
Net == [ex : BOOLEAN, eps : [All -> 0 .. Broadcast - 1]]

NoEndpoints == [b \in All |-> NoAddr]
NewNet      == [ex |-> TRUE, eps |-> NoEndpoints]
NoNet       == [ex |-> FALSE, eps |-> NoEndpoints]

connect(n, b)    == [n EXCEPT !.eps[b] = allocate({n.eps[x] : x \in All} \ {NoAddr})]
disconnect(n, b) == [n EXCEPT !.eps[b] = NoAddr]

\* What volumes.json says of the volume: whether it is there, and in_use_by.
Vol == [ex : BOOLEAN, users : SUBSET All]

NewVol       == [ex |-> TRUE, users |-> {}]
NoVol        == [ex |-> FALSE, users |-> {}]
attach(v, b) == [v EXCEPT !.users = @ \cup {b}]
detach(v, b) == [v EXCEPT !.users = @ \ {b}]

-----------------------------------------------------------------------------
(* State                                                                   *)

VARIABLES
    file,   \* networks.json and volumes.json
    tmp,    \* their .json.tmp files, <<>> when there is none
    dir,    \* whether the volume's data directory is there
    rec,    \* boxes.json: "none", "running", "stopped" or "dead"
    vm,     \* the address the box's VM runs with, NoAddr when it does not run
    well,   \* the boxes whose health_status is healthy
    proc,   \* the commands
    used,   \* the box ids ever given out
    hist,   \* what has happened: lost updates, kills, forced removals
    count   \* commands and faults so far

vars == <<file, tmp, dir, rec, vm, well, proc, used, hist, count>>

\* One operation of a command, on box b where it has one.
Op(op, b) == [op |-> op, box |-> b]

NoBox == "none"

ASSUME NoBoxAssumption == NoBox \notin All

NetOps == {"connect", "ensure", "disconnect", "ensurenet", "netcreate", "raze", "netrm"}
VolOps == {"resolve", "attach", "detach", "volrm", "volrmf"}

StoreOps   == NetOps \cup VolOps
StoreOf(o) == IF o.op \in VolOps THEN "vol" ELSE "net"

\* ops: the operations left for the box at hand; left: the services that compose
\* has still to start or remove after it; made: compose has created the network, or
\* is to remove it; ph: the next step of the operation; copy: the config being
\* changed; base: the file when it was read.
Idle == [cmd |-> "idle", ops |-> <<>>, left |-> {}, made |-> FALSE,
         ph |-> "get", copy |-> <<>>, base |-> <<>>]

\* The network with the boxes of S connected one after the other, in some order:
\* they have the first addresses after the gateway.
ConnectedAll(S) ==
    {[NewNet EXCEPT !.eps = [b \in All |-> IF b \in S THEN f[b] ELSE NoAddr]] :
       f \in Bijection(S, 2 .. Cardinality(S) + 1)}

Init ==
    /\ \E S \in {{}, Stale} : \E n \in ConnectedAll(S) : file = [net |-> n, vol |-> NoVol]
    /\ tmp = [net |-> <<>>, vol |-> <<>>]
    /\ dir = FALSE
    /\ rec = [b \in All |-> "none"]
    /\ vm = [b \in All |-> NoAddr]
    /\ well = {}
    /\ proc = [p \in Procs |-> Idle]
    /\ used = {}
    /\ hist = {}
    /\ count = [cmds |-> 0, faults |-> 0]

-----------------------------------------------------------------------------
(* The commands as sequences of operations                                 *)

\* cleanup_box_resources.
Cleanup(b) == <<Op("detach", b), Op("disconnect", b)>>

\* setup_and_boot: the volume is attached after the boot and the record.
RunOps(b) ==
    <<Op("resolve", b), Op("connect", b), Op("boot", b), Op("add", b), Op("attach", b)>>

\* boot_from_record and the save of the record.
StartOps(b) == <<Op("ensure", b), Op("attach", b), Op("boot", b), Op("add", b)>>

\* Mutant of StopOps: the VM is stopped after the cleanup.
StopOps_late(b) == Cleanup(b) \o <<Op("kill", b), Op("stopped", b)>>

\* The VM first, then cleanup_stopped_box and the record.
StopOps(b) == <<Op("kill", b)>> \o Cleanup(b) \o <<Op("stopped", b)>>

\* rm, rm --force, and a service of compose down: cleanup_removed_box.
RmOps(b) == <<Op("kill", b)>> \o Cleanup(b) \o <<Op("forget", b)>>

\* A service of compose up.
SvcOps(b) == (IF b \in Waits THEN <<Op("wait", b)>> ELSE <<>>) \o RunOps(b)

UpOps == <<Op("ensurenet", NoBox)>>

\* Mutant of RollbackOps: the service is stopped but keeps what it holds.
RollbackOps_stop(b) == <<Op("kill", b), Op("forget", b)>>

\* rollback_started_services, for one service.
RollbackOps(b) == RmOps(b)

\* cleanup_created_networks, and the end of compose down: the networks go, with
\* whatever endpoints they still have.
NetworkOps == <<Op("raze", NoBox), Op("netrm", NoBox)>>

\* The first and the last of the services S in service_order.
Positions(S) == {i \in DOMAIN Services : Services[i] \in S}
FirstOf(S)   == Services[CHOOSE i \in Positions(S) : \A j \in Positions(S) : i <= j]
LastOf(S)    == Services[CHOOSE i \in Positions(S) : \A j \in Positions(S) : j <= i]

\* What a command does when operation o of it fails, for the box at hand.
OnError(q, o) ==
    CASE o.op = "boot" -> Cleanup(o.box)
      [] o.op = "attach" /\ q.cmd = "start" -> Cleanup(o.box)
      [] o.op = "attach" /\ q.cmd # "start" -> RmOps(o.box)
      [] OTHER -> <<>>

\* Operations whose errors are ignored (.ok(), a warning).
Lenient == {"detach", "disconnect", "raze", "netrm", "volrm", "volrmf"}

-----------------------------------------------------------------------------
(* Steps                                                                   *)

Cur(p) == Head(proc[p].ops)

\* Command q goes on with operations ops, compose with services left after them.
With(q, ops, left) ==
    [q EXCEPT !.ops = ops, !.left = left, !.ph = "get", !.copy = <<>>, !.base = <<>>]

\* The loops of compose: up in service_order, rollback and down last first and then
\* the networks.  Other commands end.
Advance(q) ==
    CASE q.cmd = "up" /\ q.left # {} ->
           LET b == FirstOf(q.left) IN With(q, SvcOps(b), q.left \ {b})
      [] q.cmd = "rollback" /\ q.left # {} ->
           LET b == LastOf(q.left) IN With(q, RollbackOps(b), q.left \ {b})
      [] q.cmd = "down" /\ q.left # {} ->
           LET b == LastOf(q.left) IN With(q, RmOps(b), q.left \ {b})
      [] q.cmd \in {"rollback", "down"} /\ q.left = {} /\ q.made ->
           [With(q, NetworkOps, {}) EXCEPT !.made = FALSE]
      [] OTHER -> Idle

\* The next operation.
Next1(q) == IF Len(q.ops) > 1 THEN With(q, Tail(q.ops), q.left) ELSE Advance(q)

\* rollback_compose_up, after the box at hand: the services started before it, and
\* the network if this command created it.
Rollback(q) ==
    IF q.cmd = "up"
    THEN [q EXCEPT !.cmd = "rollback", !.left = Svcs \ (q.left \cup {Head(q.ops).box})]
    ELSE q

Err1(q) ==
    LET undo == OnError(q, Head(q.ops)) IN
    CASE Head(q.ops).op \in Lenient -> Next1(q)
      [] Head(q.ops).op \notin Lenient /\ undo # <<>> -> With(Rollback(q), undo, Rollback(q).left)
      [] OTHER -> Advance(Rollback(q))

Done(p)  == proc' = [proc EXCEPT ![p] = Next1(@)]
Fail(p)  == proc' = [proc EXCEPT ![p] = Err1(@)]

\* compose works on all boxes of its project.
NoCompose == \A p \in Procs : proc[p].cmd \notin {"up", "rollback", "down"}

\* No command is working on box b.
Free(b) ==
    /\ \A p \in Procs : \A i \in DOMAIN proc[p].ops : proc[p].ops[i].box # b
    /\ b \in Svcs => NoCompose

Begin(p, q, ids) ==
    /\ proc[p].cmd = "idle" /\ count.cmds < MaxCmds
    /\ proc' = [proc EXCEPT ![p] = q]
    /\ used' = used \cup ids
    /\ count' = [count EXCEPT !.cmds = @ + 1]
    /\ UNCHANGED <<file, tmp, dir, rec, vm, well, hist>>

Cmd(cmd, ops) == [Idle EXCEPT !.cmd = cmd, !.ops = ops]

Run(p)   == \E b \in Boxes \ used : Begin(p, Cmd("run", RunOps(b)), {b})
Start(p) == \E b \in All :
    rec[b] \in {"stopped", "dead"} /\ Free(b) /\ Begin(p, Cmd("start", StartOps(b)), {})
Stop(p)  == \E b \in All :
    rec[b] = "running" /\ Free(b) /\ Begin(p, Cmd("stop", StopOps(b)), {})
Rm(p)    == \E b \in All : rec[b] # "none" /\ Free(b) /\ Begin(p, Cmd("rm", RmOps(b)), {})

\* No service is active; the boxes have fresh ids.
Up(p) ==
    /\ NoCompose /\ Svcs \cap used = {}
    /\ Begin(p, [Cmd("up", UpOps) EXCEPT !.left = Svcs], Svcs)

\* There is at least one box of the project: its boxes go first, then the networks.
Down(p) ==
    /\ NoCompose /\ \E b \in Svcs : rec[b] # "none"
    /\ \A b \in Svcs : Free(b)
    /\ LET boxes == {b \in Svcs : rec[b] # "none"}
           b     == LastOf(boxes)
       IN  Begin(p, [Cmd("down", RmOps(b)) EXCEPT !.left = boxes \ {b}, !.made = TRUE], {})

NetCreate(p) == Begin(p, Cmd("net", <<Op("netcreate", NoBox)>>), {})
NetRm(p)     == Begin(p, Cmd("net", <<Op("netrm", NoBox)>>), {})

\* volume rm, with and without --force; prune removes as volume rm does.
VolRm(p)     == \E o \in {"volrm", "volrmf"} : Begin(p, Cmd("vol", <<Op(o, NoBox)>>), {})

\* The first read of an operation, get or load, and the change to the copy: the
\* operation has nothing to do, fails, or is to save the changed entry.
Skip    == [do |-> "skip"]
Refuse  == [do |-> "error"]
Save(c) == [do |-> "save", to |-> c]

SaveIf(cond, c) == IF cond THEN Save(c) ELSE Skip
SaveOr(cond, c) == IF cond THEN Save(c) ELSE Refuse

\* Mutant of can_remove: the volume's users are not asked.
can_remove_any(v) == v.ex

\* VolumeStore::remove without force.
can_remove(v) == v.ex /\ v.users = {}

\* NetworkConfig::connect refuses a box that has an endpoint, and a full subnet.
CanConnect(n, b) == n.ex /\ n.eps[b] = NoAddr /\ connect(n, b) # n

VolChange(o, v) ==
    CASE o.op = "resolve" -> SaveIf(~v.ex, NewVol)
      [] o.op = "attach"  -> SaveIf(v.ex, attach(v, o.box))
      [] o.op = "detach"  -> SaveIf(v.ex, detach(v, o.box))
      [] o.op = "volrm"   -> SaveOr(can_remove(v), NoVol)
      [] o.op = "volrmf"  -> SaveOr(v.ex, NoVol)

\* "ensure" is start's connect, which finds nothing to do for a connected box.
NetChange(o, n) ==
    LET b == o.box IN
    CASE o.op = "connect"    -> SaveOr(CanConnect(n, b), connect(n, b))
      [] o.op = "ensure"     -> IF n.ex /\ n.eps[b] # NoAddr THEN Skip
                                ELSE SaveOr(CanConnect(n, b), connect(n, b))
      [] o.op = "disconnect" -> SaveIf(n.ex, disconnect(n, b))
      [] o.op = "ensurenet"  -> SaveIf(~n.ex, NewNet)
      [] o.op = "netcreate"  -> SaveOr(~n.ex, NewNet)
      [] o.op = "raze"       -> SaveIf(n.ex, NewNet)
      [] o.op = "netrm"      -> SaveOr(n.ex /\ n.eps = NoEndpoints, NoNet)

Change(o, f) == IF o.op \in VolOps THEN VolChange(o, f.vol) ELSE NetChange(o, f.net)

Updates  == {"attach", "detach", "connect", "ensure", "disconnect", "raze"}
Creates  == {"resolve", "ensurenet"}
Removals == {"volrm", "volrmf"}

\* What update and create find when they load the file again: update an entry that is
\* gone, create one that somebody else has made.
Overtaken(o, e) == (o.op \in Updates /\ ~e.ex) \/ (o.op \in Creates /\ e.ex)

Get(p) ==
    /\ proc[p].cmd # "idle" /\ Cur(p).op \in StoreOps /\ proc[p].ph = "get"
    /\ LET c == Change(Cur(p), file) IN
       \/ c.do = "skip" /\ Done(p)
       \/ c.do = "error" /\ Fail(p)
       \/ c.do = "save" /\ proc' = [proc EXCEPT ![p].ph = "put", ![p].copy = c.to,
                                               ![p].base = file[StoreOf(Cur(p))]]
    /\ UNCHANGED <<file, tmp, dir, rec, vm, well, used, hist, count>>

\* update, and create after a get: load again, fail if overtaken, put the copy in and
\* write the tmp file.  network create and remove have loaded once; the create of a
\* volume makes its directory first.
Put(p) ==
    /\ proc[p].cmd # "idle" /\ Cur(p).op \in StoreOps /\ proc[p].ph = "put"
    /\ LET s == StoreOf(Cur(p)) IN
       IF Overtaken(Cur(p), file[s])
       THEN Fail(p) /\ UNCHANGED <<tmp, dir>>
       ELSE /\ tmp' = [tmp EXCEPT ![s] = proc[p].copy]
            /\ dir' = (dir \/ Cur(p).op = "resolve")
            /\ proc' = [proc EXCEPT ![p].ph = "rename"]
    /\ UNCHANGED <<file, rec, vm, well, used, hist, count>>

\* compose up notes that it has created the network.
Saved(q, o) == [q EXCEPT !.made = q.made \/ o = "ensurenet"]

\* Rename whatever the tmp file holds by now; it is an error if another writer has
\* renamed it already.  A change made since the read is lost.  A removed volume's
\* directory is still there.
Rename(p) ==
    /\ proc[p].cmd # "idle" /\ Cur(p).op \in StoreOps /\ proc[p].ph = "rename"
    /\ LET s == StoreOf(Cur(p))
           o == Cur(p).op
           lost == file[s] # proc[p].base \/ tmp[s] # proc[p].copy
       IN
       IF tmp[s] = <<>>
       THEN /\ Fail(p) /\ hist' = hist \cup {s} /\ UNCHANGED <<file, tmp>>
       ELSE /\ file' = [file EXCEPT ![s] = tmp[s]]
            /\ tmp' = [tmp EXCEPT ![s] = <<>>]
            /\ hist' = hist \cup (IF lost THEN {s} ELSE {})
                            \cup (IF o = "volrmf" THEN {"forced"} ELSE {})
                            \cup (IF o = "raze" /\ proc[p].base # NewNet THEN {"razed"} ELSE {})
            /\ proc' = [proc EXCEPT ![p] = IF o \in Removals THEN [@ EXCEPT !.ph = "rmdir"]
                                          ELSE Next1(Saved(@, o))]
    /\ UNCHANGED <<dir, rec, vm, well, used, count>>

\* The create of a volume has made the directory and not yet saved the entry.
Creating == \E r \in Procs :
    proc[r].cmd # "idle" /\ Cur(r).op = "resolve" /\ proc[r].ph = "rename"

\* The end of VolumeStore::remove, with no second look at the store: the directory
\* goes, also when the volume has been created again since the save.
RmDir(p) ==
    /\ proc[p].cmd # "idle" /\ Cur(p).op \in Removals /\ proc[p].ph = "rmdir"
    /\ dir' = FALSE
    /\ hist' = hist \cup (IF file.vol.ex \/ Creating THEN {"late"} ELSE {})
    /\ Done(p)
    /\ UNCHANGED <<file, tmp, rec, vm, well, used, count>>

Fault == count' = [count EXCEPT !.faults = @ + 1]

\* boot: setup_bridge_network reads the store, the volume's host path is made if
\* it is missing.
Boot(p) ==
    /\ proc[p].cmd # "idle" /\ Cur(p).op = "boot"
    /\ LET b == Cur(p).box IN
       \/ /\ file.net.ex /\ file.net.eps[b] # NoAddr
          /\ vm' = [vm EXCEPT ![b] = file.net.eps[b]]
          /\ dir' = TRUE
          /\ Done(p)
          /\ UNCHANGED count
       \/ /\ file.net.ex => file.net.eps[b] = NoAddr
          /\ Fail(p) /\ UNCHANGED <<vm, dir, count>>
       \/ /\ count.faults < MaxFaults /\ Fault
          /\ Fail(p) /\ UNCHANGED <<vm, dir>>
    /\ UNCHANGED <<file, tmp, rec, well, used, hist>>

\* The changes of the record and of the process.
Record(p) ==
    /\ proc[p].cmd # "idle" /\ Cur(p).op \in {"add", "stopped", "forget", "kill"}
    /\ LET b == Cur(p).box  o == Cur(p).op IN
       /\ rec' = [rec EXCEPT ![b] = CASE o = "add" -> "running"
                                      [] o = "stopped" -> "stopped"
                                      [] o = "forget" -> "none"
                                      [] OTHER -> @]
       /\ vm' = [vm EXCEPT ![b] = IF o = "kill" THEN NoAddr ELSE @]
       /\ well' = IF o \in {"add", "stopped", "forget"} THEN well \ {b} ELSE well
       /\ Done(p)
    /\ UNCHANGED <<file, tmp, dir, used, hist, count>>

\* The service before b in service_order.
DepOf(b) == LET i == CHOOSE i \in DOMAIN Services : Services[i] = b IN Services[i - 1]

\* wait_for_healthy: polls the records until the dependency is healthy, or fails at
\* the deadline.
Wait(p) ==
    /\ proc[p].cmd # "idle" /\ Cur(p).op = "wait"
    /\ \/ DepOf(Cur(p).box) \in well /\ Done(p) /\ UNCHANGED count
       \/ count.faults < MaxFaults /\ Fault /\ Fail(p)
    /\ UNCHANGED <<file, tmp, dir, rec, vm, well, used, hist>>

\* The health checker finds a running box healthy.
Healthy ==
    /\ \E b \in All : /\ b \notin well /\ rec[b] = "running" /\ vm[b] # NoAddr
                      /\ \E s \in Waits : DepOf(s) = b
                      /\ well' = well \cup {b}
    /\ UNCHANGED <<file, tmp, dir, rec, vm, proc, used, hist, count>>

\* A workload ends; the next load of the records finds the box dead.
Exit ==
    /\ count.faults < MaxFaults /\ Fault
    /\ \E b \in All : /\ rec[b] = "running" /\ vm[b] # NoAddr /\ Free(b)
                      /\ rec' = [rec EXCEPT ![b] = "dead"]
                      /\ vm' = [vm EXCEPT ![b] = NoAddr]
    /\ UNCHANGED <<file, tmp, dir, well, proc, used, hist>>

\* A command is killed between two steps.  A start that is killed after the boot and
\* before the save leaves a VM on a box that the records call stopped.
Kill(p) ==
    /\ proc[p].cmd # "idle" /\ count.faults < MaxFaults /\ Fault
    /\ proc' = [proc EXCEPT ![p] = Idle]
    /\ hist' = hist \cup {"killed"}
                    \cup (IF proc[p].cmd = "start" /\ Cur(p).op = "add" THEN {"orphaned"} ELSE {})
    /\ UNCHANGED <<file, tmp, dir, rec, vm, well, used>>

Command(p) == Run(p) \/ Start(p) \/ Stop(p) \/ Rm(p) \/ Up(p) \/ Down(p)
                \/ NetCreate(p) \/ NetRm(p) \/ VolRm(p)

Step(p) == Get(p) \/ Put(p) \/ Rename(p) \/ RmDir(p) \/ Boot(p) \/ Record(p) \/ Wait(p)

Next == \/ \E p \in Procs : Command(p) \/ Step(p) \/ Kill(p)
        \/ Healthy \/ Exit

Spec == Init /\ [][Next]_vars

-----------------------------------------------------------------------------
(* Properties                                                              *)

TypeOK ==
    /\ file \in [net : Net, vol : Vol]
    /\ tmp \in [net : Net \cup {<<>>}, vol : Vol \cup {<<>>}]
    /\ dir \in BOOLEAN
    /\ rec \in [All -> {"none", "running", "stopped", "dead"}]
    /\ vm \in [All -> 0 .. Broadcast - 1]
    /\ well \subseteq All /\ used \subseteq All
    /\ \A p \in Procs : proc[p].ph \in {"get", "put", "rename", "rmdir"}
    /\ hist \subseteq {"net", "vol", "forced", "razed", "late", "killed", "orphaned"}

\* However commands interleave, the endpoints of the saved network have different
\* addresses, none of them the gateway's or the broadcast address.
EndpointsValid ==
    \A b \in All : file.net.eps[b] # NoAddr =>
      /\ file.net.ex
      /\ file.net.eps[b] > Gateway /\ file.net.eps[b] < Broadcast
      /\ \A x \in All : x # b => file.net.eps[x] # file.net.eps[b]

\* The address a VM runs with stays reserved for its box, so no other box is given
\* it, through failures, rollbacks and kills.  The exceptions are a lost update of
\* networks.json, a network that compose tears down with foreign boxes on it, and a
\* VM orphaned by the kill of its start, which the next start does not know of.
RunningIsConnected ==
    hist \cap {"net", "razed", "orphaned"} = {} =>
      \A b \in All : vm[b] # NoAddr => file.net.eps[b] = vm[b]

\* p is about to save volumes.json over a change made since it read the file, or to
\* rename what another writer has left in the tmp file.
Overwrites(p) ==
    /\ proc[p].cmd # "idle" /\ Cur(p).op \in VolOps /\ proc[p].ph = "rename"
    /\ file.vol # proc[p].base \/ tmp.vol # proc[p].copy

Forces(p) == proc[p].cmd # "idle" /\ Cur(p).op = "volrmf" /\ proc[p].ph = "rename"

\* While a VM runs, no step takes the volume attached to its box out of volumes.json
\* or the box off its users, except the save of a command that is overwriting
\* another's change, volume rm --force, and the cleanup of a start that does not know
\* of an orphaned VM.  The volume keeps its directory too, unless an update was lost
\* or a removal overtook the creation of the same volume: remove deletes the
\* directory after its save, from a volume that a run has created and attached since.
AttachedKept ==
    [][\A b \in All : vm[b] # NoAddr /\ vm'[b] # NoAddr /\ b \in file.vol.users =>
         /\ \/ b \in file'.vol.users
            \/ "orphaned" \in hist
            \/ \E p \in Procs : proc'[p] # proc[p] /\ (Overwrites(p) \/ Forces(p))
         /\ dir' \/ hist' \cap {"vol", "late"} # {}]_vars

\* Between commands, if none was killed and no update was lost: every running VM
\* has a record, a box without a record holds nothing, and a box that `stop` ended
\* holds nothing.  Failed runs, starts and compose ups have given back all they took.
NothingLeftBehind ==
    (\A p \in Procs : proc[p].cmd = "idle") /\ hist \subseteq {"forced", "razed", "late"} =>
      \A b \in All \ Stale :
        /\ vm[b] # NoAddr => rec[b] = "running"
        /\ rec[b] \in {"none", "stopped"} => file.net.eps[b] = NoAddr /\ b \notin file.vol.users
=============================================================================
