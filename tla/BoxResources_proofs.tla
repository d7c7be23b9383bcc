------------------------- MODULE BoxResources_proofs -------------------------
(***************************************************************************)
(* For every number of boxes, services, commands and addresses: the        *)
(* endpoints that networks.json holds have distinct usable addresses,      *)
(* although the file has no lock and its writers share one temporary file; *)
(* the address of a running VM stays reserved and its volume attached      *)
(* unless an update is lost, a network torn down, a removal forced or a VM *)
(* orphaned; and commands that finish or fail leave nothing behind.        *)
(*                                                                         *)
(* The invariant says, besides the properties: which operation of a        *)
(* command may follow which (Plan), that a copy between get and rename is  *)
(* what the operation makes of a consistent entry (Copied), that commands  *)
(* work on boxes of their own (Apart), what record and VM of the box are   *)
(* at each operation (Stages), and what the box holds then (Balanced).     *)
(***************************************************************************)
EXTENDS BoxResources, FiniteSetTheorems, TLAPS

-----------------------------------------------------------------------------
(* Addresses                                                               *)

\* A nonempty set of naturals has a least element.
LEMMA Least ==
    ASSUME NEW S \in SUBSET Nat, S # {}
    PROVE  \E x \in S : \A y \in S : x <= y
<1> DEFINE T == {0 .. x : x \in S}
           R == StrictSubsetOrdering(Nat)
<1>1. T \subseteq FiniteSubsetsOf(Nat) /\ T # {}
  <2>1. \A x \in S : IsFiniteSet(0 .. x)
      BY FS_Interval
  <2>2. \A x \in S : 0 .. x \in SUBSET Nat
      OBVIOUS
  <2> QED  BY <2>1, <2>2 DEF FiniteSubsetsOf
<1>2. IsWellFoundedOn(R, FiniteSubsetsOf(Nat))
    BY FS_StrictSubsetOrderingWellFounded
<1>3. PICK A \in T : \A B \in T : ~ (<<B, A>> \in R)
  <2> HIDE DEF R, T
  <2> QED  BY <1>1, <1>2, WFMin
<1>4. PICK x \in S : A = 0 .. x
    BY <1>3
<1>5. ASSUME NEW y \in S, y < x
      PROVE  FALSE
  <2>1. 0 .. y \in T /\ 0 .. y \in SUBSET Nat /\ A \in SUBSET Nat
      BY <1>4
  <2>2. 0 .. y \subseteq A /\ 0 .. y # A
      BY <1>4, <1>5
  <2>3. <<0 .. y, A>> \in R
      BY <2>1, <2>2 DEF StrictSubsetOrdering
  <2> QED  BY <1>3, <2>1, <2>3
<1> QED  BY <1>5

\* The broadcast address is a positive natural.
LEMMA BroadcastFacts == Broadcast \in Nat /\ Broadcast >= 1
<1> DEFINE S == 1 .. HostBits
<1>1. HostBits \in Nat /\ HostBits >= 1
    BY ResourcesAssumption
<1>2. IsFiniteSet(S) /\ Cardinality(S) = HostBits
    BY <1>1, FS_Interval
<1>3. IsFiniteSet(SUBSET S) /\ Cardinality(SUBSET S) = 2^HostBits
    BY <1>2, FS_SUBSET
<1>4. 2^HostBits \in Nat
    BY <1>3, FS_CardinalityType
<1>5. {{}, {1}} \in SUBSET (SUBSET S)
    BY <1>1
<1>6. Cardinality({{}, {1}}) = 2
  <2>1. IsFiniteSet({{}}) /\ Cardinality({{}}) = 1 /\ {1} \notin {{}}
      BY FS_Singleton
  <2>2. {{}, {1}} = {{}} \cup {{1}}
      OBVIOUS
  <2>3. Cardinality({{}} \cup {{1}}) = Cardinality({{}}) + 1
      BY <2>1, FS_AddElement
  <2> QED  BY <2>1, <2>2, <2>3
<1>7. 2 <= 2^HostBits
    BY <1>3, <1>5, <1>6, FS_Subset
<1> QED  BY <1>4, <1>7 DEF Broadcast

\* allocate returns an address that is usable and not in use, or none.
LEMMA AllocateFacts ==
    ASSUME NEW taken
    PROVE  \/ allocate(taken) = NoAddr
           \/ allocate(taken) \in 2 .. Broadcast - 1 /\ allocate(taken) \notin taken
<1> DEFINE usable == {a \in 2 .. Broadcast - 1 : a # Gateway /\ a \notin taken}
<1>1. CASE usable = {}
    BY <1>1 DEF allocate
<1>2. CASE usable # {}
  <2>1. usable \in SUBSET Nat
      BY BroadcastFacts
  <2>2. \E a \in usable : \A x \in usable : a <= x
    <3> HIDE DEF usable
    <3> QED  BY <1>2, <2>1, Least
  <2>3. allocate(taken) \in usable
      BY <1>2, <2>2 DEF allocate
  <2> QED  BY <2>3
<1> QED  BY <1>1, <1>2

-----------------------------------------------------------------------------
(* The network                                                             *)

\* EndpointsValid of a copy of the network.
Valid(n) ==
    \A b \in All : n.eps[b] # NoAddr =>
      /\ n.ex
      /\ n.eps[b] > Gateway /\ n.eps[b] < Broadcast
      /\ \A x \in All : x # b => n.eps[x] # n.eps[b]

GoodNet(n) == n \in Net /\ Valid(n)

\* A network without endpoints is consistent, created or removed.
LEMMA NewNetGood == GoodNet(NewNet) /\ GoodNet(NoNet)
<1>1. NoEndpoints \in [All -> 0 .. Broadcast - 1] /\ \A b \in All : NoEndpoints[b] = NoAddr
    BY BroadcastFacts DEF NoEndpoints, NoAddr
<1> QED  BY <1>1 DEF GoodNet, NewNet, NoNet, Net, Valid

\* A box is connected at most to a free address.
LEMMA ConnectGood ==
    ASSUME NEW n, GoodNet(n), NEW b, n.ex
    PROVE  GoodNet(connect(n, b))
<1> DEFINE taken == {n.eps[x] : x \in All} \ {NoAddr}
           a == allocate(taken)
           e == [n.eps EXCEPT ![b] = a]
<1>1. a \in 0 .. Broadcast - 1 /\ (a # NoAddr => a \in 2 .. Broadcast - 1 /\ a \notin taken)
  <2> HIDE DEF taken
  <2>1. a = NoAddr \/ (a \in 2 .. Broadcast - 1 /\ a \notin taken)
      BY AllocateFacts
  <2> HIDE DEF a
  <2> QED  BY <2>1, BroadcastFacts DEF NoAddr
<1>2. n.eps \in [All -> 0 .. Broadcast - 1] /\ n \in [ex : BOOLEAN, eps : [All -> 0 .. Broadcast - 1]]
    BY DEF GoodNet, Net
<1>3. connect(n, b) = [n EXCEPT !.eps = e]
    BY DEF connect
<1>4. \A x \in All : a # NoAddr => n.eps[x] # a
    BY <1>1
<1> HIDE DEF a
<1>5. e \in [All -> 0 .. Broadcast - 1] /\ \A x \in All : e[x] = IF x = b THEN a ELSE n.eps[x]
    BY <1>1, <1>2
<1> HIDE DEF e
<1>6. /\ [n EXCEPT !.eps = e] \in [ex : BOOLEAN, eps : [All -> 0 .. Broadcast - 1]]
      /\ [n EXCEPT !.eps = e].ex = n.ex /\ [n EXCEPT !.eps = e].eps = e
    BY <1>2, <1>5
<1>7. ASSUME NEW x \in All, e[x] # NoAddr
      PROVE  /\ e[x] > Gateway /\ e[x] < Broadcast
             /\ \A y \in All : y # x => e[y] # e[x]
  <2>1. CASE x = b
    <3>1. e[x] = a /\ a \in 2 .. Broadcast - 1
        BY <1>1, <1>5, <1>7, <2>1
    <3>2. e[x] > Gateway /\ e[x] < Broadcast
        BY <3>1, BroadcastFacts DEF Gateway
    <3> QED  BY <1>4, <1>5, <1>7, <2>1, <3>1, <3>2
  <2>2. CASE x # b
    <3>1. e[x] = n.eps[x] /\ e[x] > Gateway /\ e[x] < Broadcast
        BY <1>5, <1>7, <2>2 DEF GoodNet, Valid
    <3>2. ASSUME NEW y \in All, y # x
          PROVE  e[y] # e[x]
      <4>1. CASE y = b
          BY <1>4, <1>5, <1>7, <3>1, <4>1
      <4>2. CASE y # b
          BY <1>5, <1>7, <3>1, <3>2, <4>2 DEF GoodNet, Valid
      <4> QED  BY <4>1, <4>2
    <3> QED  BY <3>1, <3>2
  <2> QED  BY <2>1, <2>2
<1> QED  BY <1>3, <1>6, <1>7 DEF GoodNet, Valid, Net

\* A box is disconnected.
LEMMA DisconnectGood ==
    ASSUME NEW n, GoodNet(n), NEW b
    PROVE  GoodNet(disconnect(n, b))
<1> DEFINE e == [n.eps EXCEPT ![b] = NoAddr]
<1>1. n.eps \in [All -> 0 .. Broadcast - 1] /\ n \in [ex : BOOLEAN, eps : [All -> 0 .. Broadcast - 1]]
    BY DEF GoodNet, Net
<1>2. disconnect(n, b) = [n EXCEPT !.eps = e]
    BY DEF disconnect
<1>3. e \in [All -> 0 .. Broadcast - 1] /\ \A x \in All : e[x] = IF x = b THEN NoAddr ELSE n.eps[x]
  <2>1. NoAddr \in 0 .. Broadcast - 1
      BY BroadcastFacts DEF NoAddr
  <2> QED  BY <1>1, <2>1
<1> HIDE DEF e
<1>4. /\ [n EXCEPT !.eps = e] \in [ex : BOOLEAN, eps : [All -> 0 .. Broadcast - 1]]
      /\ [n EXCEPT !.eps = e].ex = n.ex /\ [n EXCEPT !.eps = e].eps = e
    BY <1>1, <1>3
<1>5. ASSUME NEW x \in All, e[x] # NoAddr
      PROVE  /\ n.ex /\ e[x] > Gateway /\ e[x] < Broadcast
             /\ \A y \in All : y # x => e[y] # e[x]
  <2>1. x # b /\ e[x] = n.eps[x] /\ n.eps[x] # NoAddr
      BY <1>3, <1>5
  <2>2. /\ n.ex /\ n.eps[x] > Gateway /\ n.eps[x] < Broadcast
        /\ \A y \in All : y # x => n.eps[y] # n.eps[x]
      BY <2>1 DEF GoodNet, Valid
  <2>3. \A y \in All : e[y] = NoAddr \/ e[y] = n.eps[y]
      BY <1>3
  <2> QED  BY <2>1, <2>2, <2>3
<1> QED  BY <1>2, <1>4, <1>5 DEF GoodNet, Valid, Net

\* What a writer of networks.json means to save.
LEMMA NetChangeGood ==
    ASSUME NEW o, o.op \in NetOps, NEW n, GoodNet(n), NetChange(o, n).do = "save"
    PROVE  GoodNet(NetChange(o, n).to)
<1> DEFINE b == o.box
<1>1. \A c, d : /\ SaveIf(c, d).do = "save" => c /\ SaveIf(c, d).to = d
                /\ SaveOr(c, d).do = "save" => c /\ SaveOr(c, d).to = d
    BY DEF SaveIf, SaveOr, Save, Skip, Refuse
<1>2. CASE o.op = "connect"
  <2>1. NetChange(o, n) = SaveOr(CanConnect(n, b), connect(n, b))
      BY <1>2 DEF NetChange
  <2>2. n.ex /\ NetChange(o, n).to = connect(n, b)
      BY <1>1, <2>1 DEF CanConnect
  <2> QED  BY <2>2, ConnectGood
<1>3. CASE o.op = "ensure"
  <2>1. CASE n.ex /\ n.eps[b] # NoAddr
      BY <1>3, <2>1 DEF NetChange, Skip
  <2>2. CASE ~(n.ex /\ n.eps[b] # NoAddr)
    <3>1. NetChange(o, n) = SaveOr(CanConnect(n, b), connect(n, b))
        BY <1>3, <2>2 DEF NetChange
    <3>2. n.ex /\ NetChange(o, n).to = connect(n, b)
        BY <1>1, <3>1 DEF CanConnect
    <3> QED  BY <3>2, ConnectGood
  <2> QED  BY <2>1, <2>2
<1>4. CASE o.op = "disconnect"
  <2>1. NetChange(o, n) = SaveIf(n.ex, disconnect(n, b))
      BY <1>4 DEF NetChange
  <2> QED  BY <1>1, <2>1, DisconnectGood
<1>5. CASE o.op \in {"ensurenet", "netcreate", "raze", "netrm"}
  <2>1. \/ NetChange(o, n) = SaveIf(~n.ex, NewNet)
        \/ NetChange(o, n) = SaveOr(~n.ex, NewNet)
        \/ NetChange(o, n) = SaveIf(n.ex, NewNet)
        \/ NetChange(o, n) = SaveOr(n.ex /\ n.eps = NoEndpoints, NoNet)
      BY <1>5 DEF NetChange
  <2> QED  BY <1>1, <2>1, NewNetGood
<1> QED  BY <1>2, <1>3, <1>4, <1>5 DEF NetOps


-----------------------------------------------------------------------------
(* The invariant                                                           *)

\* Nobody uses a volume that is not there.
GoodVol(v) == v \in Vol /\ (~v.ex => v.users = {})

Compose  == {"up", "rollback", "down"}
Commands == Compose \cup {"idle", "run", "start", "stop", "rm", "net", "vol"}
NoBoxOps == {"ensurenet", "netcreate", "raze", "netrm", "volrm", "volrmf"}
BoxOps   == {"wait", "resolve", "connect", "boot", "add", "attach", "ensure",
             "kill", "detach", "disconnect", "stopped", "forget"}
Operation == [op : BoxOps, box : All] \cup [op : NoBoxOps, box : {NoBox}]

\* Which operation follows which.
Then(cmd) ==
    IF cmd = "start"
    THEN {<<"ensure", "attach">>, <<"attach", "boot">>, <<"boot", "add">>,
          <<"detach", "disconnect">>}
    ELSE {<<"wait", "resolve">>, <<"resolve", "connect">>, <<"connect", "boot">>,
          <<"boot", "add">>, <<"add", "attach">>, <<"kill", "detach">>,
          <<"detach", "disconnect">>, <<"disconnect", "stopped">>,
          <<"disconnect", "forget">>, <<"raze", "netrm">>}

\* Which operation may be the last for a box.
Last1(cmd) ==
    IF cmd = "start" THEN {"add", "disconnect"}
    ELSE {"attach", "disconnect", "stopped", "forget"} \cup (NoBoxOps \ {"raze"})

\* The operations left of a command, all of them on one box.
Plan(cmd, ops) ==
    /\ ops \in Seq(Operation) /\ Len(ops) > 0
    /\ \A i \in 1 .. Len(ops) : ops[i].box = ops[1].box
    /\ \A i \in 1 .. Len(ops) - 1 : <<ops[i].op, ops[i + 1].op>> \in Then(cmd)
    /\ ops[Len(ops)].op \in Last1(cmd)

Entry == Net \cup Vol \cup {<<>>}

CmdRec ==
    [cmd : Commands, ops : Seq(Operation), left : SUBSET Svcs, made : BOOLEAN,
     ph : {"get", "put", "rename", "rmdir"}, copy : Entry, base : Entry]

\* A command in progress.
Working(q) ==
    /\ q \in CmdRec /\ q.cmd # "idle"
    /\ Plan(q.cmd, q.ops)
    /\ q.left # {} => q.cmd \in Compose
    /\ q.cmd \in Compose => q.ops[1].box \in Svcs \cup {NoBox}
    /\ q.ops[1].box \notin q.left
    /\ q.ph # "get" => q.ops[1].op \in StoreOps

\* What an operation that is being saved read, and made of it.
Copied(q) ==
    q.ph # "get" =>
      IF q.ops[1].op \in VolOps
      THEN /\ GoodVol(q.base) /\ VolChange(q.ops[1], q.base).do = "save"
           /\ q.copy = VolChange(q.ops[1], q.base).to
      ELSE /\ GoodNet(q.base) /\ NetChange(q.ops[1], q.base).do = "save"
           /\ q.copy = NetChange(q.ops[1], q.base).to

Shape ==
    /\ TypeOK
    /\ proc \in [Procs -> CmdRec]
    /\ \A p \in Procs : proc[p] = Idle \/ (Working(proc[p]) /\ Copied(proc[p]))

\* The stores hold only what some operation made.
Stored ==
    /\ GoodNet(file.net) /\ GoodVol(file.vol)
    /\ tmp.net = <<>> \/ GoodNet(tmp.net)
    /\ tmp.vol = <<>> \/ GoodVol(tmp.vol)

\* The boxes a command works on.
Owns(q) ==
    IF q = Idle THEN {}
    ELSE IF q.cmd \in Compose THEN Svcs ELSE {q.ops[1].box} \ {NoBox}

\* Two commands never work on the same box, and only on boxes that exist.
Apart ==
    /\ \A p, r \in Procs : p # r => Owns(proc[p]) \cap Owns(proc[r]) = {}
    /\ \A p \in Procs : Owns(proc[p]) \subseteq used
    /\ used \subseteq Boxes \cup Svcs /\ (Svcs \subseteq used \/ Svcs \cap used = {})
    /\ \A b \in All \ used : rec[b] = "none" /\ vm[b] = NoAddr

\* The operations that work on a box whose VM does not run.
DownFor(q) == {"wait", "resolve", "connect", "ensure", "boot", "detach", "disconnect",
               "stopped", "forget"} \cup (IF q.cmd = "start" THEN {"attach"} ELSE {})

\* What record and VM of its box are when a command is at an operation.
Stage(q) ==
    LET o == q.ops[1].op  b == q.ops[1].box IN
    /\ \/ o \in {"wait", "resolve", "connect"}
       \/ o \in {"boot", "add"} /\ q.cmd # "start"
       => rec[b] = "none"
    /\ o = "attach" /\ q.cmd # "start" => rec[b] = "running"
    /\ o \in DownFor(q) /\ "orphaned" \notin hist => vm[b] = NoAddr
    /\ q.cmd = "up" => \A x \in q.left : rec[x] = "none" /\ vm[x] = NoAddr

Stages == \A p \in Procs : proc[p] # Idle => Stage(proc[p])

\* The VM of a stopped box is one that a start has just booted.
Parked ==
    "orphaned" \notin hist =>
      \A b \in All : rec[b] \in {"stopped", "dead"} /\ vm[b] # NoAddr =>
        \E p \in Procs : proc[p].cmd = "start" /\ proc[p].ops[1] = Op("add", b)

\* Unless an update is lost or a removal is late, the volume comes with its directory,
\* from the moment its create has made it.
Backed == hist \cap {"vol", "late"} = {} /\ (file.vol.ex \/ Creating) => dir

Clean(b) == file.net.eps[b] = NoAddr /\ b \notin file.vol.users

\* What the box of a command holds when it is at an operation.
Held(q) ==
    LET o == q.ops[1].op  b == q.ops[1].box IN
    /\ o \in {"wait", "resolve", "connect", "stopped", "forget"} => Clean(b)
    /\ o = "ensure" /\ rec[b] # "dead" => Clean(b)
    /\ o = "disconnect" => b \notin file.vol.users

Resting(b) ==
    /\ vm[b] # NoAddr => rec[b] = "running"
    /\ rec[b] \in {"none", "stopped"} => Clean(b)

Worked(b) == \E p \in Procs : proc[p] # Idle /\ proc[p].ops[1].box = b

Quiet == hist \subseteq {"forced", "razed", "late"}

\* Without kills and lost updates, what a box holds is accounted for by its record
\* or by the command that works on it.
Balanced ==
    Quiet =>
      /\ \A p \in Procs : proc[p] # Idle => Held(proc[p])
      /\ \A b \in All \ Stale : ~Worked(b) => Resting(b)

Inv == Shape /\ Stored /\ Apart /\ Stages /\ Parked /\ Backed /\ Balanced /\ RunningIsConnected


-----------------------------------------------------------------------------
(* Plans                                                                   *)

\* What a writer of volumes.json means to save.
LEMMA VolChangeGood ==
    ASSUME NEW o \in Operation, o.op \in VolOps,
           NEW v, GoodVol(v), VolChange(o, v).do = "save"
    PROVE  GoodVol(VolChange(o, v).to)
<1>1. o.op = "attach" => o.box \in All
    BY DEF Operation, NoBoxOps
<1> QED  BY <1>1 DEF VolOps, VolChange, SaveIf, SaveOr, Save, Skip, Refuse, GoodVol, Vol,
                     NewVol, NoVol, attach, detach

\* A command in progress is not idle.
LEMMA WorkingNotIdle == \A q : Working(q) => q # Idle /\ q.cmd # "idle" /\ Idle.cmd = "idle"
  BY DEF Working, Idle

\* The first operation of a plan, and the next one.
LEMMA PlanHead ==
    ASSUME NEW cmd, NEW ops, Plan(cmd, ops)
    PROVE  /\ Head(ops) = ops[1] /\ ops[1] \in Operation /\ Len(ops) \in Nat
           /\ Len(ops) = 1 => ops[1].op \in Last1(cmd)
  BY DEF Plan

\* What is left after the first operation of a plan is again a plan.
LEMMA PlanTail ==
    ASSUME NEW cmd, NEW ops, Plan(cmd, ops), Len(ops) > 1
    PROVE  /\ Plan(cmd, Tail(ops))
           /\ Tail(ops)[1].box = ops[1].box
           /\ <<ops[1].op, Tail(ops)[1].op>> \in Then(cmd)
<1>1. /\ Len(Tail(ops)) = Len(ops) - 1 /\ Len(ops) \in Nat /\ Tail(ops) \in Seq(Operation)
      /\ \A i \in 1 .. Len(ops) - 1 : Tail(ops)[i] = ops[i + 1]
    BY DEF Plan
<1>2. \A i \in 1 .. Len(Tail(ops)) : Tail(ops)[i].box = ops[1].box
    BY <1>1 DEF Plan
<1>3. \A i \in 1 .. Len(Tail(ops)) - 1 : <<Tail(ops)[i].op, Tail(ops)[i + 1].op>> \in Then(cmd)
  <2> SUFFICES ASSUME NEW i \in 1 .. Len(Tail(ops)) - 1
               PROVE  <<Tail(ops)[i].op, Tail(ops)[i + 1].op>> \in Then(cmd)
      OBVIOUS
  <2>1. i + 1 \in 1 .. Len(ops) - 1 /\ Tail(ops)[i] = ops[i + 1] /\ Tail(ops)[i + 1] = ops[(i + 1) + 1]
      BY <1>1
  <2> QED  BY <2>1 DEF Plan
<1>4. Tail(ops)[Len(Tail(ops))].op \in Last1(cmd)
    BY <1>1 DEF Plan
<1>5. 1 \in 1 .. Len(ops) - 1 /\ Tail(ops)[1] = ops[1 + 1]
    BY <1>1
<1>6. <<ops[1].op, Tail(ops)[1].op>> \in Then(cmd)
    BY <1>5 DEF Plan
<1>7. 1 \in 1 .. Len(Tail(ops))
    BY <1>1
<1> QED  BY <1>1, <1>2, <1>3, <1>4, <1>6, <1>7 DEF Plan

\* A plan with one more operation before or after it.
LEMMA PlanCons ==
    ASSUME NEW cmd, NEW s, Plan(cmd, s), NEW o \in Operation, o.box = s[1].box,
           <<o.op, s[1].op>> \in Then(cmd)
    PROVE  /\ Plan(cmd, <<o>> \o s) /\ (<<o>> \o s)[1] = o
           /\ (<<o>> \o s)[Len(<<o>> \o s)] = s[Len(s)]
<1> DEFINE t == <<o>> \o s
<1>1. /\ t \in Seq(Operation) /\ Len(t) = Len(s) + 1 /\ Len(s) \in Nat /\ Len(s) > 0
      /\ t[1] = o /\ \A i \in 1 .. Len(s) : t[i + 1] = s[i]
    BY DEF Plan
<1>2. \A i \in 1 .. Len(t) : i = 1 \/ (i - 1 \in 1 .. Len(s) /\ t[i] = s[i - 1])
  <2> SUFFICES ASSUME NEW i \in 1 .. Len(t), i # 1
               PROVE  i - 1 \in 1 .. Len(s) /\ t[i] = s[i - 1]
      OBVIOUS
  <2>1. i - 1 \in 1 .. Len(s) /\ (i - 1) + 1 = i
      BY <1>1
  <2>2. t[(i - 1) + 1] = s[i - 1]
      BY <1>1, <2>1
  <2> QED  BY <2>1, <2>2
<1> HIDE DEF t
<1>3. \A i \in 1 .. Len(t) : t[i].box = t[1].box
    BY <1>1, <1>2 DEF Plan
<1>4. ASSUME NEW i \in 1 .. Len(t) - 1
      PROVE  <<t[i].op, t[i + 1].op>> \in Then(cmd)
  <2>1. i \in 1 .. Len(s) /\ t[i + 1] = s[i]
      BY <1>1
  <2>2. CASE i = 1
      BY <1>1, <2>1, <2>2
  <2>3. CASE i # 1
    <3>1. i - 1 \in 1 .. Len(s) - 1 /\ t[i] = s[i - 1] /\ s[i] = s[(i - 1) + 1]
        BY <1>1, <1>2, <2>1, <2>3
    <3> QED  BY <2>1, <3>1 DEF Plan
  <2> QED  BY <2>2, <2>3
<1>5. t[Len(t)] = s[Len(s)]
    BY <1>1
<1>6. Plan(cmd, t)
    BY <1>1, <1>3, <1>4, <1>5 DEF Plan
<1> QED  BY <1>1, <1>5, <1>6 DEF t

\* A plan is prolonged by an operation that may follow its last one.
LEMMA PlanSnoc ==
    ASSUME NEW cmd, NEW s, Plan(cmd, s), NEW o \in Operation, o.box = s[1].box,
           <<s[Len(s)].op, o.op>> \in Then(cmd), o.op \in Last1(cmd)
    PROVE  Plan(cmd, s \o <<o>>) /\ (s \o <<o>>)[1] = s[1]
<1> DEFINE t == s \o <<o>>
<1>1. /\ t \in Seq(Operation) /\ Len(t) = Len(s) + 1 /\ Len(s) \in Nat /\ Len(s) > 0
      /\ t[Len(s) + 1] = o /\ \A i \in 1 .. Len(s) : t[i] = s[i]
    BY DEF Plan
<1> HIDE DEF t
<1>2. \A i \in 1 .. Len(t) : t[i].box = t[1].box
    BY <1>1 DEF Plan
<1>3. ASSUME NEW i \in 1 .. Len(t) - 1
      PROVE  <<t[i].op, t[i + 1].op>> \in Then(cmd)
  <2>1. CASE i = Len(s)
      BY <1>1, <2>1
  <2>2. CASE i # Len(s)
    <3>1. i \in 1 .. Len(s) - 1 /\ i + 1 \in 1 .. Len(s) /\ t[i] = s[i] /\ t[i + 1] = s[i + 1]
        BY <1>1, <2>2
    <3> QED  BY <3>1 DEF Plan
  <2> QED  BY <2>1, <2>2
<1>4. Plan(cmd, t)
    BY <1>1, <1>2, <1>3 DEF Plan
<1> QED  BY <1>1, <1>4 DEF t

\* The operations that the commands begin with are plans.
LEMMA CleanupPlan ==
    ASSUME NEW b \in All, NEW cmd
    PROVE  /\ Plan(cmd, Cleanup(b)) /\ Cleanup(b) # <<>>
           /\ Cleanup(b)[1] = Op("detach", b) /\ Cleanup(b)[Len(Cleanup(b))] = Op("disconnect", b)
<1>1. Op("detach", b) \in Operation /\ Op("disconnect", b) \in Operation
    BY DEF BoxOps, Operation, Op
<1>2. Cleanup(b) \in Seq(Operation) /\ Len(Cleanup(b)) = 2
      /\ Cleanup(b)[1] = Op("detach", b) /\ Cleanup(b)[2] = Op("disconnect", b)
    BY <1>1 DEF Cleanup
<1>3. <<"detach", "disconnect">> \in Then(cmd) /\ "disconnect" \in Last1(cmd)
    BY DEF Then, Last1
<1>4. Plan(cmd, Cleanup(b))
    BY <1>2, <1>3 DEF Plan, Op
<1> QED  BY <1>2, <1>4

\* rm, stop and compose down are plans.
LEMMA RmPlan ==
    ASSUME NEW b \in All, NEW cmd, cmd # "start"
    PROVE  /\ Plan(cmd, RmOps(b)) /\ RmOps(b)[1] = Op("kill", b)
           /\ Plan(cmd, StopOps(b)) /\ StopOps(b)[1] = Op("kill", b)
<1>1. \A o \in BoxOps : Op(o, b) \in Operation /\ Op(o, b).op = o /\ Op(o, b).box = b
    BY DEF Operation, Op
<1> DEFINE k == Op("kill", b)
           s == <<k>> \o Cleanup(b)
<1>2. k \in Operation /\ k.box = b /\ k.op = "kill"
    BY <1>1 DEF BoxOps
<1>3. /\ Plan(cmd, Cleanup(b)) /\ Cleanup(b)[1].box = b /\ Cleanup(b)[1].op = "detach"
      /\ Cleanup(b)[Len(Cleanup(b))].op = "disconnect" /\ Len(Cleanup(b)) = 2
    BY CleanupPlan DEF Op, Cleanup
<1>4. <<"kill", "detach">> \in Then(cmd)
    BY DEF Then
<1> HIDE DEF k
<1>5. Plan(cmd, s) /\ s[1] = k /\ s[Len(s)].op = "disconnect"
    BY <1>2, <1>3, <1>4, PlanCons
<1> HIDE DEF s
<1>6. ASSUME NEW end \in {"stopped", "forget"}
      PROVE  Plan(cmd, s \o <<Op(end, b)>>) /\ (s \o <<Op(end, b)>>)[1] = k
  <2>1. <<"disconnect", end>> \in Then(cmd) /\ end \in Last1(cmd) /\ end \in BoxOps
      BY DEF Then, Last1, BoxOps
  <2>2. Op(end, b) \in Operation /\ Op(end, b).op = end /\ Op(end, b).box = b
      BY <1>1, <2>1
  <2> QED  BY <1>2, <1>5, <2>1, <2>2, PlanSnoc
<1>7. RmOps(b) = s \o <<Op("forget", b)>> /\ StopOps(b) = s \o <<Op("stopped", b)>>
    BY DEF RmOps, StopOps, s, k
<1> QED  BY <1>6, <1>7 DEF k

\* run and a service of compose up are plans.
LEMMA RunPlan ==
    ASSUME NEW b \in All, NEW cmd, cmd # "start"
    PROVE  /\ Plan(cmd, RunOps(b)) /\ RunOps(b)[1] = Op("resolve", b)
           /\ Plan(cmd, SvcOps(b)) /\ SvcOps(b)[1].box = b
           /\ SvcOps(b)[1].op \in {"wait", "resolve"}
<1>1. \A o \in BoxOps : Op(o, b) \in Operation /\ Op(o, b).op = o /\ Op(o, b).box = b
    BY DEF Operation, Op
<1> DEFINE s == RunOps(b)
<1>2. /\ s \in Seq(Operation) /\ Len(s) = 5
      /\ s[1] = Op("resolve", b) /\ s[2] = Op("connect", b)
      /\ s[3] = Op("boot", b) /\ s[4] = Op("add", b) /\ s[5] = Op("attach", b)
    BY <1>1 DEF RunOps, BoxOps
<1> HIDE DEF s
<1>3. /\ <<"resolve", "connect">> \in Then(cmd) /\ <<"connect", "boot">> \in Then(cmd)
      /\ <<"boot", "add">> \in Then(cmd) /\ <<"add", "attach">> \in Then(cmd)
      /\ <<"wait", "resolve">> \in Then(cmd) /\ "attach" \in Last1(cmd)
    BY DEF Then, Last1
<1>4. \A i \in 1 .. 5 : i = 1 \/ i = 2 \/ i = 3 \/ i = 4 \/ i = 5
    OBVIOUS
<1>5. \A i \in 1 .. 5 : s[i].box = b
    BY <1>2, <1>4 DEF Op
<1>6. s[1].op = "resolve" /\ s[2].op = "connect" /\ s[3].op = "boot" /\ s[4].op = "add"
      /\ s[5].op = "attach"
    BY <1>2 DEF Op
<1>7. ASSUME NEW i \in 1 .. 4
      PROVE  <<s[i].op, s[i + 1].op>> \in Then(cmd)
  <2>1. i = 1 \/ i = 2 \/ i = 3 \/ i = 4
      OBVIOUS
  <2> QED  BY <1>3, <1>6, <2>1
<1>8. Plan(cmd, s)
    BY <1>2, <1>3, <1>5, <1>6, <1>7 DEF Plan
<1>9. CASE b \notin Waits
  <2>1. SvcOps(b) = s
    <3>1. SvcOps(b) = <<>> \o s
        BY <1>9 DEF SvcOps, s
    <3> QED  BY <1>2, <3>1
  <2> QED  BY <1>2, <1>5, <1>6, <1>8, <2>1 DEF s
<1>10. CASE b \in Waits
  <2>1. SvcOps(b) = <<Op("wait", b)>> \o s
      BY <1>10 DEF SvcOps, s
  <2>2. Op("wait", b) \in Operation /\ Op("wait", b).op = "wait" /\ Op("wait", b).box = b
      BY <1>1 DEF BoxOps
  <2>3. Plan(cmd, <<Op("wait", b)>> \o s) /\ (<<Op("wait", b)>> \o s)[1] = Op("wait", b)
      BY <1>3, <1>5, <1>6, <1>8, <2>2, PlanCons
  <2> QED  BY <1>2, <1>8, <2>1, <2>2, <2>3 DEF s
<1> QED  BY <1>9, <1>10

\* start is a plan.
LEMMA StartPlan ==
    ASSUME NEW b \in All
    PROVE  Plan("start", StartOps(b)) /\ StartOps(b)[1] = Op("ensure", b)
<1>1. \A o \in BoxOps : Op(o, b) \in Operation /\ Op(o, b).op = o /\ Op(o, b).box = b
    BY DEF Operation, Op
<1> DEFINE s == StartOps(b)
<1>2. /\ s \in Seq(Operation) /\ Len(s) = 4
      /\ s[1] = Op("ensure", b) /\ s[2] = Op("attach", b)
      /\ s[3] = Op("boot", b) /\ s[4] = Op("add", b)
    BY <1>1 DEF StartOps, BoxOps
<1> HIDE DEF s
<1>3. /\ <<"ensure", "attach">> \in Then("start") /\ <<"attach", "boot">> \in Then("start")
      /\ <<"boot", "add">> \in Then("start") /\ "add" \in Last1("start")
    BY DEF Then, Last1
<1>4. \A i \in 1 .. 4 : s[i].box = b
  <2>1. \A i \in 1 .. 4 : i = 1 \/ i = 2 \/ i = 3 \/ i = 4
      OBVIOUS
  <2> QED  BY <1>2, <2>1 DEF Op
<1>5. s[1].op = "ensure" /\ s[2].op = "attach" /\ s[3].op = "boot" /\ s[4].op = "add"
    BY <1>2 DEF Op
<1>6. ASSUME NEW i \in 1 .. 3
      PROVE  <<s[i].op, s[i + 1].op>> \in Then("start")
  <2>1. i = 1 \/ i = 2 \/ i = 3
      OBVIOUS
  <2> QED  BY <1>3, <1>5, <2>1
<1>7. Plan("start", s)
    BY <1>2, <1>3, <1>4, <1>5, <1>6 DEF Plan
<1> QED  BY <1>2, <1>7 DEF s

\* The commands on the stores alone are plans.
LEMMA OtherPlans ==
    /\ Plan("up", UpOps) /\ UpOps[1] = Op("ensurenet", NoBox)
    /\ \A cmd \in {"rollback", "down"} : Plan(cmd, NetworkOps) /\ NetworkOps[1] = Op("raze", NoBox)
    /\ Plan("net", <<Op("netcreate", NoBox)>>) /\ Plan("net", <<Op("netrm", NoBox)>>)
    /\ Plan("vol", <<Op("volrm", NoBox)>>) /\ Plan("vol", <<Op("volrmf", NoBox)>>)
<1>1. ASSUME NEW cmd \in {"up", "net", "vol"}, NEW o \in NoBoxOps \ {"raze"}, NEW s, s = <<Op(o, NoBox)>>
      PROVE  Plan(cmd, s) /\ s[1] = Op(o, NoBox)
  <2>1. s \in Seq(Operation) /\ Len(s) = 1 /\ s[1] = Op(o, NoBox)
      BY <1>1 DEF Operation, Op
  <2>2. o \in Last1(cmd)
      BY DEF Last1
  <2> QED  BY <2>1, <2>2 DEF Plan, Op
<1>2. ASSUME NEW cmd \in {"rollback", "down"}
      PROVE  Plan(cmd, NetworkOps) /\ NetworkOps[1] = Op("raze", NoBox)
  <2>1. /\ NetworkOps \in Seq(Operation) /\ Len(NetworkOps) = 2
        /\ NetworkOps[1] = Op("raze", NoBox) /\ NetworkOps[2] = Op("netrm", NoBox)
      BY DEF Operation, Op, NetworkOps, NoBoxOps
  <2>2. <<"raze", "netrm">> \in Then(cmd) /\ "netrm" \in Last1(cmd)
      BY DEF Last1, Then, NoBoxOps
  <2> QED  BY <2>1, <2>2 DEF Plan, Op
<1>3. UpOps = <<Op("ensurenet", NoBox)>>
    BY DEF UpOps
<1> QED  BY <1>1, <1>2, <1>3 DEF NoBoxOps


-----------------------------------------------------------------------------
(* How commands go on                                                      *)

\* The first and the last of some services are among them.
LEMMA Picked ==
    ASSUME NEW S \in SUBSET Svcs, S # {}
    PROVE  FirstOf(S) \in S /\ LastOf(S) \in S
<1> DEFINE P == Positions(S)
           N == Len(Services)
<1>1. N \in Nat /\ DOMAIN Services = 1 .. N
    BY ResourcesAssumption
<1>2. \A i \in P : i \in 1 .. N /\ Services[i] \in S
    BY <1>1 DEF Positions
<1>3. P # {}
    BY DEF Positions, Svcs, Range
<1> HIDE DEF P, N
<1>4. \E i \in P : \A j \in P : i <= j
  <2>1. P \in SUBSET Nat
      BY <1>1, <1>2
  <2> QED  BY <1>3, <2>1, Least
<1>5. \E i \in P : \A j \in P : j <= i
  <2> DEFINE T == {N - i : i \in P}
  <2>1. T \in SUBSET Nat /\ T # {}
      BY <1>1, <1>2, <1>3
  <2>2. PICK x \in T : \A y \in T : x <= y
    <3> HIDE DEF T
    <3> QED  BY <2>1, Least
  <2>3. PICK i \in P : x = N - i
      BY <2>2
  <2>4. \A j \in P : N - i <= N - j
      BY <2>2, <2>3
  <2> QED  BY <1>1, <1>2, <2>4
<1>6. (CHOOSE i \in P : \A j \in P : i <= j) \in P /\ (CHOOSE i \in P : \A j \in P : j <= i) \in P
    BY <1>4, <1>5
<1> QED  BY <1>2, <1>6 DEF FirstOf, LastOf, P

\* Going on with the next operation for the same box.
Along(q, r) ==
    /\ r.cmd = q.cmd /\ r.left = q.left /\ r.ops[1].box = q.ops[1].box
    /\ <<q.ops[1].op, r.ops[1].op>> \in Then(q.cmd)

\* compose up going on with the next service.
NextSvc(q, r) ==
    /\ q.cmd = "up" /\ r.cmd = "up"
    /\ r.ops[1].op \in {"wait", "resolve"} /\ r.ops[1].box \in q.left
    /\ r.left = q.left \ {r.ops[1].box}

\* compose going on with the removal of a service or of the network.
Removing(q, r) ==
    /\ q.cmd \in Compose /\ r.cmd \in {"rollback", "down"}
    /\ r.ops[1].op \in {"kill", "raze"}

\* Giving back what the box has, after an error.
Undo(q, r) ==
    /\ r.ops[1].box = q.ops[1].box
    /\ r.cmd = IF q.cmd = "up" THEN "rollback" ELSE q.cmd
    /\ r.ops[1].op = IF q.ops[1].op = "boot" \/ q.cmd = "start" THEN "detach" ELSE "kill"

\* After a success, and after an error.
Moved(q, r) ==
    \/ r # Idle /\ Along(q, r)
    \/ q.ops[1].op \in Last1(q.cmd) /\ (r = Idle \/ NextSvc(q, r) \/ Removing(q, r))

Failed(q, r) ==
    IF q.ops[1].op \in Lenient THEN Moved(q, r)
    ELSE IF q.ops[1].op \in {"boot", "attach"} THEN r # Idle /\ Undo(q, r)
    ELSE r = Idle \/ Removing(q, r)

\* A command that has gone on, at the beginning of an operation.
Ready(q, r) == r = Idle \/ (Working(r) /\ r.ph = "get" /\ Owns(r) = Owns(q))

\* What With makes of a command.
LEMMA WithFacts ==
    ASSUME NEW q, Working(q), NEW ops, NEW left \in SUBSET Svcs, Plan(q.cmd, ops),
           left # {} => q.cmd \in Compose, ops[1].box \notin left,
           q.cmd \in Compose => ops[1].box \in Svcs \cup {NoBox}
    PROVE  /\ Working(With(q, ops, left)) /\ With(q, ops, left).ph = "get"
           /\ With(q, ops, left).cmd = q.cmd /\ With(q, ops, left).ops = ops
           /\ With(q, ops, left).left = left /\ With(q, ops, left).made = q.made
<1> DEFINE r == With(q, ops, left)
<1>1. q \in CmdRec /\ q.cmd # "idle"
    BY DEF Working
<1>2. ops \in Seq(Operation) /\ <<>> \in Entry
    BY DEF Plan, Entry
<1>3. /\ r.ph = "get" /\ r.cmd = q.cmd /\ r.ops = ops /\ r.left = left /\ r.made = q.made
      /\ r \in CmdRec
    BY <1>1, <1>2 DEF With, CmdRec
<1> HIDE DEF r
<1>4. Working(r)
    BY <1>1, <1>3 DEF Working
<1> QED  BY <1>3, <1>4 DEF r

\* Where compose goes on when it is done with a service.
LEMMA AdvanceFacts ==
    ASSUME NEW q, Working(q)
    PROVE  /\ Advance(q) = Idle \/ NextSvc(q, Advance(q)) \/ Removing(q, Advance(q))
           /\ NextSvc(q, Advance(q)) => q.cmd = "up"
           /\ Ready(q, Advance(q))
<1> DEFINE r == Advance(q)
<1>0. q.left \in SUBSET Svcs /\ Svcs \subseteq All /\ q # Idle
    BY WorkingNotIdle DEF Working, CmdRec, All
<1>1. CASE q.cmd = "up" /\ q.left # {}
  <2>1. PICK b \in q.left : b = FirstOf(q.left)
      BY <1>0, <1>1, Picked
  <2>2. r = With(q, SvcOps(b), q.left \ {b})
      BY <1>1, <2>1 DEF Advance
  <2>3. b \in All /\ b \in Svcs /\ "up" # "start" /\ "up" \in Compose
      BY <1>0, <2>1 DEF Compose
  <2>4. /\ Plan("up", SvcOps(b)) /\ SvcOps(b)[1].box = b
        /\ SvcOps(b)[1].op \in {"wait", "resolve"}
      BY <2>3, RunPlan
  <2> HIDE DEF r
  <2>5. /\ Working(r) /\ r.ph = "get" /\ r.cmd = "up" /\ r.ops = SvcOps(b)
        /\ r.left = q.left \ {b}
      BY <1>0, <1>1, <2>2, <2>3, <2>4, WithFacts
  <2>6. r # Idle
      BY <2>5, WorkingNotIdle
  <2>7. NextSvc(q, r) /\ Ready(q, r)
      BY <1>0, <1>1, <2>1, <2>3, <2>4, <2>5, <2>6 DEF NextSvc, Ready, Owns
  <2> QED  BY <1>1, <2>7 DEF r
<1>2. CASE q.cmd \in {"rollback", "down"} /\ q.left # {}
  <2>1. PICK b \in q.left : b = LastOf(q.left)
      BY <1>0, <1>2, Picked
  <2>2. r = With(q, RmOps(b), q.left \ {b})
      BY <1>2, <2>1 DEF Advance, RollbackOps
  <2>3. b \in All /\ b \in Svcs /\ q.cmd # "start" /\ q.cmd \in Compose
      BY <1>0, <1>2, <2>1 DEF Compose
  <2>4. /\ Plan(q.cmd, RmOps(b)) /\ RmOps(b)[1].box = b /\ RmOps(b)[1].op = "kill"
    <3>1. Plan(q.cmd, RmOps(b)) /\ RmOps(b)[1] = Op("kill", b)
        BY <2>3, RmPlan
    <3> QED  BY <3>1 DEF Op
  <2> HIDE DEF r
  <2>5. /\ Working(r) /\ r.ph = "get" /\ r.cmd = q.cmd /\ r.ops = RmOps(b)
        /\ r.left = q.left \ {b}
      BY <1>0, <2>2, <2>3, <2>4, WithFacts
  <2>6. r # Idle
      BY <2>5, WorkingNotIdle
  <2>7. Removing(q, r) /\ Ready(q, r)
      BY <1>0, <1>2, <2>3, <2>4, <2>5, <2>6 DEF Removing, Ready, Owns
  <2> QED  BY <1>2, <2>7 DEF r, NextSvc
<1>3. CASE q.cmd \in {"rollback", "down"} /\ q.left = {} /\ q.made
  <2> DEFINE w == With(q, NetworkOps, {})
  <2>2. r = [w EXCEPT !.made = FALSE]
      BY <1>3 DEF Advance
  <2>4. /\ Plan(q.cmd, NetworkOps) /\ NetworkOps[1].box = NoBox /\ NetworkOps[1].op = "raze"
        /\ q.cmd \in Compose
      BY <1>3, OtherPlans DEF Op, Compose
  <2> HIDE DEF r, w
  <2>5. Working(w) /\ w.ph = "get" /\ w.cmd = q.cmd /\ w.ops = NetworkOps /\ w.left = {}
      BY <1>0, <2>4, WithFacts DEF w
  <2>6. /\ r \in CmdRec
        /\ r.ph = "get" /\ r.cmd = q.cmd /\ r.ops = NetworkOps /\ r.left = {}
      BY <2>2, <2>5 DEF Working, CmdRec
  <2>7. Working(r)
      BY <1>3, <2>4, <2>6 DEF Working
  <2>8. r # Idle
      BY <2>7, WorkingNotIdle
  <2>9. Removing(q, r) /\ Ready(q, r)
      BY <1>0, <1>3, <2>4, <2>6, <2>7, <2>8 DEF Removing, Ready, Owns
  <2> QED  BY <1>3, <2>9 DEF r, NextSvc
<1>4. CASE ~(q.cmd = "up" /\ q.left # {}) /\ ~(q.cmd \in {"rollback", "down"} /\ (q.left # {} \/ q.made))
  <2>1. r = Idle
      BY <1>4 DEF Advance
  <2>2. ~NextSvc(q, Idle) 
      BY DEF NextSvc, Idle
  <2> QED  BY <2>1, <2>2 DEF Ready
<1> QED  BY <1>1, <1>2, <1>3, <1>4


\* Done: the next operation, the next service, or the end.
LEMMA NextFacts ==
    ASSUME NEW q, Working(q)
    PROVE  Moved(q, Next1(q)) /\ Ready(q, Next1(q))
<1>0. /\ Plan(q.cmd, q.ops) /\ q.left \in SUBSET Svcs /\ q # Idle
      /\ Len(q.ops) \in Nat /\ Len(q.ops) > 0 /\ (Len(q.ops) = 1 => q.ops[1].op \in Last1(q.cmd))
  <2>1. Plan(q.cmd, q.ops) /\ q.left \in SUBSET Svcs /\ q # Idle
      BY WorkingNotIdle DEF Working, CmdRec
  <2>2. Len(q.ops) > 0
      BY <2>1 DEF Plan
  <2> QED  BY <2>1, <2>2, PlanHead
<1>1. CASE Len(q.ops) > 1
  <2> DEFINE r == With(q, Tail(q.ops), q.left)
  <2>1. /\ Plan(q.cmd, Tail(q.ops)) /\ Tail(q.ops)[1].box = q.ops[1].box
        /\ <<q.ops[1].op, Tail(q.ops)[1].op>> \in Then(q.cmd)
      BY <1>0, <1>1, PlanTail
  <2>2. /\ Working(r) /\ r.ph = "get" /\ r.cmd = q.cmd /\ r.ops = Tail(q.ops) /\ r.left = q.left
    <3>1. /\ q.left # {} => q.cmd \in Compose
          /\ q.ops[1].box \notin q.left
          /\ q.cmd \in Compose => q.ops[1].box \in Svcs \cup {NoBox}
        BY DEF Working
    <3>2. PICK t : t = Tail(q.ops)
        OBVIOUS
    <3>3. /\ Plan(q.cmd, t) /\ t[1].box \notin q.left
          /\ q.cmd \in Compose => t[1].box \in Svcs \cup {NoBox}
        BY <2>1, <3>1, <3>2
    <3>4. /\ Working(With(q, t, q.left)) /\ With(q, t, q.left).ph = "get"
          /\ With(q, t, q.left).cmd = q.cmd /\ With(q, t, q.left).ops = t
          /\ With(q, t, q.left).left = q.left
        BY <1>0, <3>1, <3>3, WithFacts
    <3> QED  BY <3>2, <3>4
  <2>3. Next1(q) = r
      BY <1>1 DEF Next1
  <2> HIDE DEF r
  <2>4. r # Idle
      BY <2>2, WorkingNotIdle
  <2>5. Along(q, r)
      BY <2>1, <2>2 DEF Along
  <2>6. Owns(r) = Owns(q)
      BY <1>0, <2>1, <2>2, <2>4 DEF Owns
  <2> QED  BY <2>2, <2>3, <2>4, <2>5, <2>6 DEF Moved, Ready
<1>2. CASE Len(q.ops) = 1
  <2>1. Next1(q) = Advance(q)
      BY <1>2 DEF Next1
  <2>2. PICK r : r = Advance(q)
      OBVIOUS
  <2>3. (r = Idle \/ NextSvc(q, r) \/ Removing(q, r)) /\ Ready(q, r)
      BY <2>2, AdvanceFacts
  <2>4. Moved(q, r)
      BY <1>0, <1>2, <2>3 DEF Moved
  <2> QED  BY <2>1, <2>2, <2>3, <2>4
<1>3. Len(q.ops) > 1 \/ Len(q.ops) = 1
  <2>1. PICK n \in Nat : n = Len(q.ops)
      BY <1>0
  <2>2. n > 0 => n > 1 \/ n = 1
      OBVIOUS
  <2> QED  BY <1>0, <2>1, <2>2
<1> QED  BY <1>1, <1>2, <1>3

\* rollback_compose_up is still a command in progress.
LEMMA RollbackFacts ==
    ASSUME NEW q, Working(q)
    PROVE  LET r == Rollback(q) IN
           /\ Working(r) /\ r.ops = q.ops /\ r.ph = q.ph /\ r.cmd # "up"
           /\ r.cmd = q.cmd \/ (q.cmd = "up" /\ r.cmd = "rollback")
           /\ Owns(r) = Owns(q)
<1> DEFINE r == Rollback(q)
<1>0. /\ q \in CmdRec
      /\ Plan(q.cmd, q.ops) /\ q # Idle /\ Head(q.ops) = q.ops[1]
    BY WorkingNotIdle, PlanHead DEF Working
<1>1. CASE q.cmd # "up"
    BY <1>1 DEF Rollback
<1>2. CASE q.cmd = "up"
  <2>1. r = [q EXCEPT !.cmd = "rollback", !.left = Svcs \ (q.left \cup {q.ops[1].box})]
      BY <1>0, <1>2 DEF Rollback
  <2>2. /\ r \in CmdRec
        /\ r.ops = q.ops /\ r.ph = q.ph /\ r.cmd = "rollback" /\ q.ops[1].box \notin r.left
    <3>1. "rollback" \in Commands \ {"idle"}
        BY DEF Commands, Compose
    <3> QED  BY <1>0, <2>1, <3>1 DEF CmdRec
  <2> HIDE DEF r
  <2>3. Plan("rollback", q.ops)
      BY <1>0, <1>2 DEF Plan, Then, Last1
  <2>4. Working(r)
      BY <1>2, <2>2, <2>3 DEF Working, Compose
  <2>5. Owns(r) = Owns(q)
      BY <1>0, <1>2, <2>2, <2>4, WorkingNotIdle DEF Owns, Compose
  <2> QED  BY <1>2, <2>2, <2>4, <2>5 DEF r
<1> QED  BY <1>1, <1>2

\* Fail: the operations that undo, the rollback, or the end.
LEMMA FailFacts ==
    ASSUME NEW q, Working(q)
    PROVE  Failed(q, Err1(q)) /\ Ready(q, Err1(q))
<1> DEFINE o == q.ops[1]
           w == Rollback(q)
           r == Err1(q)
<1>0. Head(q.ops) = o /\ o \in Operation /\ q # Idle /\ Plan(q.cmd, q.ops)
    BY PlanHead, WorkingNotIdle DEF Working
<1>1. CASE o.op \in Lenient
  <2>1. r = Next1(q)
      BY <1>0, <1>1 DEF Err1
  <2>2. Moved(q, r) /\ Ready(q, r)
      BY <2>1, NextFacts
  <2> HIDE DEF r
  <2>3. Failed(q, r)
      BY <1>1, <2>2 DEF Failed
  <2> QED  BY <2>2, <2>3 DEF r
<1>2. CASE o.op \in {"boot", "attach"}
  <2> DEFINE b == o.box
  <2>1. b \in All /\ o.op \notin Lenient
      BY <1>0, <1>2 DEF Operation, NoBoxOps, Lenient
  <2>2. PICK undo : undo = OnError(q, o)
      OBVIOUS
  <2>3. /\ Working(w) /\ w.ops = q.ops /\ w.cmd # "up" /\ Owns(w) = Owns(q)
        /\ w.cmd = q.cmd \/ (q.cmd = "up" /\ w.cmd = "rollback")
      BY RollbackFacts
  <2>4. /\ Plan(w.cmd, undo) /\ undo # <<>> /\ undo[1].box = b
        /\ undo[1].op = IF o.op = "boot" \/ q.cmd = "start" THEN "detach" ELSE "kill"
    <3>1. CASE o.op = "boot" \/ q.cmd = "start"
      <4>1. undo = Cleanup(b)
          BY <1>2, <2>2, <3>1 DEF OnError
      <4>2. Plan(w.cmd, Cleanup(b)) /\ Cleanup(b) # <<>> /\ Cleanup(b)[1] = Op("detach", b)
          BY <2>1, CleanupPlan
      <4> QED  BY <3>1, <4>1, <4>2 DEF Op
    <3>2. CASE ~(o.op = "boot" \/ q.cmd = "start")
      <4>1. undo = RmOps(b)
          BY <1>2, <2>2, <3>2 DEF OnError
      <4>2. w.cmd # "start"
          BY <2>3, <3>2
      <4>3. Plan(w.cmd, RmOps(b)) /\ RmOps(b)[1] = Op("kill", b)
          BY <2>1, <4>2, RmPlan
      <4>4. RmOps(b) # <<>>
        <5>1. Len(RmOps(b)) > 0
            BY <4>3 DEF Plan
        <5> QED  BY <5>1
      <4> QED  BY <3>2, <4>1, <4>3, <4>4 DEF Op
    <3> QED  BY <3>1, <3>2
  <2>5. r = With(w, undo, w.left)
      BY <1>0, <2>1, <2>2, <2>4 DEF Err1
  <2> HIDE DEF r, w
  <2>6. /\ w.left \in SUBSET Svcs /\ (w.left # {} => w.cmd \in Compose) /\ b \notin w.left
        /\ w.cmd \in Compose => b \in Svcs \cup {NoBox}
      BY <2>3 DEF Working, CmdRec
  <2>7. Working(r) /\ r.ph = "get" /\ r.cmd = w.cmd /\ r.ops = undo
      BY <2>3, <2>4, <2>5, <2>6, WithFacts
  <2>8. r # Idle /\ w # Idle
      BY <2>3, <2>7, WorkingNotIdle
  <2>9. Owns(r) = Owns(q)
      BY <2>3, <2>4, <2>7, <2>8 DEF Owns
  <2>10. Undo(q, r)
      BY <2>3, <2>4, <2>7 DEF Undo
  <2> QED  BY <1>2, <2>1, <2>7, <2>8, <2>9, <2>10 DEF Failed, Ready, r
<1>3. CASE o.op \notin Lenient \cup {"boot", "attach"}
  <2>1. OnError(q, o) = <<>>
      BY <1>3 DEF OnError
  <2>2. r = Advance(w)
      BY <1>0, <1>3, <2>1 DEF Err1
  <2>3. /\ Working(w) /\ w.ops = q.ops /\ w.cmd # "up" /\ Owns(w) = Owns(q)
        /\ w.cmd = q.cmd \/ (q.cmd = "up" /\ w.cmd = "rollback")
      BY RollbackFacts
  <2> HIDE DEF r, w
  <2>4. (r = Idle \/ Removing(w, r)) /\ Ready(w, r)
      BY <2>2, <2>3, AdvanceFacts DEF NextSvc
  <2>5. Removing(w, r) => Removing(q, r)
      BY <2>3 DEF Removing, Compose
  <2>6. Ready(q, r)
      BY <2>3, <2>4 DEF Ready
  <2> QED  BY <1>3, <2>4, <2>5, <2>6 DEF Failed, r
<1> QED  BY <1>1, <1>2, <1>3


-----------------------------------------------------------------------------
(* Record and VM of the boxes that commands work on                        *)

\* The box of an operation belongs to the command.
LEMMA OwnBox ==
    ASSUME NEW q, Working(q)
    PROVE  /\ q.ops[1] \in Operation /\ q # Idle
           /\ q.ops[1].box \in All => q.ops[1].op \in BoxOps /\ q.ops[1].box \in Owns(q)
           /\ q.ops[1].op \in BoxOps => q.ops[1].box \in All
           /\ q.ops[1].box \notin All => q.ops[1].box = NoBox /\ q.ops[1].op \in NoBoxOps
           /\ q.cmd = "up" => q.left \subseteq Owns(q) /\ q.left \subseteq All
<1>1. q.ops[1] \in Operation /\ q # Idle
    BY PlanHead, WorkingNotIdle DEF Working
<1>2. BoxOps \cap NoBoxOps = {}
    BY DEF BoxOps, NoBoxOps
<1>3. /\ q.ops[1].box \in All => q.ops[1].op \in BoxOps
      /\ q.ops[1].op \in BoxOps => q.ops[1].box \in All
      /\ q.ops[1].box \notin All => q.ops[1].box = NoBox /\ q.ops[1].op \in NoBoxOps
    BY <1>1, <1>2, NoBoxAssumption DEF Operation
<1>4. q.ops[1].box \in All => q.ops[1].box \in Owns(q)
    BY <1>1, NoBoxAssumption DEF Working, Owns
<1>5. q.cmd = "up" => q.left \subseteq Owns(q) /\ q.left \subseteq All
    BY <1>1 DEF Working, CmdRec, Owns, Compose, All
<1> QED  BY <1>1, <1>3, <1>4, <1>5

\* A command whose boxes are left alone.
LEMMA StageKept ==
    ASSUME NEW q, Working(q), Stage(q), hist \subseteq hist',
           \A x \in Owns(q) : rec'[x] = rec[x] /\ vm'[x] = vm[x]
    PROVE  Stage(q)'
<1>1. q.ops[1].op \in BoxOps => /\ rec'[q.ops[1].box] = rec[q.ops[1].box]
                                /\ vm'[q.ops[1].box] = vm[q.ops[1].box]
    BY OwnBox
<1>2. q.ops[1].op \notin BoxOps =>
        q.ops[1].op \notin DownFor(q) \cup {"wait", "resolve", "connect", "boot", "add", "attach"}
    BY DEF BoxOps, DownFor
<1>3. q.cmd = "up" => \A x \in q.left : rec'[x] = rec[x] /\ vm'[x] = vm[x]
    BY OwnBox
<1>4. q.ops[1].op \in DownFor(q) /\ "orphaned" \notin hist' => vm'[q.ops[1].box] = NoAddr
    BY <1>1, <1>2 DEF Stage
<1>5. q.cmd = "up" => \A x \in q.left : rec'[x] = "none" /\ vm'[x] = NoAddr
    BY <1>3 DEF Stage
<1>6. /\ \/ q.ops[1].op \in {"wait", "resolve", "connect"}
         \/ q.ops[1].op \in {"boot", "add"} /\ q.cmd # "start"
         => rec'[q.ops[1].box] = "none"
      /\ q.ops[1].op = "attach" /\ q.cmd # "start" => rec'[q.ops[1].box] = "running"
    BY <1>1, <1>2 DEF Stage
<1> QED  BY <1>4, <1>5, <1>6 DEF Stage, DownFor


\* A step of command p that goes on as r, as the other boxes see it.
StepOf(p, r) ==
    LET b == proc[p].ops[1].box IN
    /\ proc[p] # Idle /\ proc' = [proc EXCEPT ![p] = r]
    /\ used' = used /\ hist \subseteq hist'
    /\ \A x \in All \ {b} : rec'[x] = rec[x] /\ vm'[x] = vm[x]
    /\ Quiet' => \A x \in All \ {b} :
         /\ file.net.eps[x] = NoAddr => file'.net.eps[x] = NoAddr
         /\ x \notin file.vol.users => x \notin file'.vol.users

\* The control part of the invariant, after a step of one command.
LEMMA StepShape ==
    ASSUME Shape, Apart, Stages, TypeOK', NEW p \in Procs, NEW r, StepOf(p, r),
           r = Idle \/ (Working(r) /\ Copied(r) /\ Owns(r) = Owns(proc[p])),
           r # Idle => Stage(r)'
    PROVE  Shape' /\ Apart' /\ Stages'
<1>1. PICK q : q = proc[p]
    OBVIOUS
<1>2. /\ q # Idle /\ proc' = [proc EXCEPT ![p] = r] /\ used' = used /\ hist \subseteq hist'
      /\ \A x \in All : x # q.ops[1].box => rec'[x] = rec[x] /\ vm'[x] = vm[x]
    BY <1>1 DEF StepOf
<1>3. Working(q)
    BY <1>1, <1>2 DEF Shape
<1>4. proc \in [Procs -> CmdRec] /\ r \in CmdRec
  <2>1. Idle \in CmdRec
      BY DEF Idle, CmdRec, Commands, Entry
  <2> QED  BY <2>1 DEF Shape, Working
<1>5. proc'[p] = r /\ \A s \in Procs : s # p => proc'[s] = proc[s]
    BY <1>2, <1>4
<1>6. Shape'
  <2>1. proc' \in [Procs -> CmdRec]
      BY <1>2, <1>4
  <2>2. ASSUME NEW s \in Procs
        PROVE  proc'[s] = Idle \/ (Working(proc'[s]) /\ Copied(proc'[s]))
      BY <1>5 DEF Shape
  <2> QED  BY <2>1, <2>2 DEF Shape, Working, Copied, Plan
<1>7. Owns(r) \subseteq Owns(q)
    BY <1>1 DEF Owns
<1>8. Apart'
  <2>1. ASSUME NEW s \in Procs, NEW t \in Procs, s # t
        PROVE  Owns(proc'[s]) \cap Owns(proc'[t]) = {}
    <3>1. Owns(proc'[s]) \subseteq Owns(proc[s]) /\ Owns(proc'[t]) \subseteq Owns(proc[t])
        BY <1>1, <1>5, <1>7
    <3> QED  BY <2>1, <3>1 DEF Apart
  <2>2. ASSUME NEW s \in Procs
        PROVE  Owns(proc'[s]) \subseteq used'
    <3>1. Owns(proc'[s]) \subseteq Owns(proc[s])
        BY <1>1, <1>5, <1>7
    <3> QED  BY <1>2, <3>1 DEF Apart
  <2>3. \A x \in All \ used' : rec'[x] = "none" /\ vm'[x] = NoAddr
    <3>1. q.ops[1].box \in All => q.ops[1].box \in used
        BY <1>1, <1>3, OwnBox DEF Apart
    <3> QED  BY <1>2, <3>1 DEF Apart
  <2>4. used' \subseteq Boxes \cup Svcs /\ (Svcs \subseteq used' \/ Svcs \cap used' = {})
      BY <1>2 DEF Apart
  <2> QED  BY <2>1, <2>2, <2>3, <2>4 DEF Apart, Owns
<1>9. Stages'
  <2> SUFFICES ASSUME NEW s \in Procs, proc'[s] # Idle
               PROVE  Stage(proc[s])'
      BY DEF Stages
  <2>1. PICK u : u = proc'[s]
      OBVIOUS
  <2>2. CASE s = p
      BY <1>5, <2>2 DEF Stage, DownFor
  <2>3. CASE s # p
    <3>1. u = proc[s] /\ Working(u) /\ Stage(u)
        BY <1>5, <2>1, <2>3 DEF Shape, Stages
    <3>2. \A x \in Owns(u) : x \in All
        BY <3>1, ResourcesAssumption DEF Apart, All
    <3>3. ASSUME NEW x \in Owns(u)
          PROVE  x # q.ops[1].box
      <4>1. Owns(u) \cap Owns(q) = {}
          BY <1>1, <2>3, <3>1 DEF Apart
      <4> QED  BY <1>3, <3>2, <4>1, OwnBox
    <3>4. Stage(u)'
        BY <1>2, <3>1, <3>2, <3>3, StageKept
    <3> QED  BY <2>1, <3>4 DEF Stage, DownFor
  <2> QED  BY <2>2, <2>3
<1> QED  BY <1>6, <1>8, <1>9


\* What a finished operation leaves of record and VM of its box.
Finished(o) ==
    LET b == o.box IN
    b \in All =>
      /\ o.op \notin {"add", "stopped", "forget"} => rec'[b] = rec[b]
      /\ o.op = "add" => rec'[b] = "running"
      /\ o.op = "kill" => vm'[b] = NoAddr
      /\ o.op \notin {"kill", "boot"} => vm'[b] = vm[b]

\* The next operation finds record and VM as it expects them.
LEMMA MovedStage ==
    ASSUME NEW q, Working(q), Stage(q), NEW r, Working(r), Moved(q, r), Finished(q.ops[1]),
           hist \subseteq hist',
           \A x \in All \ {q.ops[1].box} : rec'[x] = rec[x] /\ vm'[x] = vm[x]
    PROVE  Stage(r)'
<1> DEFINE o == q.ops[1].op  b == q.ops[1].box  o1 == r.ops[1].op  b1 == r.ops[1].box
<1>0. r # Idle /\ q.left \subseteq Svcs /\ Svcs \subseteq All /\ b \notin q.left
    BY OwnBox DEF Working, CmdRec, All
<1>1. CASE Along(q, r)
  <2>1. r.cmd = q.cmd /\ r.left = q.left /\ b1 = b /\ <<o, o1>> \in Then(q.cmd)
      BY <1>1 DEF Along
  <2>2. r.cmd = "up" => \A x \in r.left : rec'[x] = "none" /\ vm'[x] = NoAddr
      BY <1>0, <2>1 DEF Stage
  <2>3. CASE q.cmd = "start"
    <3>1. <<o, o1>> \in {<<"ensure", "attach">>, <<"attach", "boot">>, <<"boot", "add">>,
                         <<"detach", "disconnect">>}
        BY <2>1, <2>3 DEF Then
    <3>2. b \in All
        BY <3>1, OwnBox DEF BoxOps
    <3>3. o1 \in DownFor(r) /\ "orphaned" \notin hist' => vm'[b1] = NoAddr
        BY <2>1, <2>3, <3>1, <3>2 DEF Stage, DownFor, Finished
    <3>4. o1 \notin {"wait", "resolve", "connect"} /\ r.cmd = "start"
        BY <2>1, <2>3, <3>1
    <3> QED  BY <2>2, <3>3, <3>4 DEF Stage, DownFor
  <2>4. CASE q.cmd # "start"
    <3>1. <<o, o1>> \in
            {<<"wait", "resolve">>, <<"resolve", "connect">>, <<"connect", "boot">>,
             <<"boot", "add">>, <<"add", "attach">>, <<"kill", "detach">>,
             <<"detach", "disconnect">>, <<"disconnect", "stopped">>,
             <<"disconnect", "forget">>, <<"raze", "netrm">>}
        BY <2>1, <2>4 DEF Then
    <3>2. o # "raze" => b \in All
        BY <3>1, OwnBox DEF BoxOps
    <3>3. o1 \in DownFor(r) /\ "orphaned" \notin hist' => vm'[b1] = NoAddr
        BY <2>1, <2>4, <3>1, <3>2 DEF Stage, DownFor, Finished
    <3>4. \/ o1 \in {"wait", "resolve", "connect"}
          \/ o1 \in {"boot", "add"} /\ r.cmd # "start"
          => rec'[b1] = "none"
        BY <2>1, <2>4, <3>1, <3>2 DEF Stage, Finished
    <3>5. o1 = "attach" => rec'[b1] = "running"
        BY <2>1, <2>4, <3>1, <3>2 DEF Finished
    <3> QED  BY <2>2, <3>3, <3>4, <3>5 DEF Stage, DownFor
  <2> QED  BY <2>3, <2>4
<1>2. CASE NextSvc(q, r)
  <2>1. /\ q.cmd = "up" /\ r.cmd = "up" /\ o1 \in {"wait", "resolve"} /\ b1 \in q.left
        /\ r.left \subseteq q.left
      BY <1>2 DEF NextSvc
  <2>2. \A x \in q.left : rec'[x] = "none" /\ vm'[x] = NoAddr
      BY <1>0, <2>1 DEF Stage
  <2> QED  BY <2>1, <2>2 DEF Stage
<1>3. CASE Removing(q, r)
    BY <1>3 DEF Stage, Removing, DownFor
<1> QED  BY <1>0, <1>1, <1>2, <1>3 DEF Moved

\* The same after an error that changed neither record nor VM.
LEMMA FailedStage ==
    ASSUME NEW q, Working(q), Stage(q), NEW r, Working(r), Failed(q, r), hist \subseteq hist',
           rec' = rec, vm' = vm, q.ops[1].op \notin {"add", "stopped", "forget", "kill"}
    PROVE  Stage(r)'
<1>0. r # Idle
    BY OwnBox
<1>1. CASE q.ops[1].op \in Lenient
  <2>1. Finished(q.ops[1])
      BY <1>1 DEF Finished, Lenient
  <2>2. Moved(q, r)
      BY <1>1 DEF Failed
  <2> QED  BY <2>1, <2>2, MovedStage
<1>2. CASE q.ops[1].op \notin Lenient /\ q.ops[1].op \in {"boot", "attach"}
  <2>1. Undo(q, r)
      BY <1>2 DEF Failed
  <2>2. r.cmd # "up"
      BY <2>1 DEF Undo
  <2>3. CASE q.ops[1].op = "boot" \/ q.cmd = "start"
    <3>1. r.ops[1].op = "detach" /\ r.ops[1].box = q.ops[1].box
        BY <2>1, <2>3 DEF Undo
    <3>2. "orphaned" \notin hist' => vm'[q.ops[1].box] = NoAddr
        BY <1>2, <2>3 DEF Stage, DownFor
    <3> QED  BY <2>2, <3>1, <3>2 DEF Stage
  <2>4. CASE ~(q.ops[1].op = "boot" \/ q.cmd = "start")
    <3>1. r.ops[1].op = "kill"
        BY <2>1, <2>4 DEF Undo
    <3> QED  BY <2>2, <3>1 DEF Stage, DownFor
  <2> QED  BY <2>3, <2>4
<1>3. CASE q.ops[1].op \notin Lenient /\ q.ops[1].op \notin {"boot", "attach"}
    BY <1>0, <1>3 DEF Failed, Removing, Stage, DownFor
<1> QED  BY <1>1, <1>2, <1>3


\* A stopped box that has a VM after a step had it before, or it is the box of the step.
LEMMA StepParked ==
    ASSUME Shape, Parked, NEW p \in Procs, NEW r, StepOf(p, r),
           LET b == proc[p].ops[1].box IN
             b \in All /\ "orphaned" \notin hist' /\ rec'[b] \in {"stopped", "dead"} /\ vm'[b] # NoAddr
               => r.cmd = "start" /\ r.ops[1] = Op("add", b)
    PROVE  Parked'
<1>1. /\ proc[p] # Idle /\ proc' = [proc EXCEPT ![p] = r] /\ hist \subseteq hist'
      /\ \A x \in All : x # proc[p].ops[1].box => rec'[x] = rec[x] /\ vm'[x] = vm[x]
    BY DEF StepOf
<1>2. proc'[p] = r /\ \A s \in Procs : s # p => proc'[s] = proc[s]
    BY <1>1 DEF Shape
<1> SUFFICES ASSUME "orphaned" \notin hist', NEW b \in All,
                    rec'[b] \in {"stopped", "dead"}, vm'[b] # NoAddr
             PROVE  \E s \in Procs : proc'[s].cmd = "start" /\ proc'[s].ops[1] = Op("add", b)
    BY DEF Parked, Op
<1>3. CASE b = proc[p].ops[1].box
    BY <1>2, <1>3
<1>4. CASE b # proc[p].ops[1].box
  <2>1. "orphaned" \notin hist /\ rec[b] \in {"stopped", "dead"} /\ vm[b] # NoAddr
      BY <1>1, <1>4
  <2>2. PICK s \in Procs : proc[s].cmd = "start" /\ proc[s].ops[1] = Op("add", b)
      BY <2>1 DEF Parked
  <2>3. s # p
      BY <1>4, <2>2 DEF Op
  <2> QED  BY <1>2, <2>2, <2>3
<1> QED  BY <1>3, <1>4

\* What the boxes hold after a step.
LEMMA StepBalanced ==
    ASSUME Shape, Apart, Balanced, NEW p \in Procs, NEW r, StepOf(p, r),
           Quiet' => (r # Idle => Held(r)'),
           NEW a, a = proc[p].ops[1].box,
           Quiet' /\ a \in All /\ (r = Idle \/ r.ops[1].box # a) => Resting(a)'
    PROVE  Balanced'
<1>1. PICK q : q = proc[p]
    OBVIOUS
<1>2. /\ q # Idle /\ proc' = [proc EXCEPT ![p] = r] /\ hist \subseteq hist'
      /\ \A x \in All : x # q.ops[1].box => rec'[x] = rec[x] /\ vm'[x] = vm[x]
      /\ Quiet' => \A x \in All : x # q.ops[1].box =>
           /\ file.net.eps[x] = NoAddr => file'.net.eps[x] = NoAddr
           /\ x \notin file.vol.users => x \notin file'.vol.users
    BY <1>1 DEF StepOf
<1>3. proc'[p] = r /\ \A s \in Procs : s # p => proc'[s] = proc[s]
    BY <1>2 DEF Shape
<1>4. Working(q)
    BY <1>1, <1>2 DEF Shape
<1> SUFFICES ASSUME Quiet'
             PROVE  /\ \A s \in Procs : proc'[s] # Idle => Held(proc[s])'
                    /\ \A b \in All \ Stale : ~Worked(b)' => Resting(b)'
    BY DEF Balanced
<1>5. Quiet
    BY <1>2 DEF Quiet
<1>6. \A x \in All : x # q.ops[1].box => (Clean(x) => Clean(x)')
    BY <1>2 DEF Clean
<1>7. ASSUME NEW s \in Procs, proc'[s] # Idle
      PROVE  Held(proc[s])'
  <2>1. CASE s = p
      BY <1>3, <1>7, <2>1 DEF Held, Clean
  <2>2. CASE s # p
    <3>1. PICK u : u = proc[s]
        OBVIOUS
    <3>2. u = proc'[s] /\ Working(u) /\ Held(u) /\ Owns(u) \cap Owns(q) = {}
        BY <1>1, <1>3, <1>5, <1>7, <2>2, <3>1 DEF Shape, Balanced, Apart
    <3>3. u.ops[1].op \in BoxOps => u.ops[1].box \in All /\ u.ops[1].box # q.ops[1].box
        BY <1>4, <3>2, OwnBox
    <3>4. u.ops[1].op \notin BoxOps =>
            u.ops[1].op \notin {"wait", "resolve", "connect", "stopped", "forget", "ensure", "disconnect"}
        BY DEF BoxOps
    <3>5. Held(u)'
        BY <1>2, <1>6, <3>2, <3>3, <3>4 DEF Held
    <3>6. u = proc'[s]
        BY <3>2
    <3> QED  BY <3>5, <3>6 DEF Held, Clean
  <2> QED  BY <2>1, <2>2
<1>8. ASSUME NEW b \in All \ Stale, ~Worked(b)'
      PROVE  Resting(b)'
  <2>1. CASE b = q.ops[1].box
    <3>1. r = Idle \/ r.ops[1].box # b
        BY <1>3, <1>8 DEF Worked
    <3>2. Resting(a)' /\ a = b
        BY <1>1, <2>1, <3>1
    <3> QED  BY <3>2 DEF Resting, Clean
  <2>2. CASE b # q.ops[1].box
    <3>1. ~Worked(b)
        BY <1>1, <1>3, <1>8, <2>2 DEF Worked
    <3>2. Resting(b)
        BY <1>5, <3>1 DEF Balanced
    <3> QED  BY <1>2, <1>6, <2>2, <3>2 DEF Resting
  <2> QED  BY <2>1, <2>2
<1> QED  BY <1>7, <1>8


\* What a finished operation leaves of what its box holds.
Returned(o) ==
    LET b == o.box IN
    b \in All =>
      /\ o.op \notin {"connect", "ensure"} /\ file.net.eps[b] = NoAddr => file'.net.eps[b] = NoAddr
      /\ o.op # "attach" /\ b \notin file.vol.users => b \notin file'.vol.users
      /\ o.op = "detach" => b \notin file'.vol.users
      /\ o.op = "disconnect" => file'.net.eps[b] = NoAddr

\* An operation of a command succeeds.
LEMMA DoneInv ==
    ASSUME Inv, TypeOK', NEW p \in Procs, NEW r, StepOf(p, r), Moved(proc[p], r), Ready(proc[p], r),
           Finished(proc[p].ops[1]), Quiet' => Returned(proc[p].ops[1])
    PROVE  Shape' /\ Apart' /\ Stages' /\ Parked' /\ Balanced'
<1>1. PICK q : q = proc[p]
    OBVIOUS
<1> DEFINE o == q.ops[1].op  b == q.ops[1].box
<1>2. /\ q # Idle /\ proc' = [proc EXCEPT ![p] = r] /\ hist \subseteq hist' /\ Moved(q, r)
      /\ Finished(q.ops[1]) /\ (Quiet' => Returned(q.ops[1])) /\ Ready(q, r)
      /\ \A x \in All : x # b => rec'[x] = rec[x] /\ vm'[x] = vm[x]
      /\ Quiet' => \A x \in All : x # b =>
           /\ file.net.eps[x] = NoAddr => file'.net.eps[x] = NoAddr
           /\ x \notin file.vol.users => x \notin file'.vol.users
    BY <1>1 DEF StepOf
<1>3. Working(q) /\ Stage(q) /\ Shape /\ Apart /\ Stages /\ Parked /\ Balanced
    BY <1>1, <1>2 DEF Inv, Shape, Stages
<1>4. b \in All => o \in BoxOps
    BY <1>3, OwnBox
<1>5. r # Idle => Working(r) /\ Copied(r) /\ Owns(r) = Owns(q)
    BY <1>2 DEF Ready, Copied
<1>6. Shape' /\ Apart' /\ Stages'
  <2>1. r # Idle => Stage(r)'
      BY <1>2, <1>3, <1>5, MovedStage
  <2> QED  BY <1>1, <1>3, <1>5, <2>1, StepShape
<1>7. Parked'
  <2>1. ASSUME b \in All, "orphaned" \notin hist', rec'[b] \in {"stopped", "dead"}, vm'[b] # NoAddr
        PROVE  r.cmd = "start" /\ r.ops[1] = Op("add", b)
    <3>1. "orphaned" \notin hist
        BY <1>2, <2>1
    <3>2. o \notin {"add", "kill"}
        BY <1>2, <2>1 DEF Finished
    <3>3. o = "boot"
      <4>1. CASE o \in DownFor(q) /\ o # "boot"
        <5>1. vm'[b] = vm[b] /\ vm[b] = NoAddr
            BY <1>2, <1>3, <2>1, <3>1, <3>2, <4>1 DEF Finished, Stage
        <5> QED  BY <2>1, <5>1
      <4>2. CASE o = "attach" /\ q.cmd # "start"
        <5>1. rec'[b] = "running"
            BY <1>2, <1>3, <2>1, <4>2 DEF Finished, Stage
        <5> QED  BY <2>1, <5>1
      <4> QED  BY <1>4, <2>1, <3>2, <4>1, <4>2 DEF BoxOps, DownFor
    <3>4. q.cmd = "start"
      <4>1. q.cmd # "start" => rec'[b] = "none"
          BY <1>2, <1>3, <2>1, <3>3 DEF Finished, Stage
      <4> QED  BY <2>1, <4>1
    <3>5. r # Idle /\ Along(q, r)
        BY <1>2, <3>3, <3>4 DEF Moved, Last1
    <3>6. r.cmd = "start" /\ r.ops[1].box = b /\ r.ops[1].op = "add"
        BY <3>3, <3>4, <3>5 DEF Along, Then
    <3>7. r.ops[1] \in Operation
        BY <1>5, <3>5, OwnBox
    <3> QED  BY <3>6, <3>7 DEF Op, Operation
  <2> QED  BY <1>1, <1>3, <2>1, StepParked
<1>8. Balanced'
  <2>0. ASSUME Quiet'
        PROVE  Quiet /\ Held(q) /\ Returned(q.ops[1]) /\ "orphaned" \notin hist
    <3>1. Quiet
        BY <1>2, <2>0 DEF Quiet
    <3> QED  BY <1>1, <1>2, <1>3, <2>0, <3>1 DEF Balanced, Quiet
  <2>1. ASSUME Quiet', r # Idle
        PROVE  Held(r)'
    <3>1. CASE Along(q, r)
      <4>1. r.ops[1].box = b /\ <<o, r.ops[1].op>> \in Then(q.cmd)
          BY <3>1 DEF Along
      <4>2. CASE r.ops[1].op \in {"resolve", "connect"}
        <5>1. o \in {"wait", "resolve"} /\ b \in All
            BY <1>3, <4>1, <4>2, OwnBox DEF Then, BoxOps
        <5> QED  BY <2>0, <2>1, <4>1, <4>2, <5>1 DEF Held, Returned, Clean
      <4>3. CASE r.ops[1].op = "disconnect"
        <5>1. o = "detach" /\ b \in All
            BY <1>3, <4>1, <4>3, OwnBox DEF Then, BoxOps
        <5> QED  BY <2>0, <2>1, <4>1, <4>3, <5>1 DEF Held, Returned
      <4>4. CASE r.ops[1].op \in {"stopped", "forget"}
        <5>1. o = "disconnect" /\ b \in All
            BY <1>3, <4>1, <4>4, OwnBox DEF Then, BoxOps
        <5> QED  BY <2>0, <2>1, <4>1, <4>4, <5>1 DEF Held, Returned, Clean
      <4>5. r.ops[1].op \notin {"wait", "ensure"}
          BY <4>1 DEF Then
      <4> QED  BY <4>2, <4>3, <4>4, <4>5 DEF Held
    <3>2. CASE NextSvc(q, r)
      <4> DEFINE x == r.ops[1].box
      <4>1. q.cmd = "up" /\ x \in q.left /\ r.ops[1].op \in {"wait", "resolve"}
          BY <3>2 DEF NextSvc
      <4>2. x \in All /\ x \in Owns(q) /\ x # b /\ rec[x] = "none"
          BY <1>3, <4>1, OwnBox DEF Working, Stage
      <4>3. x \in Svcs
          BY <1>3, <4>1 DEF Working, CmdRec
      <4>4. x \in All \ Stale
          BY <4>2, <4>3, ResourcesAssumption
      <4>5. ~Worked(x)
        <5> SUFFICES ASSUME NEW s \in Procs, proc[s] # Idle, proc[s].ops[1].box = x
                     PROVE  FALSE
            BY DEF Worked
        <5>1. s # p
            BY <1>1, <4>2
        <5>2. Working(proc[s])
            BY <1>3 DEF Shape
        <5>3. x \in Owns(proc[s])
            BY <4>2, <5>2, OwnBox
        <5> QED  BY <1>1, <1>3, <4>2, <5>1, <5>3 DEF Apart
      <4>6. Clean(x)
          BY <1>3, <2>0, <2>1, <4>2, <4>4, <4>5 DEF Balanced, Resting
      <4>7. Clean(x)'
          BY <1>2, <2>1, <4>2, <4>6 DEF Clean
      <4> QED  BY <4>1, <4>7 DEF Held
    <3>3. CASE Removing(q, r)
        BY <3>3 DEF Removing, Held
    <3> QED  BY <1>2, <2>1, <3>1, <3>2, <3>3 DEF Moved
  <2>2. ASSUME Quiet', b \in All, r = Idle \/ r.ops[1].box # b
        PROVE  Resting(b)'
    <3>1. o \in Last1(q.cmd)
        BY <1>2, <2>2 DEF Moved, Along
    <3>2. CASE o = "attach" /\ q.cmd # "start"
      <4>1. rec'[b] = "running"
          BY <1>2, <1>3, <2>2, <3>2 DEF Finished, Stage
      <4> QED  BY <4>1 DEF Resting
    <3>3. CASE o = "add"
      <4>1. rec'[b] = "running"
          BY <1>2, <2>2, <3>3 DEF Finished
      <4> QED  BY <4>1 DEF Resting
    <3>4. CASE o \in {"disconnect", "stopped", "forget"}
      <4>1. vm'[b] = NoAddr
          BY <1>2, <1>3, <2>0, <2>2, <3>4 DEF Finished, Stage, DownFor
      <4>2. Clean(b)'
          BY <2>0, <2>2, <3>4 DEF Held, Returned, Clean
      <4> QED  BY <4>1, <4>2 DEF Resting
    <3> QED  BY <1>4, <2>2, <3>1, <3>2, <3>3, <3>4 DEF Last1, BoxOps, NoBoxOps
  <2>3. PICK a : a = b
      OBVIOUS
  <2>4. a = proc[p].ops[1].box
      BY <1>1, <2>3
  <2>5. Quiet' /\ a \in All /\ (r = Idle \/ r.ops[1].box # a) => Resting(a)'
      BY <2>2, <2>3 DEF Resting, Clean
  <2>6. Quiet' => (r # Idle => Held(r)')
      BY <2>1
  <2> QED  BY <1>3, <2>4, <2>5, <2>6, StepBalanced
<1> QED  BY <1>6, <1>7, <1>8


\* An operation of a command fails; it has changed nothing.
LEMMA FailInv ==
    ASSUME Inv, TypeOK', NEW p \in Procs, NEW r, StepOf(p, r), Failed(proc[p], r), Ready(proc[p], r),
           proc[p].ops[1].op \in StoreOps \cup {"boot", "wait"},
           rec' = rec, vm' = vm, file' = file,
           Quiet' /\ proc[p].ops[1].op \in Lenient => Returned(proc[p].ops[1])
    PROVE  Shape' /\ Apart' /\ Stages' /\ Parked' /\ Balanced'
<1>1. PICK q : q = proc[p]
    OBVIOUS
<1> DEFINE o == q.ops[1].op  b == q.ops[1].box
<1>2. /\ q # Idle /\ proc' = [proc EXCEPT ![p] = r] /\ hist \subseteq hist' /\ Failed(q, r)
      /\ Ready(q, r) /\ o \in StoreOps \cup {"boot", "wait"}
    BY <1>1 DEF StepOf
<1>3. Working(q) /\ Stage(q) /\ Shape /\ Apart /\ Stages /\ Parked /\ Balanced
    BY <1>1, <1>2 DEF Inv, Shape, Stages
<1>4. o \notin {"add", "stopped", "forget", "kill"}
    BY <1>2 DEF StoreOps, NetOps, VolOps
<1>5. CASE o \in Lenient
  <2>1. Finished(proc[p].ops[1])
      BY <1>1, <1>4 DEF Finished
  <2>2. Moved(proc[p], r)
      BY <1>1, <1>2, <1>5 DEF Failed
  <2>3. Quiet' => Returned(proc[p].ops[1])
      BY <1>1, <1>5
  <2> QED  BY <2>1, <2>2, <2>3, DoneInv
<1>6. CASE o \notin Lenient
  <2>1. r # Idle => Working(r) /\ Copied(r) /\ Owns(r) = Owns(q)
      BY <1>2 DEF Ready, Copied
  <2>2. Shape' /\ Apart' /\ Stages'
    <3>1. r # Idle => Stage(r)'
        BY <1>2, <1>3, <1>4, <2>1, FailedStage
    <3> QED  BY <1>1, <1>3, <2>1, <3>1, StepShape
  <2>3. ASSUME b \in All, "orphaned" \notin hist'
        PROVE  ~(rec'[b] \in {"stopped", "dead"} /\ vm'[b] # NoAddr)
    <3>1. o \in DownFor(q) \/ (o = "attach" /\ q.cmd # "start")
      <4>1. o \in BoxOps
          BY <1>3, <2>3, OwnBox
      <4> QED  BY <1>4, <4>1 DEF BoxOps, DownFor
    <3> QED  BY <1>2, <1>3, <2>3, <3>1 DEF Stage
  <2>4. Parked'
      BY <1>1, <1>3, <2>3, StepParked
  <2>5. Quiet' => (r # Idle => Held(r)')
      BY <1>2, <1>6 DEF Failed, Undo, Removing, Held
  <2>6. PICK a : a = b
      OBVIOUS
  <2>7. a = proc[p].ops[1].box
      BY <1>1, <2>6
  <2>8. ASSUME Quiet', a \in All, r = Idle \/ r.ops[1].box # a
        PROVE  Resting(a)'
    <3>1. Quiet /\ Held(q) /\ "orphaned" \notin hist
      <4>1. Quiet
          BY <1>2, <2>8 DEF Quiet
      <4> QED  BY <1>1, <1>2, <1>3, <4>1 DEF Balanced, Quiet
    <3>2. o \notin {"boot", "attach"}
        BY <1>2, <1>6, <2>6, <2>8 DEF Failed, Undo
    <3>3. o \in BoxOps
        BY <1>3, <2>6, <2>8, OwnBox
    <3>4. o \in {"wait", "resolve", "connect", "ensure"}
        BY <1>4, <1>6, <3>2, <3>3 DEF BoxOps, Lenient
    <3>5. vm[a] = NoAddr
        BY <1>3, <2>6, <3>1, <3>4 DEF Stage, DownFor
    <3>6. rec[a] # "dead" => Clean(a)
        BY <2>6, <3>1, <3>4 DEF Held
    <3> QED  BY <3>5, <3>6 DEF Resting, Clean
  <2>9. Balanced'
      BY <1>3, <2>5, <2>7, <2>8, StepBalanced
  <2> QED  BY <2>2, <2>4, <2>9
<1> QED  BY <1>5, <1>6

\* An operation goes on to its next phase.
LEMMA PhaseInv ==
    ASSUME Inv, TypeOK', NEW p \in Procs, NEW r, StepOf(p, r),
           proc[p].ops[1].op \in StoreOps,
           rec' = rec, vm' = vm, file' = file \/ proc[p].ops[1].op \in Removals,
           r.cmd = proc[p].cmd, r.ops = proc[p].ops, r.left = proc[p].left,
           Working(r), Copied(r)
    PROVE  Shape' /\ Apart' /\ Stages' /\ Parked' /\ Balanced'
<1>1. PICK q : q = proc[p]
    OBVIOUS
<1> DEFINE o == q.ops[1].op  b == q.ops[1].box
<1>2. /\ q # Idle /\ proc' = [proc EXCEPT ![p] = r] /\ o \in StoreOps
      /\ r.cmd = q.cmd /\ r.ops = q.ops /\ r.left = q.left
      /\ hist \subseteq hist' /\ (file' = file \/ o \in Removals)
    BY <1>1 DEF StepOf
<1>3. Working(q) /\ Stage(q) /\ Shape /\ Apart /\ Stages /\ Parked /\ Balanced
    BY <1>1, <1>2 DEF Inv, Shape, Stages
<1>4. r # Idle
    BY OwnBox
<1>5. Owns(r) = Owns(q)
    BY <1>2, <1>4 DEF Owns
<1>6. Stage(r)'
    BY <1>2, <1>3 DEF Stage, DownFor
<1>7. Shape' /\ Apart' /\ Stages'
    BY <1>1, <1>3, <1>5, <1>6, StepShape
<1>8. ASSUME b \in All, "orphaned" \notin hist'
      PROVE  ~(rec'[b] \in {"stopped", "dead"} /\ vm'[b] # NoAddr)
  <2>1. o \in DownFor(q) \/ (o = "attach" /\ q.cmd # "start")
    <3>1. o \in BoxOps
        BY <1>3, <1>8, OwnBox
    <3> QED  BY <1>2, <3>1 DEF BoxOps, DownFor, StoreOps, NetOps, VolOps
  <2> QED  BY <1>2, <1>3, <1>8, <2>1 DEF Stage
<1>9. Parked'
    BY <1>1, <1>3, <1>8, StepParked
<1>10. Quiet' => (r # Idle => Held(r)')
  <2>1. Quiet' => Quiet /\ Held(q)
      BY <1>1, <1>2, <1>3 DEF Balanced, Quiet
  <2> QED  BY <1>2, <2>1 DEF Held, Clean, Removals
<1>11. PICK a : a = b
    OBVIOUS
<1>12. a = proc[p].ops[1].box /\ ~(r = Idle \/ r.ops[1].box # a)
    BY <1>1, <1>2, <1>4, <1>11
<1>13. Balanced'
    BY <1>3, <1>10, <1>12, StepBalanced
<1> QED  BY <1>7, <1>9, <1>13

-----------------------------------------------------------------------------
(* The steps of an operation on a store                                    *)

\* What saving makes of the network.
LEMMA NetSaved ==
    ASSUME NEW o, o.op \in NetOps, NEW n, GoodNet(n), NetChange(o, n).do = "save",
           NEW m, m = NetChange(o, n).to
    PROVE  /\ GoodNet(m)
           /\ \A x \in All : x # o.box /\ n.eps[x] = NoAddr => m.eps[x] = NoAddr
           /\ o.op \notin {"connect", "ensure"} => \A x \in All : n.eps[x] = NoAddr => m.eps[x] = NoAddr
           /\ \A x \in All : n.eps[x] # NoAddr /\ ~(o.op = "disconnect" /\ x = o.box)
                               /\ ~(o.op = "raze" /\ n # NewNet) => m.eps[x] = n.eps[x]
           /\ o.op = "disconnect" /\ o.box \in All => m.eps[o.box] = NoAddr
<1> DEFINE b == o.box
<1>0. GoodNet(m)
    BY NetChangeGood
<1>1. \A c, d : /\ SaveIf(c, d).do = "save" => c /\ SaveIf(c, d).to = d
                /\ SaveOr(c, d).do = "save" => c /\ SaveOr(c, d).to = d
    BY DEF SaveIf, SaveOr, Save, Skip, Refuse
<1>2. n \in [ex : BOOLEAN, eps : [All -> 0 .. Broadcast - 1]]
    BY DEF GoodNet, Net
<1>3. \A x \in All : NewNet.eps[x] = NoAddr /\ NoNet.eps[x] = NoAddr
    BY DEF NewNet, NoNet, NoEndpoints
<1>4. CASE o.op \in {"connect", "ensure"}
  <2>1. n.eps[b] = NoAddr /\ m = connect(n, b)
    <3>1. NetChange(o, n) = Skip \/ NetChange(o, n) = SaveOr(CanConnect(n, b), connect(n, b))
        BY <1>4 DEF NetChange
    <3>2. Skip.do # "save"
        BY DEF Skip
    <3> QED  BY <1>1, <3>1, <3>2 DEF CanConnect
  <2>2. \A x \in All : x # b => m.eps[x] = n.eps[x]
      BY <1>2, <2>1 DEF connect
  <2> QED  BY <1>0, <1>4, <2>1, <2>2
<1>5. CASE o.op = "disconnect"
  <2>1. m = disconnect(n, b)
    <3>1. NetChange(o, n) = SaveIf(n.ex, disconnect(n, b))
        BY <1>5 DEF NetChange
    <3> QED  BY <1>1, <3>1
  <2>2. /\ \A x \in All : x # b => m.eps[x] = n.eps[x]
        /\ b \in All => m.eps[b] = NoAddr
      BY <1>2, <2>1 DEF disconnect
  <2> QED  BY <1>0, <1>5, <2>2
<1>6. CASE o.op \in {"ensurenet", "netcreate"}
  <2>1. m = NewNet /\ ~n.ex
    <3>1. NetChange(o, n) = SaveIf(~n.ex, NewNet) \/ NetChange(o, n) = SaveOr(~n.ex, NewNet)
        BY <1>6 DEF NetChange
    <3> QED  BY <1>1, <3>1
  <2>2. \A x \in All : n.eps[x] = NoAddr
      BY <2>1 DEF GoodNet, Valid
  <2> QED  BY <1>0, <1>3, <1>6, <2>1, <2>2
<1>7. CASE o.op = "raze"
  <2>1. m = NewNet
    <3>1. NetChange(o, n) = SaveIf(n.ex, NewNet)
        BY <1>7 DEF NetChange
    <3> QED  BY <1>1, <3>1
  <2> QED  BY <1>0, <1>3, <1>7, <2>1
<1>8. CASE o.op = "netrm"
  <2>1. m = NoNet /\ n.eps = NoEndpoints
    <3>1. NetChange(o, n) = SaveOr(n.ex /\ n.eps = NoEndpoints, NoNet)
        BY <1>8 DEF NetChange
    <3> QED  BY <1>1, <3>1
  <2>2. \A x \in All : n.eps[x] = NoAddr
      BY <2>1 DEF NoEndpoints
  <2> QED  BY <1>0, <1>3, <1>8, <2>1, <2>2
<1> QED  BY <1>4, <1>5, <1>6, <1>7, <1>8 DEF NetOps

\* What saving makes of the volume.
LEMMA VolSaved ==
    ASSUME NEW o \in Operation, o.op \in VolOps, NEW v, GoodVol(v), VolChange(o, v).do = "save",
           NEW m, m = VolChange(o, v).to
    PROVE  /\ GoodVol(m)
           /\ \A x \in All : x \notin v.users /\ (x # o.box \/ o.op # "attach") => x \notin m.users
           /\ \A x \in All : x \in v.users /\ o.op # "volrmf" /\ (x # o.box \/ o.op # "detach")
                               => x \in m.users
           /\ o.op = "detach" => o.box \notin m.users
           /\ m.ex <=> o.op \in {"resolve", "attach", "detach"}
           /\ o.op \in {"attach", "detach"} => v.ex
<1>0. GoodVol(m)
    BY VolChangeGood
<1> QED  BY <1>0 DEF VolOps, VolChange, SaveIf, SaveOr, Save, Skip, Refuse, GoodVol, Vol,
                     NewVol, NoVol, attach, detach, can_remove


\* A command in progress, as the actions see it.
LEMMA Cursor ==
    ASSUME Inv, NEW p \in Procs, proc[p].cmd # "idle"
    PROVE  /\ proc[p] # Idle /\ Working(proc[p]) /\ Copied(proc[p])
           /\ Cur(p) = proc[p].ops[1] /\ Cur(p) \in Operation /\ proc[p] \in CmdRec
<1>1. proc[p] # Idle
    BY DEF Idle
<1>2. Working(proc[p]) /\ Copied(proc[p])
    BY <1>1 DEF Inv, Shape
<1>3. Plan(proc[p].cmd, proc[p].ops) /\ proc[p] \in CmdRec
    BY <1>2 DEF Working
<1>4. Head(proc[p].ops) = proc[p].ops[1] /\ proc[p].ops[1] \in Operation
    BY <1>3, PlanHead
<1> QED  BY <1>1, <1>2, <1>3, <1>4 DEF Cur

\* Every command is in a phase.
LEMMA Phases ==
    ASSUME Shape, NEW p \in Procs, NEW r, proc' = [proc EXCEPT ![p] = r], r = Idle \/ Working(r)
    PROVE  \A s \in Procs : proc'[s].ph \in {"get", "put", "rename", "rmdir"}
<1>1. r \in CmdRec
  <2>1. Idle \in CmdRec
      BY DEF Idle, CmdRec, Commands, Entry
  <2> QED  BY <2>1 DEF Working
<1>2. proc' \in [Procs -> CmdRec]
    BY <1>1 DEF Shape
<1> QED  BY <1>2 DEF CmdRec

\* A command that does not come to a rename creates no volume.
LEMMA NotCreating ==
    ASSUME Shape, NEW p \in Procs, NEW r, proc' = [proc EXCEPT ![p] = r], r = Idle \/ r.ph # "rename"
    PROVE  Creating' => Creating
<1> SUFFICES ASSUME NEW s \in Procs, proc'[s].cmd # "idle", Cur(s)'.op = "resolve",
                    proc'[s].ph = "rename"
             PROVE  Creating
    BY DEF Creating
<1>1. proc \in [Procs -> CmdRec]
    BY DEF Shape
<1>2. s # p
    BY <1>1 DEF Idle
<1>3. proc'[s] = proc[s]
    BY <1>1, <1>2
<1> QED  BY <1>3 DEF Creating, Cur

\* The stores and the VMs are left alone.
LEMMA StoresKept ==
    ASSUME Inv, UNCHANGED <<file, tmp, dir, vm, hist>>,
           NEW p \in Procs, NEW r, proc' = [proc EXCEPT ![p] = r], r = Idle \/ r.ph # "rename"
    PROVE  Stored' /\ Backed' /\ RunningIsConnected'
<1>1. Creating' => Creating
    BY NotCreating DEF Inv
<1>2. Backed'
    BY <1>1 DEF Inv, Backed
<1> QED  BY <1>2 DEF Inv, Stored, RunningIsConnected, GoodNet, GoodVol, Valid

\* get: the entry is read.
LEMMA GetInv ==
    ASSUME Inv, NEW p \in Procs, Get(p)
    PROVE  Inv'
<1>1. PICK q : q = proc[p]
    OBVIOUS
<1>2. PICK o : o = q.ops[1]
    OBVIOUS
<1>3. /\ q # Idle /\ Working(q) /\ Cur(p) = o /\ o \in Operation /\ q \in CmdRec /\ o.op \in StoreOps
      /\ UNCHANGED <<file, tmp, dir, rec, vm, well, used, hist, count>>
    BY <1>1, <1>2, Cursor DEF Get
<1>4. Shape /\ TypeOK /\ GoodNet(file.net) /\ GoodVol(file.vol) /\ file \in [net : Net, vol : Vol]
    BY DEF Inv, Shape, Stored, TypeOK
<1>5. ASSUME NEW r, proc' = [proc EXCEPT ![p] = r], r = Idle \/ r.ph # "rename"
      PROVE  Stored' /\ Backed' /\ RunningIsConnected'
    BY <1>3, <1>5, StoresKept
<1>6. ASSUME NEW r, proc' = [proc EXCEPT ![p] = r], r = Idle \/ Working(r)
      PROVE  TypeOK' /\ StepOf(p, r)
  <2>1. TypeOK'
    <3>1. \A s \in Procs : proc'[s].ph \in {"get", "put", "rename", "rmdir"}
        BY <1>4, <1>6, Phases
    <3> QED  BY <1>3, <1>4, <3>1 DEF TypeOK
  <2> QED  BY <1>1, <1>3, <1>6, <2>1 DEF StepOf
<1>7. o.op \notin {"add", "stopped", "forget", "kill", "boot"}
    BY <1>3 DEF StoreOps, NetOps, VolOps
<1>8. o.box \in All => o.op \in BoxOps
    BY <1>2, <1>3, OwnBox
<1> DEFINE c == Change(o, file)
<1>9. CASE c.do = "skip" /\ Done(p)
  <2>1. PICK r : r = Next1(q)
      OBVIOUS
  <2>2. proc' = [proc EXCEPT ![p] = r] /\ Moved(q, r) /\ Ready(q, r)
      BY <1>1, <1>3, <1>9, <2>1, NextFacts DEF Done
  <2>3. TypeOK' /\ StepOf(p, r)
      BY <1>6, <2>2 DEF Ready
  <2>4. Finished(o)
      BY <1>3, <1>7 DEF Finished
  <2>5. Returned(o)
    <3>1. o.op = "detach" => o.box \notin file.vol.users
        BY <1>4, <1>9 DEF Change, VolOps, VolChange, SaveIf, Save, GoodVol
    <3>2. o.op = "disconnect" /\ o.box \in All => file.net.eps[o.box] = NoAddr
        BY <1>4, <1>9 DEF Change, VolOps, NetChange, SaveIf, Save, GoodNet, Valid
    <3> QED  BY <1>3, <3>1, <3>2 DEF Returned
  <2>6. Shape' /\ Apart' /\ Stages' /\ Parked' /\ Balanced'
      BY <1>1, <1>2, <2>2, <2>3, <2>4, <2>5, DoneInv
  <2> QED  BY <1>5, <2>2, <2>6 DEF Ready, Inv
<1>10. CASE c.do = "error" /\ Fail(p)
  <2>1. PICK r : r = Err1(q)
      OBVIOUS
  <2>2. proc' = [proc EXCEPT ![p] = r] /\ Failed(q, r) /\ Ready(q, r)
      BY <1>1, <1>3, <1>10, <2>1, FailFacts DEF Fail
  <2>3. TypeOK' /\ StepOf(p, r)
      BY <1>6, <2>2 DEF Ready
  <2>4. o.op \in Lenient => Returned(o)
    <3>1. o.op \notin {"detach", "disconnect"}
        BY <1>10 DEF Change, VolOps, VolChange, NetChange, SaveIf, Save, Skip
    <3> QED  BY <1>3, <3>1 DEF Returned
  <2>5. Shape' /\ Apart' /\ Stages' /\ Parked' /\ Balanced'
      BY <1>1, <1>2, <1>3, <2>2, <2>3, <2>4, FailInv
  <2> QED  BY <1>5, <2>2, <2>5 DEF Ready, Inv
<1>11. CASE /\ c.do = "save"
            /\ proc' = [proc EXCEPT ![p].ph = "put", ![p].copy = c.to,
                                    ![p].base = file[StoreOf(o)]]
  <2>1. PICK r : r = [q EXCEPT !.ph = "put", !.copy = c.to, !.base = file[StoreOf(o)]]
      OBVIOUS
  <2>2. proc' = [proc EXCEPT ![p] = r]
      BY <1>1, <1>4, <1>11, <2>1 DEF Shape
  <2>3. c.to \in Entry /\ file[StoreOf(o)] \in Entry
    <3>1. CASE o.op \in VolOps
      <4>1. VolChange(o, file.vol).do = "save" /\ c.to = VolChange(o, file.vol).to /\ StoreOf(o) = "vol"
          BY <1>11, <3>1 DEF Change, StoreOf
      <4>2. GoodVol(c.to)
          BY <1>3, <1>4, <3>1, <4>1, VolChangeGood
      <4> QED  BY <1>4, <4>1, <4>2 DEF Entry, GoodVol
    <3>2. CASE o.op \notin VolOps
      <4>1. NetChange(o, file.net).do = "save" /\ c.to = NetChange(o, file.net).to /\ StoreOf(o) = "net"
          BY <1>11, <3>2 DEF Change, StoreOf
      <4>2. o.op \in NetOps
          BY <1>3, <3>2 DEF StoreOps
      <4>3. GoodNet(c.to)
          BY <1>4, <4>1, <4>2, NetChangeGood
      <4> QED  BY <1>4, <4>1, <4>3 DEF Entry, GoodNet
    <3> QED  BY <3>1, <3>2
  <2> HIDE DEF c
  <2>4. /\ r \in CmdRec /\ r.cmd = q.cmd /\ r.ops = q.ops /\ r.left = q.left /\ r.ph = "put"
        /\ r.copy = c.to /\ r.base = file[StoreOf(o)]
      BY <1>3, <2>1, <2>3 DEF CmdRec
  <2>5. Working(r)
      BY <1>2, <1>3, <2>4 DEF Working
  <2>6. Copied(r)
    <3>1. r.ops[1] = o
        BY <1>2, <2>4
    <3>2. CASE o.op \in VolOps
        BY <1>4, <1>11, <2>4, <3>1, <3>2 DEF Copied, Change, StoreOf, c
    <3>3. CASE o.op \notin VolOps
        BY <1>4, <1>11, <2>4, <3>1, <3>3 DEF Copied, Change, StoreOf, c
    <3> QED  BY <3>2, <3>3
  <2>7. TypeOK' /\ StepOf(p, r)
      BY <1>6, <2>2, <2>5
  <2>8. Shape' /\ Apart' /\ Stages' /\ Parked' /\ Balanced'
      BY <1>1, <1>2, <1>3, <2>4, <2>5, <2>6, <2>7, PhaseInv
  <2>9. Stored' /\ Backed' /\ RunningIsConnected'
      BY <1>5, <2>2, <2>4
  <2> QED  BY <2>8, <2>9 DEF Inv
<1> QED  BY <1>3, <1>9, <1>10, <1>11 DEF Get


\* What a command holds between get and rename.
LEMMA CopyGood ==
    ASSUME NEW q, Working(q), Copied(q), q.ph # "get", NEW o, o = q.ops[1]
    PROVE  /\ o \in Operation /\ o.op \in StoreOps
           /\ o.op \in VolOps =>
                /\ StoreOf(o) = "vol" /\ GoodVol(q.base) /\ GoodVol(q.copy)
                /\ VolChange(o, q.base).do = "save" /\ q.copy = VolChange(o, q.base).to
           /\ o.op \notin VolOps =>
                /\ o.op \in NetOps
                /\ StoreOf(o) = "net" /\ GoodNet(q.base) /\ GoodNet(q.copy)
                /\ NetChange(o, q.base).do = "save" /\ q.copy = NetChange(o, q.base).to
<1>1. o \in Operation /\ o.op \in StoreOps
    BY OwnBox DEF Working
<1>2. ASSUME o.op \in VolOps
      PROVE  /\ StoreOf(o) = "vol" /\ GoodVol(q.base) /\ GoodVol(q.copy)
             /\ VolChange(o, q.base).do = "save" /\ q.copy = VolChange(o, q.base).to
  <2>1. /\ StoreOf(o) = "vol" /\ GoodVol(q.base)
        /\ VolChange(o, q.base).do = "save" /\ q.copy = VolChange(o, q.base).to
      BY <1>2 DEF Copied, StoreOf
  <2> QED  BY <1>1, <1>2, <2>1, VolChangeGood
<1>3. ASSUME o.op \notin VolOps
      PROVE  /\ o.op \in NetOps
             /\ StoreOf(o) = "net" /\ GoodNet(q.base) /\ GoodNet(q.copy)
             /\ NetChange(o, q.base).do = "save" /\ q.copy = NetChange(o, q.base).to
  <2>1. /\ StoreOf(o) = "net" /\ GoodNet(q.base) /\ o.op \in NetOps
        /\ NetChange(o, q.base).do = "save" /\ q.copy = NetChange(o, q.base).to
      BY <1>1, <1>3 DEF Copied, StoreOf, StoreOps
  <2> QED  BY <2>1, NetChangeGood
<1> QED  BY <1>1, <1>2, <1>3

\* update, create and remove: the temporary file is written.
LEMMA PutInv ==
    ASSUME Inv, NEW p \in Procs, Put(p)
    PROVE  Inv'
<1>1. PICK q : q = proc[p]
    OBVIOUS
<1>2. PICK o : o = q.ops[1]
    OBVIOUS
<1>3. /\ q # Idle /\ Working(q) /\ Copied(q) /\ Cur(p) = o /\ o \in Operation /\ q \in CmdRec
      /\ o.op \in StoreOps /\ q.ph = "put"
      /\ UNCHANGED <<file, rec, vm, well, used, hist, count>>
    BY <1>1, <1>2, Cursor DEF Put
<1>4. /\ Shape /\ TypeOK /\ GoodNet(file.net) /\ GoodVol(file.vol) /\ Stored /\ Backed
      /\ file \in [net : Net, vol : Vol] /\ tmp \in [net : Net \cup {<<>>}, vol : Vol \cup {<<>>}]
      /\ dir \in BOOLEAN
    BY DEF Inv, Shape, Stored, TypeOK
<1>5. /\ o.op \in VolOps =>
           /\ StoreOf(o) = "vol" /\ GoodVol(q.base) /\ GoodVol(q.copy)
           /\ VolChange(o, q.base).do = "save" /\ q.copy = VolChange(o, q.base).to
      /\ o.op \notin VolOps => o.op \in NetOps /\ StoreOf(o) = "net" /\ GoodNet(q.copy)
    BY <1>2, <1>3, CopyGood
<1>6. ASSUME NEW r, proc' = [proc EXCEPT ![p] = r], r = Idle \/ Working(r),
             tmp' \in [net : Net \cup {<<>>}, vol : Vol \cup {<<>>}], dir' \in BOOLEAN
      PROVE  TypeOK' /\ StepOf(p, r)
  <2>1. TypeOK'
    <3>1. \A s \in Procs : proc'[s].ph \in {"get", "put", "rename", "rmdir"}
        BY <1>4, <1>6, Phases
    <3> QED  BY <1>3, <1>4, <1>6, <3>1 DEF TypeOK
  <2> QED  BY <1>1, <1>3, <1>6, <2>1 DEF StepOf
<1>7. CASE Overtaken(o, file[StoreOf(o)])
  <2>1. PICK r : r = Err1(q)
      OBVIOUS
  <2>2. proc' = [proc EXCEPT ![p] = r] /\ Failed(q, r) /\ Ready(q, r) /\ UNCHANGED <<tmp, dir>>
      BY <1>1, <1>3, <1>7, <2>1, FailFacts DEF Fail, Put
  <2>3. TypeOK' /\ StepOf(p, r)
      BY <1>4, <1>6, <2>2 DEF Ready
  <2>4. Returned(o)
    <3>1. o.op = "detach" => o.box \notin file.vol.users
        BY <1>4, <1>5, <1>7 DEF VolOps, GoodVol, Overtaken, Creates
    <3>2. o.op = "disconnect" /\ o.box \in All => file.net.eps[o.box] = NoAddr
        BY <1>4, <1>5, <1>7 DEF VolOps, GoodNet, Valid, Overtaken, Creates
    <3> QED  BY <1>3, <3>1, <3>2 DEF Returned
  <2>5. Shape' /\ Apart' /\ Stages' /\ Parked' /\ Balanced'
      BY <1>1, <1>2, <1>3, <2>2, <2>3, <2>4, FailInv
  <2>6. Stored' /\ Backed' /\ RunningIsConnected'
      BY <1>3, <2>2, StoresKept DEF Ready
  <2> QED  BY <2>5, <2>6 DEF Inv
<1>8. CASE ~Overtaken(o, file[StoreOf(o)])
  <2>1. PICK r : r = [q EXCEPT !.ph = "rename"]
      OBVIOUS
  <2>2. /\ proc' = [proc EXCEPT ![p] = r] /\ tmp' = [tmp EXCEPT ![StoreOf(o)] = q.copy]
        /\ dir' = (dir \/ o.op = "resolve")
      BY <1>1, <1>3, <1>4, <1>8, <2>1 DEF Put, Shape
  <2>3. /\ r \in CmdRec /\ r.cmd = q.cmd /\ r.ops = q.ops /\ r.left = q.left /\ r.ph = "rename"
        /\ r.copy = q.copy /\ r.base = q.base
      BY <1>3, <2>1 DEF CmdRec
  <2>4. Working(r)
      BY <1>2, <1>3, <2>3 DEF Working
  <2>5. Copied(r)
      BY <1>3, <2>3 DEF Copied
  <2>6. /\ tmp' \in [net : Net \cup {<<>>}, vol : Vol \cup {<<>>}]
        /\ o.op \in VolOps => tmp'.vol = q.copy /\ tmp'.net = tmp.net
        /\ o.op \notin VolOps => tmp'.net = q.copy /\ tmp'.vol = tmp.vol
      BY <1>4, <1>5, <2>2 DEF GoodNet, GoodVol
  <2>7. dir' \in BOOLEAN /\ (dir => dir')
      BY <1>4, <2>2
  <2>8. TypeOK' /\ StepOf(p, r)
      BY <1>6, <2>2, <2>4, <2>6, <2>7
  <2>9. Shape' /\ Apart' /\ Stages' /\ Parked' /\ Balanced'
      BY <1>1, <1>2, <1>3, <2>3, <2>4, <2>5, <2>8, PhaseInv
  <2>10. Stored'
    <3>1. GoodNet(file'.net) /\ GoodVol(file'.vol)
        BY <1>3, <1>4
    <3>2. (tmp'.net = <<>> \/ GoodNet(tmp'.net)) /\ (tmp'.vol = <<>> \/ GoodVol(tmp'.vol))
        BY <1>4, <1>5, <2>6 DEF Stored
    <3> QED  BY <3>1, <3>2 DEF Stored, GoodNet, GoodVol, Valid
  <2>11. Backed'
    <3> SUFFICES ASSUME hist' \cap {"vol", "late"} = {}, file'.vol.ex \/ Creating'
                 PROVE  dir'
        BY DEF Backed
    <3>1. file.vol.ex \/ Creating => dir
        BY <1>3, <1>4 DEF Backed
    <3>2. CASE o.op = "resolve"
        BY <2>2, <3>2
    <3>3. CASE o.op # "resolve"
      <4>1. Creating' => Creating
        <5> SUFFICES ASSUME NEW s \in Procs, proc'[s].cmd # "idle", Cur(s)'.op = "resolve",
                            proc'[s].ph = "rename"
                     PROVE  Creating
            BY DEF Creating
        <5>1. s # p
          <6>1. proc'[p] = r /\ r.ops = q.ops /\ Head(q.ops) = o
              BY <1>1, <1>3, <1>4, <2>2, <2>3 DEF Shape, Cur
          <6> QED  BY <3>3, <6>1 DEF Cur
        <5>2. proc'[s] = proc[s]
            BY <1>4, <2>2, <5>1 DEF Shape
        <5> QED  BY <5>2 DEF Creating, Cur
      <4> QED  BY <1>3, <2>7, <3>1, <4>1
    <3> QED  BY <3>2, <3>3
  <2>12. RunningIsConnected'
      BY <1>3 DEF RunningIsConnected, Inv
  <2> QED  BY <2>9, <2>10, <2>11, <2>12 DEF Inv
<1> QED  BY <1>7, <1>8


\* The temporary file becomes the store.
LEMMA RenameInv ==
    ASSUME Inv, NEW p \in Procs, Rename(p)
    PROVE  Inv'
<1>1. PICK q : q = proc[p]
    OBVIOUS
<1>2. PICK o : o = q.ops[1]
    OBVIOUS
<1>3. /\ q # Idle /\ Working(q) /\ Copied(q) /\ Cur(p) = o /\ o \in Operation /\ q \in CmdRec
      /\ o.op \in StoreOps /\ q.ph = "rename"
      /\ UNCHANGED <<dir, rec, vm, well, used, count>>
    BY <1>1, <1>2, Cursor DEF Rename
<1>4. /\ Shape /\ TypeOK /\ Stored /\ Backed /\ Stages /\ RunningIsConnected
      /\ GoodNet(file.net) /\ GoodVol(file.vol)
      /\ file \in [net : Net, vol : Vol] /\ tmp \in [net : Net \cup {<<>>}, vol : Vol \cup {<<>>}]
      /\ dir \in BOOLEAN /\ hist \subseteq {"net", "vol", "forced", "razed", "late", "killed", "orphaned"}
    BY DEF Inv, Shape, Stored, TypeOK
<1>5. PICK s : s = StoreOf(o)
    OBVIOUS
<1>6. /\ o.op \in VolOps =>
           /\ s = "vol" /\ GoodVol(q.base) /\ GoodVol(q.copy)
           /\ VolChange(o, q.base).do = "save" /\ q.copy = VolChange(o, q.base).to
      /\ o.op \notin VolOps =>
           /\ o.op \in NetOps /\ s = "net" /\ GoodNet(q.base) /\ GoodNet(q.copy)
           /\ NetChange(o, q.base).do = "save" /\ q.copy = NetChange(o, q.base).to
    BY <1>2, <1>3, <1>5, CopyGood
<1>7. /\ o.op \notin {"add", "stopped", "forget", "kill", "boot"} /\ s \in {"net", "vol"}
      /\ VolOps \cap NetOps = {}
    BY <1>3, <1>6 DEF StoreOps, NetOps, VolOps
<1>8. ASSUME NEW r, proc' = [proc EXCEPT ![p] = r], r = Idle \/ Working(r),
             file' \in [net : Net, vol : Vol],
             tmp' \in [net : Net \cup {<<>>}, vol : Vol \cup {<<>>}], dir' \in BOOLEAN,
             hist' \subseteq {"net", "vol", "forced", "razed", "late", "killed", "orphaned"}
      PROVE  TypeOK'
  <2>1. \A u \in Procs : proc'[u].ph \in {"get", "put", "rename", "rmdir"}
      BY <1>4, <1>8, Phases
  <2> QED  BY <1>3, <1>4, <1>8, <2>1 DEF TypeOK
<1>9. CASE tmp[s] = <<>>
  <2>1. PICK r : r = Err1(q)
      OBVIOUS
  <2>2. /\ proc' = [proc EXCEPT ![p] = r] /\ Failed(q, r) /\ Ready(q, r)
        /\ UNCHANGED <<file, tmp>> /\ hist' = hist \cup {s}
      BY <1>1, <1>3, <1>5, <1>9, <2>1, FailFacts DEF Fail, Rename
  <2>3. TypeOK'
    <3>1. dir' \in BOOLEAN
        BY <1>3, <1>4
    <3> QED  BY <1>4, <1>7, <1>8, <2>2, <3>1 DEF Ready
  <2>4. ~Quiet'
      BY <1>7, <2>2 DEF Quiet
  <2>5. StepOf(p, r)
      BY <1>1, <1>3, <2>2 DEF StepOf
  <2>6. Shape' /\ Apart' /\ Stages' /\ Parked' /\ Balanced'
      BY <1>1, <1>2, <1>3, <2>2, <2>3, <2>4, <2>5, FailInv
  <2>7. Stored' /\ Backed' /\ RunningIsConnected'
    <3>1. Creating' => Creating
        BY <1>4, <2>2, NotCreating DEF Ready
    <3> QED  BY <1>3, <1>4, <2>2, <3>1
             DEF Stored, Backed, RunningIsConnected, GoodNet, GoodVol, Valid
  <2> QED  BY <2>6, <2>7 DEF Inv
<1>10. CASE tmp[s] # <<>>
  <2> DEFINE lost == file[s] # q.base \/ tmp[s] # q.copy
             razes == o.op = "raze" /\ q.base # NewNet
  <2>1. /\ file' = [file EXCEPT ![s] = tmp[s]] /\ tmp' = [tmp EXCEPT ![s] = <<>>]
        /\ hist' = hist \cup (IF lost THEN {s} ELSE {})
                        \cup (IF o.op = "volrmf" THEN {"forced"} ELSE {})
                        \cup (IF razes THEN {"razed"} ELSE {})
        /\ proc' = [proc EXCEPT ![p] = IF o.op \in Removals THEN [q EXCEPT !.ph = "rmdir"]
                                      ELSE Next1(Saved(q, o.op))]
      BY <1>1, <1>3, <1>5, <1>10 DEF Rename
  <2>2. PICK w : w = Saved(q, o.op)
      OBVIOUS
  <2>3. /\ w \in CmdRec /\ w.cmd = q.cmd /\ w.ops = q.ops /\ w.left = q.left /\ w.ph = q.ph
      BY <1>3, <2>2 DEF CmdRec, Saved
  <2>4. Working(w) /\ w # Idle
      BY <1>3, <2>3, WorkingNotIdle DEF Working
  <2>5. PICK r : r = IF o.op \in Removals THEN [q EXCEPT !.ph = "rmdir"] ELSE Next1(w)
      OBVIOUS
  <2>6. ASSUME o.op \notin Removals
        PROVE  Moved(q, r) /\ Ready(q, r)
    <3>1. Moved(w, r) /\ Ready(w, r)
        BY <2>4, <2>5, <2>6, NextFacts
    <3>2. Owns(w) = Owns(q)
        BY <1>3, <2>3, <2>4 DEF Owns
    <3> QED  BY <2>3, <3>1, <3>2 DEF Moved, Ready, Along, NextSvc, Removing
  <2>6a. ASSUME o.op \in Removals
         PROVE  /\ Working(r) /\ Copied(r) /\ r.ph = "rmdir"
                /\ r.cmd = q.cmd /\ r.ops = q.ops /\ r.left = q.left
    <3>1. /\ r \in CmdRec /\ r.cmd = q.cmd /\ r.ops = q.ops /\ r.left = q.left /\ r.ph = "rmdir"
          /\ r.copy = q.copy /\ r.base = q.base
        BY <1>3, <2>5, <2>6a DEF CmdRec
    <3> QED  BY <1>2, <1>3, <3>1 DEF Working, Copied
  <2>6b. r = Idle \/ (Working(r) /\ r.ph # "rename")
      BY <2>6, <2>6a DEF Ready
  <2>7. proc' = [proc EXCEPT ![p] = r]
      BY <1>1, <2>1, <2>2, <2>5
  <2>8. /\ s \notin hist' => file[s] = q.base /\ tmp[s] = q.copy
        /\ "razed" \notin hist' => ~razes
        /\ hist \subseteq hist'
        /\ hist' \subseteq {"net", "vol", "forced", "razed", "late", "killed", "orphaned"}
      BY <1>4, <1>7, <2>1
  <2> HIDE DEF razes, lost
  <2>9. /\ s = "net" => file'.net = tmp.net /\ file'.vol = file.vol /\ GoodNet(tmp.net)
                        /\ tmp'.net = <<>> /\ tmp'.vol = tmp.vol
        /\ s = "vol" => file'.vol = tmp.vol /\ file'.net = file.net /\ GoodVol(tmp.vol)
                        /\ tmp'.vol = <<>> /\ tmp'.net = tmp.net
        /\ file' \in [net : Net, vol : Vol]
        /\ tmp' \in [net : Net \cup {<<>>}, vol : Vol \cup {<<>>}]
    <3>1. /\ s = "net" => GoodNet(tmp.net)
          /\ s = "vol" => GoodVol(tmp.vol)
        BY <1>4, <1>10 DEF Stored
    <3>2. tmp[s] \in (IF s = "net" THEN Net ELSE Vol)
        BY <1>7, <3>1 DEF GoodNet, GoodVol
    <3> QED  BY <1>4, <1>7, <2>1, <3>1, <3>2
  <2>10. TypeOK'
    <3>1. dir' \in BOOLEAN
        BY <1>3, <1>4
    <3> QED  BY <1>8, <2>6b, <2>7, <2>8, <2>9, <3>1
  \* What the change makes of the network, when no update is lost.
  <2>11. ASSUME s = "net", "net" \notin hist'
         PROVE  /\ \A x \in All : x # o.box /\ file.net.eps[x] = NoAddr => file'.net.eps[x] = NoAddr
                /\ o.op \notin {"connect", "ensure"} =>
                     \A x \in All : file.net.eps[x] = NoAddr => file'.net.eps[x] = NoAddr
                /\ \A x \in All : file.net.eps[x] # NoAddr /\ ~(o.op = "disconnect" /\ x = o.box)
                                    /\ ~razes => file'.net.eps[x] = file.net.eps[x]
                /\ o.op = "disconnect" /\ o.box \in All => file'.net.eps[o.box] = NoAddr
    <3>1. /\ o.op \in NetOps /\ GoodNet(q.base) /\ NetChange(o, q.base).do = "save"
          /\ q.copy = NetChange(o, q.base).to
        BY <1>6, <2>11
    <3>2. file.net = q.base /\ file'.net = q.copy
        BY <2>8, <2>9, <2>11
    <3> QED  BY <3>1, <3>2, NetSaved DEF razes
  <2>12. ASSUME s = "vol", "vol" \notin hist'
         PROVE  /\ \A x \in All : x \notin file.vol.users /\ (x # o.box \/ o.op # "attach")
                                    => x \notin file'.vol.users
                /\ o.op = "detach" => o.box \notin file'.vol.users
                /\ file'.vol.ex <=> o.op \in {"resolve", "attach", "detach"}
                /\ o.op \in {"attach", "detach"} => file.vol.ex
    <3>1. /\ o.op \in VolOps /\ GoodVol(q.base) /\ VolChange(o, q.base).do = "save"
          /\ q.copy = VolChange(o, q.base).to
        BY <1>6, <2>12
    <3>2. file.vol = q.base /\ file'.vol = q.copy
        BY <2>8, <2>9, <2>12
    <3> QED  BY <1>3, <3>1, <3>2, VolSaved
  <2>13. ASSUME Quiet'
         PROVE  "net" \notin hist' /\ "vol" \notin hist'
      BY <2>13 DEF Quiet
  <2>14. StepOf(p, r)
    <3>1. ASSUME Quiet', NEW x \in All \ {o.box}
          PROVE  /\ file.net.eps[x] = NoAddr => file'.net.eps[x] = NoAddr
                 /\ x \notin file.vol.users => x \notin file'.vol.users
        BY <1>7, <2>9, <2>11, <2>12, <2>13, <3>1
    <3> QED  BY <1>1, <1>2, <1>3, <2>7, <2>8, <3>1 DEF StepOf
  <2>15. Finished(o)
      BY <1>3, <1>7 DEF Finished
  <2>16. ASSUME Quiet'
         PROVE  Returned(o)
    <3>1. CASE s = "net"
      <4>1. file'.vol = file.vol /\ o.op \notin {"attach", "detach"}
          BY <1>6, <1>7, <2>9, <3>1 DEF VolOps
      <4> QED  BY <2>11, <2>13, <2>16, <3>1, <4>1 DEF Returned
    <3>2. CASE s = "vol"
      <4>1. file'.net = file.net /\ o.op # "disconnect"
          BY <1>6, <1>7, <2>9, <3>2 DEF NetOps
      <4> QED  BY <2>12, <2>13, <2>16, <3>2, <4>1 DEF Returned
    <3> QED  BY <1>7, <3>1, <3>2
  <2>17. Shape' /\ Apart' /\ Stages' /\ Parked' /\ Balanced'
    <3>1. CASE o.op \in Removals
        BY <1>1, <1>2, <1>3, <2>6a, <2>10, <2>14, <3>1, PhaseInv
    <3>2. CASE o.op \notin Removals
        BY <1>1, <1>2, <2>6, <2>10, <2>14, <2>15, <2>16, <3>2, DoneInv
    <3> QED  BY <3>1, <3>2
  <2>18. Stored'
    <3>1. GoodNet(file'.net) /\ GoodVol(file'.vol)
        BY <1>4, <1>7, <2>9
    <3>2. (tmp'.net = <<>> \/ GoodNet(tmp'.net)) /\ (tmp'.vol = <<>> \/ GoodVol(tmp'.vol))
        BY <1>4, <1>7, <2>9 DEF Stored
    <3> QED  BY <3>1, <3>2 DEF Stored, GoodNet, GoodVol, Valid
  <2>19. Backed'
    <3> SUFFICES ASSUME hist' \cap {"vol", "late"} = {}, file'.vol.ex \/ Creating'
                 PROVE  dir
        BY <1>3 DEF Backed
    <3>1. file.vol.ex \/ Creating => dir
        BY <1>4, <2>8 DEF Backed
    <3>2. Creating' => Creating
        BY <1>4, <2>6b, <2>7, NotCreating
    <3>3. ASSUME file'.vol.ex
          PROVE  file.vol.ex \/ Creating
      <4>1. CASE s = "net"
          BY <2>9, <3>3, <4>1
      <4>2. CASE s = "vol" /\ o.op = "resolve"
          BY <1>1, <1>3, <4>2, WorkingNotIdle DEF Creating
      <4>3. CASE s = "vol" /\ o.op # "resolve"
          BY <2>12, <3>3, <4>3
      <4> QED  BY <1>7, <4>1, <4>2, <4>3
    <3> QED  BY <3>1, <3>2, <3>3
  <2>20. RunningIsConnected'
    <3> SUFFICES ASSUME hist' \cap {"net", "razed", "orphaned"} = {}, NEW x \in All, vm'[x] # NoAddr
                 PROVE  file'.net.eps[x] = vm'[x]
        BY DEF RunningIsConnected
    <3>1. vm'[x] = vm[x] /\ file.net.eps[x] = vm[x]
        BY <1>3, <1>4, <2>8 DEF RunningIsConnected
    <3>2. CASE s = "vol"
        BY <2>9, <3>1, <3>2
    <3>3. CASE s = "net"
      <4>1. ~(o.op = "disconnect" /\ x = o.box)
        <5>1. Stage(q) /\ "orphaned" \notin hist
            BY <1>1, <1>3, <1>4, <2>8 DEF Stages
        <5>2. o.op = "disconnect" => vm[o.box] = NoAddr
            BY <1>2, <5>1 DEF Stage, DownFor
        <5> QED  BY <3>1, <5>2
      <4>2. ~razes
          BY <2>8
      <4> QED  BY <2>11, <3>1, <3>3, <4>1, <4>2
    <3> QED  BY <1>7, <3>2, <3>3
  <2> QED  BY <2>17, <2>18, <2>19, <2>20 DEF Inv
<1> QED  BY <1>9, <1>10

\* The directory of a removed volume goes.
LEMMA RmDirInv ==
    ASSUME Inv, NEW p \in Procs, RmDir(p)
    PROVE  Inv'
<1>1. PICK q : q = proc[p]
    OBVIOUS
<1>2. PICK o : o = q.ops[1]
    OBVIOUS
<1>3. /\ q # Idle /\ Working(q) /\ Cur(p) = o /\ o.op \in Removals
      /\ dir' = FALSE /\ Done(p) /\ UNCHANGED <<file, tmp, rec, vm, well, used, count>>
      /\ hist' = hist \cup (IF file.vol.ex \/ Creating THEN {"late"} ELSE {})
    BY <1>1, <1>2, Cursor DEF RmDir
<1>4. Shape /\ TypeOK /\ Stored /\ Backed /\ RunningIsConnected
    BY DEF Inv, Shape
<1>5. PICK r : r = Next1(q)
    OBVIOUS
<1>6. proc' = [proc EXCEPT ![p] = r] /\ Moved(q, r) /\ Ready(q, r)
    BY <1>1, <1>3, <1>5, NextFacts DEF Done
<1>7. hist \subseteq hist' /\ (file.vol.ex \/ Creating => "late" \in hist')
    BY <1>3
<1>8. TypeOK'
  <2>1. \A s \in Procs : proc'[s].ph \in {"get", "put", "rename", "rmdir"}
      BY <1>4, <1>6, Phases DEF Ready
  <2>2. hist' \subseteq {"net", "vol", "forced", "razed", "late", "killed", "orphaned"}
      BY <1>3, <1>4 DEF TypeOK
  <2> QED  BY <1>3, <1>4, <2>1, <2>2 DEF TypeOK
<1>9. StepOf(p, r)
    BY <1>1, <1>3, <1>6, <1>7 DEF StepOf
<1>10. Finished(o) /\ Returned(o)
    BY <1>3 DEF Finished, Returned, Removals
<1>11. Shape' /\ Apart' /\ Stages' /\ Parked' /\ Balanced'
    BY <1>1, <1>2, <1>6, <1>8, <1>9, <1>10, DoneInv
<1>12. Stored' /\ RunningIsConnected'
    BY <1>3, <1>4, <1>7 DEF Stored, RunningIsConnected, GoodNet, GoodVol, Valid
<1>13. Backed'
  <2>1. Creating' => Creating
      BY <1>4, <1>6, NotCreating DEF Ready
  <2> QED  BY <1>3, <1>7, <2>1 DEF Backed
<1> QED  BY <1>11, <1>12, <1>13 DEF Inv


-----------------------------------------------------------------------------
(* The other steps of a command                                            *)

\* boot: the VM runs with the address of the endpoint, or nothing changes.
LEMMA BootInv ==
    ASSUME Inv, NEW p \in Procs, Boot(p)
    PROVE  Inv'
<1>1. PICK q : q = proc[p]
    OBVIOUS
<1>2. PICK o : o = q.ops[1]
    OBVIOUS
<1>3. /\ q # Idle /\ Working(q) /\ Cur(p) = o /\ o \in Operation /\ o.op = "boot"
      /\ UNCHANGED <<file, tmp, rec, well, used, hist>>
    BY <1>1, <1>2, Cursor DEF Boot
<1>4. /\ Shape /\ TypeOK /\ Stored /\ Backed /\ RunningIsConnected
      /\ file \in [net : Net, vol : Vol] /\ vm \in [All -> 0 .. Broadcast - 1]
    BY DEF Inv, Shape, TypeOK
<1>5. o.box \in All
    BY <1>2, <1>3, OwnBox DEF BoxOps
<1>6. ASSUME NEW r, proc' = [proc EXCEPT ![p] = r], r = Idle \/ Working(r),
             vm' \in [All -> 0 .. Broadcast - 1], dir' \in BOOLEAN
      PROVE  TypeOK'
  <2>1. \A s \in Procs : proc'[s].ph \in {"get", "put", "rename", "rmdir"}
      BY <1>4, <1>6, Phases
  <2> QED  BY <1>3, <1>4, <1>6, <2>1 DEF TypeOK
<1>7. CASE Done(p) /\ dir' = TRUE /\ vm' = [vm EXCEPT ![o.box] = file.net.eps[o.box]]
  <2>1. PICK r : r = Next1(q)
      OBVIOUS
  <2>2. proc' = [proc EXCEPT ![p] = r] /\ Moved(q, r) /\ Ready(q, r)
      BY <1>1, <1>3, <1>7, <2>1, NextFacts DEF Done
  <2>3. /\ vm' \in [All -> 0 .. Broadcast - 1] /\ vm'[o.box] = file.net.eps[o.box]
        /\ \A x \in All : x # o.box => vm'[x] = vm[x]
    <3>1. file.net.eps[o.box] \in 0 .. Broadcast - 1
        BY <1>4, <1>5 DEF Net
    <3> QED  BY <1>4, <1>5, <1>7, <3>1
  <2>4. TypeOK'
      BY <1>6, <1>7, <2>2, <2>3 DEF Ready
  <2>5. StepOf(p, r)
      BY <1>1, <1>2, <1>3, <2>2, <2>3 DEF StepOf
  <2>6. Finished(o) /\ Returned(o)
      BY <1>3 DEF Finished, Returned
  <2>7. Shape' /\ Apart' /\ Stages' /\ Parked' /\ Balanced'
      BY <1>1, <1>2, <2>2, <2>4, <2>5, <2>6, DoneInv
  <2>8. Stored' /\ Backed'
      BY <1>3, <1>4, <1>7 DEF Stored, Backed, GoodNet, GoodVol, Valid
  <2>9. RunningIsConnected'
      BY <1>3, <1>4, <2>3 DEF RunningIsConnected
  <2> QED  BY <2>7, <2>8, <2>9 DEF Inv
<1>8. CASE Fail(p) /\ UNCHANGED <<vm, dir>>
  <2>1. PICK r : r = Err1(q)
      OBVIOUS
  <2>2. proc' = [proc EXCEPT ![p] = r] /\ Failed(q, r) /\ Ready(q, r)
      BY <1>1, <1>3, <1>8, <2>1, FailFacts DEF Fail
  <2>3. TypeOK'
      BY <1>4, <1>6, <1>8, <2>2 DEF Ready, TypeOK
  <2>4. StepOf(p, r) /\ o.op \notin Lenient
      BY <1>1, <1>3, <1>8, <2>2 DEF StepOf, Lenient
  <2>5. Shape' /\ Apart' /\ Stages' /\ Parked' /\ Balanced'
      BY <1>1, <1>2, <1>3, <1>8, <2>2, <2>3, <2>4, FailInv
  <2>6. Stored' /\ Backed' /\ RunningIsConnected'
      BY <1>3, <1>8, <2>2, StoresKept DEF Ready
  <2> QED  BY <2>5, <2>6 DEF Inv
<1> QED  BY <1>3, <1>7, <1>8 DEF Boot

\* The changes of the record, and the end of the VM.
LEMMA RecordInv ==
    ASSUME Inv, NEW p \in Procs, Record(p)
    PROVE  Inv'
<1>1. PICK q : q = proc[p]
    OBVIOUS
<1>2. PICK o : o = q.ops[1]
    OBVIOUS
<1>3. /\ q # Idle /\ Working(q) /\ Cur(p) = o /\ o \in Operation
      /\ o.op \in {"add", "stopped", "forget", "kill"}
      /\ rec' = [rec EXCEPT ![o.box] = CASE o.op = "add" -> "running"
                                         [] o.op = "stopped" -> "stopped"
                                         [] o.op = "forget" -> "none"
                                         [] OTHER -> @]
      /\ vm' = [vm EXCEPT ![o.box] = IF o.op = "kill" THEN NoAddr ELSE @]
      /\ well' = IF o.op \in {"add", "stopped", "forget"} THEN well \ {o.box} ELSE well
      /\ Done(p)
      /\ UNCHANGED <<file, tmp, dir, used, hist, count>>
  <2>1. q # Idle /\ Working(q) /\ Cur(p) = o /\ o \in Operation
      BY <1>1, <1>2, Cursor DEF Record
  <2> QED  BY <2>1 DEF Record
<1>4. /\ Shape /\ TypeOK /\ Stored /\ Backed /\ RunningIsConnected
      /\ rec \in [All -> {"none", "running", "stopped", "dead"}]
      /\ vm \in [All -> 0 .. Broadcast - 1]
    BY DEF Inv, Shape, TypeOK
<1>5. o.box \in All
    BY <1>2, <1>3, OwnBox DEF BoxOps
<1>6. PICK r : r = Next1(q)
    OBVIOUS
<1>7. proc' = [proc EXCEPT ![p] = r] /\ Moved(q, r) /\ Ready(q, r)
    BY <1>1, <1>3, <1>6, NextFacts DEF Done
<1>8. /\ rec' \in [All -> {"none", "running", "stopped", "dead"}]
      /\ \A x \in All : x # o.box => rec'[x] = rec[x]
      /\ o.op = "add" => rec'[o.box] = "running"
      /\ o.op = "kill" => rec'[o.box] = rec[o.box]
    BY <1>3, <1>4, <1>5
<1>9. /\ vm' \in [All -> 0 .. Broadcast - 1]
      /\ \A x \in All : x # o.box => vm'[x] = vm[x]
      /\ o.op = "kill" => vm'[o.box] = NoAddr
      /\ o.op # "kill" => vm'[o.box] = vm[o.box]
  <2>1. NoAddr \in 0 .. Broadcast - 1
      BY BroadcastFacts DEF NoAddr
  <2> QED  BY <1>3, <1>4, <1>5, <2>1
<1>10. TypeOK'
  <2>1. \A s \in Procs : proc'[s].ph \in {"get", "put", "rename", "rmdir"}
      BY <1>4, <1>7, Phases DEF Ready
  <2>2. well' \subseteq All
      BY <1>3, <1>4 DEF TypeOK
  <2> QED  BY <1>3, <1>4, <1>8, <1>9, <2>1, <2>2 DEF TypeOK
<1>11. StepOf(p, r)
    BY <1>1, <1>2, <1>3, <1>7, <1>8, <1>9 DEF StepOf
<1>12. Finished(o) /\ Returned(o)
    BY <1>3, <1>8, <1>9 DEF Finished, Returned
<1>13. Shape' /\ Apart' /\ Stages' /\ Parked' /\ Balanced'
    BY <1>1, <1>2, <1>7, <1>10, <1>11, <1>12, DoneInv
<1>14. Stored' /\ Backed'
  <2>1. Creating' => Creating
      BY <1>4, <1>7, NotCreating DEF Ready
  <2> QED  BY <1>3, <1>4, <2>1 DEF Stored, Backed, GoodNet, GoodVol, Valid
<1>15. RunningIsConnected'
  <2>1. \A x \in All : vm'[x] # NoAddr => vm'[x] = vm[x]
      BY <1>9
  <2> QED  BY <1>3, <1>4, <2>1 DEF RunningIsConnected
<1> QED  BY <1>13, <1>14, <1>15 DEF Inv

\* wait_for_healthy ends.
LEMMA WaitInv ==
    ASSUME Inv, NEW p \in Procs, Wait(p)
    PROVE  Inv'
<1>1. PICK q : q = proc[p]
    OBVIOUS
<1>2. PICK o : o = q.ops[1]
    OBVIOUS
<1>3. /\ q # Idle /\ Working(q) /\ Cur(p) = o /\ o.op = "wait"
      /\ UNCHANGED <<file, tmp, dir, rec, vm, well, used, hist>>
    BY <1>1, <1>2, Cursor DEF Wait
<1>4. Shape /\ TypeOK
    BY DEF Inv, Shape
<1>5. ASSUME NEW r, proc' = [proc EXCEPT ![p] = r], r = Idle \/ r.ph # "rename"
      PROVE  Stored' /\ Backed' /\ RunningIsConnected'
    BY <1>3, <1>5, StoresKept
<1>6. ASSUME NEW r, proc' = [proc EXCEPT ![p] = r], r = Idle \/ Working(r)
      PROVE  TypeOK' /\ StepOf(p, r)
  <2>1. \A s \in Procs : proc'[s].ph \in {"get", "put", "rename", "rmdir"}
      BY <1>4, <1>6, Phases
  <2> QED  BY <1>1, <1>3, <1>4, <1>6, <2>1 DEF TypeOK, StepOf
<1>7. CASE Done(p)
  <2>1. PICK r : r = Next1(q)
      OBVIOUS
  <2>2. proc' = [proc EXCEPT ![p] = r] /\ Moved(q, r) /\ Ready(q, r)
      BY <1>1, <1>3, <1>7, <2>1, NextFacts DEF Done
  <2>3. Finished(o) /\ Returned(o)
      BY <1>3 DEF Finished, Returned
  <2> QED  BY <1>1, <1>2, <1>5, <1>6, <2>2, <2>3, DoneInv DEF Ready, Inv
<1>8. CASE Fail(p)
  <2>1. PICK r : r = Err1(q)
      OBVIOUS
  <2>2. proc' = [proc EXCEPT ![p] = r] /\ Failed(q, r) /\ Ready(q, r)
      BY <1>1, <1>3, <1>8, <2>1, FailFacts DEF Fail
  <2>3. o.op \notin Lenient
      BY <1>3 DEF Lenient
  <2>4. TypeOK' /\ StepOf(p, r)
      BY <1>6, <2>2 DEF Ready
  <2>5. Shape' /\ Apart' /\ Stages' /\ Parked' /\ Balanced'
      BY <1>1, <1>2, <1>3, <2>2, <2>3, <2>4, FailInv
  <2> QED  BY <1>5, <2>2, <2>5 DEF Ready, Inv
<1> QED  BY <1>7, <1>8 DEF Wait


-----------------------------------------------------------------------------
(* Commands begin and end                                                  *)

\* A command begins.
LEMMA BeginInv ==
    ASSUME Inv, NEW p \in Procs, NEW q, NEW ids, Begin(p, q, ids),
           Working(q), q.ph = "get", ids \subseteq Boxes \cup Svcs,
           Owns(q) \subseteq used \cup ids,
           Svcs \subseteq used \cup ids \/ Svcs \cap (used \cup ids) = {},
           \A s \in Procs : s # p => Owns(proc[s]) \cap Owns(q) = {},
           Stage(q), Quiet => Held(q)
    PROVE  Inv'
<1>1. /\ proc[p].cmd = "idle" /\ proc' = [proc EXCEPT ![p] = q] /\ used' = used \cup ids
      /\ UNCHANGED <<file, tmp, dir, rec, vm, well, hist>>
    BY DEF Begin
<1>2. /\ Shape /\ TypeOK /\ Apart /\ Stages /\ Parked /\ Balanced
      /\ proc \in [Procs -> CmdRec] /\ q \in CmdRec
    BY DEF Inv, Shape, Working
<1>3. proc[p] = Idle
    BY <1>1, <1>2, WorkingNotIdle DEF Shape
<1>4. q # Idle /\ proc'[p] = q /\ \A s \in Procs : s # p => proc'[s] = proc[s]
    BY <1>1, <1>2, WorkingNotIdle
<1>5. Stored' /\ Backed' /\ RunningIsConnected'
    BY <1>1, <1>2, StoresKept
<1>6. TypeOK'
  <2>1. \A s \in Procs : proc'[s].ph \in {"get", "put", "rename", "rmdir"}
      BY <1>1, <1>2, Phases
  <2>2. used' \subseteq All
      BY <1>1, <1>2 DEF TypeOK, All
  <2> QED  BY <1>1, <1>2, <2>1, <2>2 DEF TypeOK
<1>7. Shape'
  <2>1. proc' \in [Procs -> CmdRec]
      BY <1>1, <1>2
  <2>2. ASSUME NEW s \in Procs
        PROVE  proc'[s] = Idle \/ (Working(proc'[s]) /\ Copied(proc'[s]))
      BY <1>2, <1>4 DEF Shape, Copied
  <2> QED  BY <1>6, <2>1, <2>2 DEF Shape, Working, Copied, Plan
<1>8. Apart'
  <2>1. ASSUME NEW s \in Procs, NEW t \in Procs, s # t
        PROVE  Owns(proc'[s]) \cap Owns(proc'[t]) = {}
      BY <1>2, <1>4, <2>1 DEF Apart
  <2>2. ASSUME NEW s \in Procs
        PROVE  Owns(proc'[s]) \subseteq used'
      BY <1>1, <1>2, <1>4 DEF Apart
  <2>3. \A x \in All \ used' : rec'[x] = "none" /\ vm'[x] = NoAddr
      BY <1>1, <1>2 DEF Apart
  <2>4. used' \subseteq Boxes \cup Svcs /\ (Svcs \subseteq used' \/ Svcs \cap used' = {})
      BY <1>1, <1>2 DEF Apart
  <2> QED  BY <2>1, <2>2, <2>3, <2>4 DEF Apart, Owns
<1>9. Stages'
  <2> SUFFICES ASSUME NEW s \in Procs, proc'[s] # Idle
               PROVE  Stage(proc[s])'
      BY DEF Stages
  <2>1. Stage(proc'[s])
      BY <1>2, <1>4 DEF Stages
  <2> QED  BY <1>1, <2>1 DEF Stage, DownFor
<1>10. Parked'
  <2> SUFFICES ASSUME "orphaned" \notin hist', NEW b \in All,
                      rec'[b] \in {"stopped", "dead"}, vm'[b] # NoAddr
               PROVE  \E s \in Procs : proc'[s].cmd = "start" /\ proc'[s].ops[1] = Op("add", b)
      BY DEF Parked, Op
  <2>1. PICK s \in Procs : proc[s].cmd = "start" /\ proc[s].ops[1] = Op("add", b)
      BY <1>1, <1>2 DEF Parked
  <2>2. s # p
      BY <1>1, <2>1
  <2> QED  BY <1>4, <2>1, <2>2
<1>11. Balanced'
  <2> SUFFICES ASSUME Quiet'
               PROVE  /\ \A s \in Procs : proc'[s] # Idle => Held(proc[s])'
                      /\ \A b \in All \ Stale : ~Worked(b)' => Resting(b)'
      BY DEF Balanced
  <2>1. Quiet
      BY <1>1 DEF Quiet
  <2>2. ASSUME NEW s \in Procs, proc'[s] # Idle
        PROVE  Held(proc[s])'
    <3>1. Held(proc'[s])
        BY <1>2, <1>4, <2>1, <2>2 DEF Balanced
    <3> QED  BY <1>1, <3>1 DEF Held, Clean
  <2>3. ASSUME NEW b \in All \ Stale, ~Worked(b)'
        PROVE  Resting(b)'
    <3>1. ~Worked(b)
        BY <1>3, <1>4, <2>3 DEF Worked
    <3>2. Resting(b)
        BY <1>2, <2>1, <3>1 DEF Balanced
    <3> QED  BY <1>1, <3>2 DEF Resting, Clean
  <2> QED  BY <2>2, <2>3
<1> QED  BY <1>5, <1>7, <1>8, <1>9, <1>10, <1>11 DEF Inv

\* A command as it begins.
LEMMA CmdFacts ==
    ASSUME NEW cmd, cmd \in Commands \ {"idle"}, NEW ops, Plan(cmd, ops), NEW q, q = Cmd(cmd, ops)
    PROVE  /\ q \in CmdRec /\ q.cmd = cmd /\ q.ops = ops /\ q.left = {} /\ q.ph = "get"
           /\ cmd \notin Compose => Working(q) /\ Owns(q) = {ops[1].box} \ {NoBox}
<1>1. ops \in Seq(Operation)
    BY DEF Plan
<1>2. Idle \in CmdRec
    BY DEF Idle, CmdRec, Commands, Entry
<1>3. /\ q \in CmdRec /\ q.cmd = cmd /\ q.ops = ops /\ q.left = {} /\ q.ph = "get"
    BY <1>1, <1>2 DEF Cmd, Idle, CmdRec
<1>4. cmd \notin Compose => Working(q)
    BY <1>3 DEF Working
<1>5. cmd \notin Compose => Owns(q) = {ops[1].box} \ {NoBox}
    BY <1>3, <1>4, WorkingNotIdle DEF Owns
<1> QED  BY <1>3, <1>4, <1>5

\* A box that is free, or not in use yet, belongs to no command.
LEMMA FreeBox ==
    ASSUME Inv, NEW b \in All, Free(b) \/ b \notin used
    PROVE  ~Worked(b) /\ \A s \in Procs : b \notin Owns(proc[s])
<1>1. ASSUME NEW s \in Procs
      PROVE  b \notin Owns(proc[s])
  <2>1. CASE b \notin used
      BY <2>1 DEF Inv, Apart
  <2>2. CASE Free(b) /\ proc[s] # Idle
    <3>1. Working(proc[s])
        BY <2>2 DEF Inv, Shape
    <3>2. 1 \in DOMAIN proc[s].ops
        BY <3>1 DEF Working, Plan
    <3>3. proc[s].ops[1].box # b
        BY <2>2, <3>2 DEF Free
    <3> QED  BY <2>2, <3>3 DEF Owns, Free, NoCompose, Compose
  <2>3. CASE proc[s] = Idle
      BY <2>3 DEF Owns
  <2> QED  BY <2>1, <2>2, <2>3
<1>2. ~Worked(b)
  <2> SUFFICES ASSUME NEW s \in Procs, proc[s] # Idle, proc[s].ops[1].box = b
               PROVE  FALSE
      BY DEF Worked
  <2>1. Working(proc[s])
      BY DEF Inv, Shape
  <2> QED  BY <1>1, <2>1, OwnBox
<1> QED  BY <1>1, <1>2


\* run, start, stop and rm begin.
LEMMA RunInv ==
    ASSUME Inv, NEW p \in Procs, Run(p)
    PROVE  Inv'
<1>1. PICK b \in Boxes \ used : Begin(p, Cmd("run", RunOps(b)), {b})
    BY DEF Run
<1>2. PICK q : q = Cmd("run", RunOps(b))
    OBVIOUS
<1>3. /\ b \in All \ Stale /\ b # NoBox /\ "run" \in Commands \ {"idle"} /\ "run" \notin Compose
      /\ "run" # "start" /\ b \notin Svcs
    BY NoBoxAssumption, ResourcesAssumption DEF All, Commands, Compose
<1>4. Plan("run", RunOps(b)) /\ RunOps(b)[1] = Op("resolve", b)
    BY <1>3, RunPlan
<1>5. /\ Working(q) /\ q.ph = "get" /\ Owns(q) = {b} /\ q.cmd = "run" /\ q.ops[1].op = "resolve"
      /\ q.ops[1].box = b
  <2>1. PICK ops : ops = RunOps(b)
      OBVIOUS
  <2>2. ops[1].box = b /\ ops[1].op = "resolve"
      BY <1>4, <2>1 DEF Op
  <2>3. /\ Working(q) /\ q.ph = "get" /\ Owns(q) = {ops[1].box} \ {NoBox} /\ q.cmd = "run"
        /\ q.ops = ops
      BY <1>2, <1>3, <1>4, <2>1, CmdFacts
  <2> QED  BY <1>3, <2>2, <2>3
<1>6. ~Worked(b) /\ \A s \in Procs : b \notin Owns(proc[s])
    BY <1>1, <1>3, FreeBox
<1>7. rec[b] = "none" /\ vm[b] = NoAddr
    BY <1>1, <1>3 DEF Inv, Apart
<1>8. Stage(q)
    BY <1>5, <1>7 DEF Stage
<1>9. Quiet => Held(q)
  <2>1. Quiet => Clean(b)
      BY <1>3, <1>6, <1>7 DEF Inv, Balanced, Resting
  <2> QED  BY <1>5, <2>1 DEF Held
<1>10. Svcs \subseteq used \cup {b} \/ Svcs \cap (used \cup {b}) = {}
    BY <1>3 DEF Inv, Apart
<1>11. Begin(p, q, {b})
    BY <1>1, <1>2
<1> QED  BY <1>5, <1>6, <1>8, <1>9, <1>10, <1>11, BeginInv

\* A box with a record is in use, and not one that was left behind.
LEMMA RecordedUsed ==
    ASSUME Inv, NEW b \in All, rec[b] # "none"
    PROVE  b \in used /\ b \in All \ Stale /\ b # NoBox
  BY NoBoxAssumption, ResourcesAssumption DEF Inv, Apart

\* start begins.
LEMMA StartInv ==
    ASSUME Inv, NEW p \in Procs, Start(p)
    PROVE  Inv'
<1>1. PICK b \in All : /\ rec[b] \in {"stopped", "dead"} /\ Free(b)
                       /\ Begin(p, Cmd("start", StartOps(b)), {})
    BY DEF Start
<1>2. PICK q : q = Cmd("start", StartOps(b))
    OBVIOUS
<1>3. /\ b \in All \ Stale /\ b # NoBox /\ "start" \in Commands \ {"idle"} /\ "start" \notin Compose
      /\ b \in used
    BY <1>1, RecordedUsed DEF Commands, Compose
<1>4. Plan("start", StartOps(b)) /\ StartOps(b)[1] = Op("ensure", b)
    BY <1>3, StartPlan
<1>5. /\ Working(q) /\ q.ph = "get" /\ Owns(q) = {b} /\ q.cmd = "start" /\ q.ops[1].op = "ensure"
      /\ q.ops[1].box = b
  <2>1. PICK ops : ops = StartOps(b)
      OBVIOUS
  <2>2. ops[1].box = b /\ ops[1].op = "ensure"
      BY <1>4, <2>1 DEF Op
  <2>3. /\ Working(q) /\ q.ph = "get" /\ Owns(q) = {ops[1].box} \ {NoBox} /\ q.cmd = "start"
        /\ q.ops = ops
      BY <1>2, <1>3, <1>4, <2>1, CmdFacts
  <2> QED  BY <1>3, <2>2, <2>3
<1>6. ~Worked(b) /\ \A s \in Procs : b \notin Owns(proc[s])
    BY <1>1, FreeBox
<1>7. "orphaned" \notin hist => vm[b] = NoAddr
  <2> SUFFICES ASSUME "orphaned" \notin hist, vm[b] # NoAddr
               PROVE  FALSE
      OBVIOUS
  <2>1. PICK s \in Procs : proc[s].cmd = "start" /\ proc[s].ops[1] = Op("add", b)
      BY <1>1 DEF Inv, Parked
  <2>2. proc[s] # Idle /\ proc[s].ops[1].box = b
      BY <2>1 DEF Idle, Op
  <2> QED  BY <1>6, <2>2 DEF Worked
<1>8. Stage(q)
    BY <1>5, <1>7 DEF Stage
<1>9. Quiet => Held(q)
  <2>1. Quiet /\ rec[b] # "dead" => Clean(b)
      BY <1>1, <1>3, <1>6 DEF Inv, Balanced, Resting
  <2> QED  BY <1>5, <2>1 DEF Held
<1>10. Svcs \subseteq used \cup {} \/ Svcs \cap (used \cup {}) = {}
    BY DEF Inv, Apart
<1>11. Begin(p, q, {})
    BY <1>1, <1>2
<1> QED  BY <1>3, <1>5, <1>6, <1>8, <1>9, <1>10, <1>11, BeginInv

\* stop or rm begins.
LEMMA StopRmInv ==
    ASSUME Inv, NEW p \in Procs, Stop(p) \/ Rm(p)
    PROVE  Inv'
<1>0. PICK b \in All : \E cmd \in {"stop", "rm"}, ops \in {StopOps(b), RmOps(b)} :
        rec[b] # "none" /\ Free(b) /\ Begin(p, Cmd(cmd, ops), {})
    BY DEF Stop, Rm
<1>1. PICK cmd \in {"stop", "rm"}, ops \in {StopOps(b), RmOps(b)} :
        rec[b] # "none" /\ Free(b) /\ Begin(p, Cmd(cmd, ops), {})
    BY <1>0
<1>2. PICK q : q = Cmd(cmd, ops)
    OBVIOUS
<1>3. /\ b \in All \ Stale /\ b # NoBox /\ cmd \in Commands \ {"idle"} /\ cmd \notin Compose
      /\ b \in used /\ cmd # "start"
    BY <1>1, RecordedUsed DEF Commands, Compose
<1>4. Plan(cmd, ops) /\ ops[1] = Op("kill", b)
    BY <1>3, RmPlan
<1>5. /\ Working(q) /\ q.ph = "get" /\ Owns(q) = {b} /\ q.cmd = cmd /\ q.ops[1].op = "kill"
  <2>1. ops[1].box = b /\ ops[1].op = "kill"
      BY <1>4 DEF Op
  <2>2. /\ Working(q) /\ q.ph = "get" /\ Owns(q) = {ops[1].box} \ {NoBox} /\ q.cmd = cmd
        /\ q.ops = ops
      BY <1>2, <1>3, <1>4, CmdFacts
  <2> QED  BY <1>3, <2>1, <2>2
<1>6. \A s \in Procs : b \notin Owns(proc[s])
    BY <1>1, FreeBox
<1>7. Stage(q) /\ Held(q)
    BY <1>1, <1>5 DEF Stage, Held, DownFor
<1>8. Svcs \subseteq used \cup {} \/ Svcs \cap (used \cup {}) = {}
    BY DEF Inv, Apart
<1>9. Begin(p, q, {})
    BY <1>1, <1>2
<1> QED  BY <1>3, <1>5, <1>6, <1>7, <1>8, <1>9, BeginInv

\* compose up and down begin.
LEMMA UpInv ==
    ASSUME Inv, NEW p \in Procs, Up(p)
    PROVE  Inv'
<1>1. Svcs \cap used = {} /\ Begin(p, [Cmd("up", UpOps) EXCEPT !.left = Svcs], Svcs)
    BY DEF Up
<1>2. PICK q : q = [Cmd("up", UpOps) EXCEPT !.left = Svcs]
    OBVIOUS
<1>3. /\ "up" \in Commands \ {"idle"} /\ "up" \in Compose /\ NoBox \notin Svcs /\ Svcs \subseteq All
    BY NoBoxAssumption DEF Commands, Compose, All
<1>4. Plan("up", UpOps) /\ UpOps[1] = Op("ensurenet", NoBox)
    BY OtherPlans
<1>5. Cmd("up", UpOps) \in CmdRec /\ Cmd("up", UpOps).cmd = "up" /\ Cmd("up", UpOps).ops = UpOps
      /\ Cmd("up", UpOps).ph = "get"
  <2>1. PICK u : u = Cmd("up", UpOps)
      OBVIOUS
  <2>2. u \in CmdRec /\ u.cmd = "up" /\ u.ops = UpOps /\ u.ph = "get"
      BY <1>3, <1>4, <2>1, CmdFacts
  <2> QED  BY <2>1, <2>2
<1>6. /\ q \in CmdRec /\ q.cmd = "up" /\ q.ops = UpOps /\ q.left = Svcs /\ q.ph = "get"
    BY <1>2, <1>5 DEF CmdRec
<1>7. Working(q) /\ q.ops[1].op = "ensurenet"
    BY <1>3, <1>4, <1>6 DEF Working, Op
<1>8. Owns(q) = Svcs
    BY <1>3, <1>6, <1>7, WorkingNotIdle DEF Owns
<1>9. \A s \in Procs : Owns(proc[s]) \cap Owns(q) = {}
    BY <1>1, <1>8 DEF Inv, Apart
<1>10. Stage(q)
  <2>1. \A x \in Svcs : rec[x] = "none" /\ vm[x] = NoAddr
      BY <1>1, <1>3 DEF Inv, Apart
  <2> QED  BY <1>6, <1>7, <2>1 DEF Stage, DownFor
<1>11. Held(q)
    BY <1>7 DEF Held
<1>12. Begin(p, q, Svcs)
    BY <1>1, <1>2
<1> QED  BY <1>6, <1>7, <1>8, <1>9, <1>10, <1>11, <1>12, BeginInv

\* compose down begins.
LEMMA DownInv ==
    ASSUME Inv, NEW p \in Procs, Down(p)
    PROVE  Inv'
<1>1. PICK boxes : boxes = {x \in Svcs : rec[x] # "none"}
    OBVIOUS
<1>2. PICK b : b = LastOf(boxes)
    OBVIOUS
<1>3. /\ boxes # {} /\ \A x \in Svcs : Free(x)
      /\ Begin(p, [Cmd("down", RmOps(b)) EXCEPT !.left = boxes \ {b}, !.made = TRUE], {})
    BY <1>1, <1>2 DEF Down
<1>4. PICK q : q = [Cmd("down", RmOps(b)) EXCEPT !.left = boxes \ {b}, !.made = TRUE]
    OBVIOUS
<1>5. b \in boxes /\ boxes \subseteq Svcs /\ Svcs \subseteq All
    BY <1>1, <1>2, <1>3, Picked DEF All
<1>6. "down" \in Commands \ {"idle"} /\ "down" \in Compose /\ "down" # "start"
    BY DEF Commands, Compose
<1>7. Plan("down", RmOps(b)) /\ RmOps(b)[1] = Op("kill", b)
    BY <1>5, <1>6, RmPlan
<1>8. /\ Cmd("down", RmOps(b)) \in CmdRec /\ Cmd("down", RmOps(b)).cmd = "down"
      /\ Cmd("down", RmOps(b)).ops = RmOps(b) /\ Cmd("down", RmOps(b)).ph = "get"
  <2>1. PICK u : u = Cmd("down", RmOps(b))
      OBVIOUS
  <2>2. u \in CmdRec /\ u.cmd = "down" /\ u.ops = RmOps(b) /\ u.ph = "get"
      BY <1>6, <1>7, <2>1, CmdFacts
  <2> QED  BY <2>1, <2>2
<1>9. /\ q \in CmdRec /\ q.cmd = "down" /\ q.ops = RmOps(b) /\ q.left = boxes \ {b} /\ q.ph = "get"
    BY <1>4, <1>5, <1>8 DEF CmdRec
<1>10. Working(q) /\ q.ops[1].op = "kill"
    BY <1>5, <1>6, <1>7, <1>9 DEF Working, Op
<1>11. Owns(q) = Svcs
    BY <1>6, <1>9, <1>10, WorkingNotIdle DEF Owns
<1>12. \A s \in Procs : Owns(proc[s]) \cap Owns(q) = {}
  <2>1. ASSUME NEW x \in Svcs
        PROVE  \A s \in Procs : x \notin Owns(proc[s])
      BY <1>3, <1>5, FreeBox
  <2> QED  BY <1>11, <2>1
<1>13. Svcs \subseteq used
  <2>1. b \in used
      BY <1>1, <1>5, RecordedUsed
  <2> QED  BY <1>5, <2>1 DEF Inv, Apart
<1>14. Stage(q) /\ Held(q)
    BY <1>9, <1>10 DEF Stage, Held, DownFor
<1>15. Begin(p, q, {})
    BY <1>3, <1>4
<1> QED  BY <1>9, <1>10, <1>11, <1>12, <1>13, <1>14, <1>15, BeginInv

\* network create and rm, and volume rm begin.
LEMMA StoreCmdInv ==
    ASSUME Inv, NEW p \in Procs, NetCreate(p) \/ NetRm(p) \/ VolRm(p)
    PROVE  Inv'
<1>1. PICK cmd \in {"net", "vol"}, o \in {"netcreate", "netrm", "volrm", "volrmf"} :
        Plan(cmd, <<Op(o, NoBox)>>) /\ Begin(p, Cmd(cmd, <<Op(o, NoBox)>>), {})
    BY OtherPlans DEF NetCreate, NetRm, VolRm
<1>2. PICK q : q = Cmd(cmd, <<Op(o, NoBox)>>)
    OBVIOUS
<1>3. cmd \in Commands \ {"idle"} /\ cmd \notin Compose /\ cmd # "up"
    BY DEF Commands, Compose
<1>4. /\ Working(q) /\ q.ph = "get" /\ Owns(q) = {} /\ q.cmd = cmd /\ q.ops[1].op = o
  <2>1. PICK ops : ops = <<Op(o, NoBox)>>
      OBVIOUS
  <2>2. ops[1].box = NoBox /\ ops[1].op = o
      BY <2>1 DEF Op
  <2>3. /\ Working(q) /\ q.ph = "get" /\ Owns(q) = {ops[1].box} \ {NoBox} /\ q.cmd = cmd
        /\ q.ops = ops
      BY <1>1, <1>2, <1>3, <2>1, CmdFacts
  <2> QED  BY <2>2, <2>3
<1>5. Stage(q) /\ Held(q)
    BY <1>3, <1>4 DEF Stage, Held, DownFor
<1>6. Svcs \subseteq used \cup {} \/ Svcs \cap (used \cup {}) = {}
    BY DEF Inv, Apart
<1>7. Begin(p, q, {})
    BY <1>1, <1>2
<1> QED  BY <1>4, <1>5, <1>6, <1>7, BeginInv


\* A command is killed.
LEMMA KillInv ==
    ASSUME Inv, NEW p \in Procs, Kill(p)
    PROVE  Inv'
<1>1. /\ proc[p].cmd # "idle" /\ proc' = [proc EXCEPT ![p] = Idle]
      /\ hist' = hist \cup {"killed"}
                   \cup (IF proc[p].cmd = "start" /\ Cur(p).op = "add" THEN {"orphaned"} ELSE {})
      /\ UNCHANGED <<file, tmp, dir, rec, vm, well, used>>
    BY DEF Kill
<1>2. proc[p] # Idle /\ Cur(p) = proc[p].ops[1]
    BY <1>1, Cursor
<1>3. Shape /\ TypeOK /\ Apart /\ Stages /\ Parked /\ Stored /\ Backed /\ RunningIsConnected
    BY DEF Inv, Shape
<1>4. hist \subseteq hist' /\ ~Quiet'
    BY <1>1 DEF Quiet
<1>5. TypeOK'
  <2>1. \A s \in Procs : proc'[s].ph \in {"get", "put", "rename", "rmdir"}
      BY <1>1, <1>3, Phases
  <2>2. hist' \subseteq {"net", "vol", "forced", "razed", "late", "killed", "orphaned"}
      BY <1>1, <1>3 DEF TypeOK
  <2> QED  BY <1>1, <1>3, <2>1, <2>2 DEF TypeOK
<1>6. StepOf(p, Idle)
    BY <1>1, <1>2, <1>4 DEF StepOf
<1>7. Shape' /\ Apart' /\ Stages'
  <2>1. PICK r : r = Idle
      OBVIOUS
  <2>2. StepOf(p, r)
      BY <1>6, <2>1 DEF StepOf
  <2> QED  BY <1>3, <1>5, <2>1, <2>2, StepShape
<1>8. Parked'
  <2> SUFFICES ASSUME "orphaned" \notin hist', NEW b \in All,
                      rec'[b] \in {"stopped", "dead"}, vm'[b] # NoAddr
               PROVE  \E s \in Procs : proc'[s].cmd = "start" /\ proc'[s].ops[1] = Op("add", b)
      BY DEF Parked, Op
  <2>1. PICK s \in Procs : proc[s].cmd = "start" /\ proc[s].ops[1] = Op("add", b)
      BY <1>1, <1>3, <1>4 DEF Parked
  <2>2. s # p
      BY <1>1, <1>2, <2>1 DEF Op
  <2>3. proc'[s] = proc[s]
      BY <1>1, <1>3, <2>2 DEF Shape
  <2> QED  BY <2>1, <2>3
<1>9. Stored' /\ Backed' /\ RunningIsConnected'
  <2>1. Creating' => Creating
      BY <1>1, <1>3, NotCreating
  <2> QED  BY <1>1, <1>3, <1>4, <2>1 DEF Stored, Backed, RunningIsConnected, GoodNet, GoodVol, Valid
<1>10. Balanced'
    BY <1>4 DEF Balanced
<1> QED  BY <1>7, <1>8, <1>9, <1>10 DEF Inv

\* The commands, where neither they nor what they work on changes.
LEMMA ProcsKept ==
    ASSUME Inv, TypeOK', UNCHANGED <<file, tmp, dir, proc, used, hist>>,
           \A b \in All :
             \/ rec'[b] = rec[b] /\ vm'[b] = vm[b]
             \/ Free(b) /\ b \in used /\ rec'[b] = "dead" /\ vm'[b] = NoAddr
    PROVE  Inv'
<1>1. /\ Shape /\ Apart /\ Stages /\ Parked /\ Stored /\ Backed /\ Balanced /\ RunningIsConnected
      /\ used \subseteq All
    BY DEF Inv, Shape, TypeOK
<1>2. ASSUME NEW s \in Procs, NEW b \in Owns(proc[s])
      PROVE  b \in All /\ rec'[b] = rec[b] /\ vm'[b] = vm[b]
  <2>1. b \in used
      BY <1>1 DEF Apart
  <2>2. b \in All /\ ~Free(b)
      BY <1>1, <1>2, <2>1, FreeBox
  <2> QED  BY <2>2
<1>3. Shape'
    BY <1>1 DEF Shape, Working, Copied, Plan
<1>4. Apart'
    BY <1>1 DEF Apart, Owns
<1>5. Stages'
  <2> SUFFICES ASSUME NEW s \in Procs, proc'[s] # Idle
               PROVE  Stage(proc[s])'
      BY DEF Stages
  <2>1. PICK q : q = proc[s]
      OBVIOUS
  <2>2. Working(q) /\ Stage(q)
      BY <1>1, <2>1 DEF Shape, Stages
  <2>3. Stage(q)'
      BY <1>2, <2>1, <2>2, StageKept
  <2> QED  BY <2>1, <2>3 DEF Stage, DownFor
<1>6. Parked'
  <2> SUFFICES ASSUME "orphaned" \notin hist', NEW b \in All,
                      rec'[b] \in {"stopped", "dead"}, vm'[b] # NoAddr
               PROVE  \E s \in Procs : proc'[s].cmd = "start" /\ proc'[s].ops[1] = Op("add", b)
      BY DEF Parked, Op
  <2>1. rec'[b] = rec[b] /\ vm'[b] = vm[b]
      OBVIOUS
  <2> QED  BY <1>1, <2>1 DEF Parked
<1>7. Stored' /\ Backed'
    BY <1>1 DEF Stored, Backed, Creating, Cur, GoodNet, GoodVol, Valid
<1>8. Balanced'
  <2> SUFFICES ASSUME Quiet'
               PROVE  /\ \A s \in Procs : proc'[s] # Idle => Held(proc[s])'
                      /\ \A b \in All \ Stale : ~Worked(b)' => Resting(b)'
      BY DEF Balanced
  <2>1. Quiet
      BY DEF Quiet
  <2>2. ASSUME NEW s \in Procs, proc'[s] # Idle
        PROVE  Held(proc[s])'
    <3>1. Held(proc[s]) /\ Working(proc[s])
        BY <1>1, <2>1, <2>2 DEF Balanced, Shape
    <3>2. proc[s].ops[1].op = "ensure" => rec'[proc[s].ops[1].box] = rec[proc[s].ops[1].box]
      <4>1. proc[s].ops[1].op = "ensure" => proc[s].ops[1].box \in Owns(proc[s])
          BY <3>1, OwnBox DEF BoxOps
      <4> QED  BY <1>2, <4>1
    <3> QED  BY <3>1, <3>2 DEF Held, Clean
  <2>3. ASSUME NEW b \in All \ Stale, ~Worked(b)'
        PROVE  Resting(b)'
    <3>1. ~Worked(b)
        BY <2>3 DEF Worked
    <3>2. Resting(b)
        BY <1>1, <2>1, <3>1 DEF Balanced
    <3>3. (Clean(b))' <=> Clean(b)
        BY DEF Clean
    <3> QED  BY <3>2, <3>3 DEF Resting
  <2> QED  BY <2>2, <2>3
<1>9. RunningIsConnected'
    BY <1>1 DEF RunningIsConnected
<1> QED  BY <1>3, <1>4, <1>5, <1>6, <1>7, <1>8, <1>9 DEF Inv

\* A box becomes healthy, or its workload ends.
LEMMA EnvInv ==
    ASSUME Inv, Healthy \/ Exit
    PROVE  Inv'
<1>1. /\ TypeOK /\ rec \in [All -> {"none", "running", "stopped", "dead"}]
      /\ vm \in [All -> 0 .. Broadcast - 1] /\ NoAddr \in 0 .. Broadcast - 1
    BY BroadcastFacts DEF Inv, Shape, TypeOK, NoAddr
<1>2. CASE Healthy
  <2>1. well' \subseteq All /\ UNCHANGED <<file, tmp, dir, rec, vm, proc, used, hist>>
      BY <1>1, <1>2 DEF Healthy, TypeOK
  <2>2. TypeOK'
      BY <1>1, <2>1 DEF TypeOK
  <2> QED  BY <2>1, <2>2, ProcsKept
<1>3. CASE Exit
  <2>1. PICK b \in All : /\ rec[b] = "running" /\ Free(b)
                         /\ rec' = [rec EXCEPT ![b] = "dead"] /\ vm' = [vm EXCEPT ![b] = NoAddr]
      BY <1>3 DEF Exit
  <2>2. UNCHANGED <<file, tmp, dir, well, proc, used, hist>>
      BY <1>3 DEF Exit
  <2>3. b \in used
      BY <2>1, RecordedUsed
  <2>4. /\ rec' \in [All -> {"none", "running", "stopped", "dead"}]
        /\ vm' \in [All -> 0 .. Broadcast - 1]
        /\ rec'[b] = "dead" /\ vm'[b] = NoAddr
        /\ \A x \in All : x # b => rec'[x] = rec[x] /\ vm'[x] = vm[x]
      BY <1>1, <2>1
  <2>5. TypeOK'
      BY <1>1, <2>2, <2>4 DEF TypeOK
  <2>6. \A x \in All : \/ rec'[x] = rec[x] /\ vm'[x] = vm[x]
                       \/ Free(x) /\ x \in used /\ rec'[x] = "dead" /\ vm'[x] = NoAddr
      BY <2>1, <2>3, <2>4
  <2> QED  BY <2>2, <2>5, <2>6, ProcsKept
<1> QED  BY <1>2, <1>3


-----------------------------------------------------------------------------
(* The beginning                                                           *)

\* A network with old endpoints is one that some sequence of connects made.
LEMMA ConnectedGood ==
    ASSUME NEW S \in {{}, Stale}, NEW n \in ConnectedAll(S)
    PROVE  GoodNet(n) /\ n.ex /\ \A b \in All \ S : n.eps[b] = NoAddr
<1>1. PICK k \in Nat : k = Cardinality(S) /\ k + 1 < Broadcast
  <2>1. PICK m \in Nat : m = Cardinality(Stale) /\ m + 1 < Broadcast
      BY StaleAssumption, FS_CardinalityType
  <2>2. CASE S = {}
      BY <2>1, <2>2, FS_EmptySet, BroadcastFacts
  <2>3. CASE S = Stale
      BY <2>1, <2>3
  <2> QED  BY <2>2, <2>3
<1>2. PICK f \in Bijection(S, 2 .. k + 1) :
        n = [NewNet EXCEPT !.eps = [b \in All |-> IF b \in S THEN f[b] ELSE NoAddr]]
    BY <1>1 DEF ConnectedAll
<1>3. f \in [S -> 2 .. k + 1] /\ \A a, b \in S : f[a] = f[b] => a = b
    BY <1>2 DEF Bijection, Injection, IsInjective
<1>4. \A b \in S : f[b] \in Nat /\ f[b] > 1 /\ f[b] < Broadcast
    BY <1>1, <1>3, BroadcastFacts
<1>5. n.ex = TRUE /\ n.eps = [b \in All |-> IF b \in S THEN f[b] ELSE NoAddr]
    BY <1>2 DEF NewNet
<1>6. \A b \in All : n.eps[b] = IF b \in S THEN f[b] ELSE NoAddr
    BY <1>5
<1>7. n \in Net
  <2>1. PICK e : e = [b \in All |-> IF b \in S THEN f[b] ELSE NoAddr]
      OBVIOUS
  <2>2. e \in [All -> 0 .. Broadcast - 1]
      BY <1>4, <2>1, BroadcastFacts DEF NoAddr
  <2>3. n = [ex |-> TRUE, eps |-> e]
      BY <1>2, <2>1 DEF NewNet
  <2> QED  BY <2>2, <2>3 DEF Net
<1>8. Valid(n)
  <2> SUFFICES ASSUME NEW b \in All, n.eps[b] # NoAddr
               PROVE  /\ n.ex /\ n.eps[b] > Gateway /\ n.eps[b] < Broadcast
                      /\ \A x \in All : x # b => n.eps[x] # n.eps[b]
      BY DEF Valid
  <2>1. b \in S /\ n.eps[b] = f[b]
      BY <1>6
  <2>2. \A x \in All : x # b => n.eps[x] # n.eps[b]
      BY <1>3, <1>4, <1>6, <2>1 DEF NoAddr
  <2> QED  BY <1>4, <1>5, <2>1, <2>2 DEF Gateway
<1> QED  BY <1>5, <1>6, <1>7, <1>8 DEF GoodNet

\* The invariant holds at the beginning.
LEMMA InitInv == Init => Inv
<1> SUFFICES ASSUME Init PROVE Inv
    OBVIOUS
<1>0. PICK S \in {{}, Stale} : \E n \in ConnectedAll(S) : file = [net |-> n, vol |-> NoVol]
    BY DEF Init
<1>1. PICK n \in ConnectedAll(S) : file = [net |-> n, vol |-> NoVol]
    BY <1>0
<1>2. /\ file.net = n /\ file.vol = NoVol /\ GoodNet(n) /\ n.ex
      /\ \A b \in All \ Stale : n.eps[b] = NoAddr
    BY <1>1, ConnectedGood
<1>3. GoodVol(NoVol) /\ NoVol.users = {} /\ NoVol.ex = FALSE
    BY DEF GoodVol, NoVol, Vol
<1>4. \A b \in All \ Stale : Clean(b)
    BY <1>2, <1>3 DEF Clean
<1>5. /\ tmp = [net |-> <<>>, vol |-> <<>>] /\ dir = FALSE /\ well = {} /\ used = {} /\ hist = {}
      /\ rec = [b \in All |-> "none"] /\ vm = [b \in All |-> NoAddr]
      /\ proc = [p \in Procs |-> Idle]
    BY DEF Init
<1>6. \A p \in Procs : proc[p] = Idle
    BY <1>5
<1>7. Idle.cmd = "idle" /\ Idle.ph = "get" /\ Idle \in CmdRec
    BY DEF Idle, CmdRec, Commands, Entry
<1>8. NoAddr \in 0 .. Broadcast - 1
    BY BroadcastFacts DEF NoAddr
<1>9. TypeOK
  <2>1. file \in [net : Net, vol : Vol]
      BY <1>1, <1>2, <1>3 DEF GoodNet, GoodVol
  <2> QED  BY <1>5, <1>6, <1>7, <1>8, <2>1 DEF TypeOK
<1>10. Shape
    BY <1>5, <1>6, <1>7, <1>9 DEF Shape
<1>11. Stored
    BY <1>2, <1>3, <1>5 DEF Stored
<1>12. Apart
    BY <1>5, <1>6 DEF Apart, Owns
<1>13. Stages /\ Parked
    BY <1>5, <1>6 DEF Stages, Parked
<1>14. Backed
    BY <1>2, <1>3, <1>5, <1>6, <1>7 DEF Backed, Creating, GoodVol, NoVol
<1>15. Balanced
    BY <1>4, <1>5, <1>6 DEF Balanced, Resting
<1>16. RunningIsConnected
    BY <1>5 DEF RunningIsConnected
<1> QED  BY <1>10, <1>11, <1>12, <1>13, <1>14, <1>15, <1>16 DEF Inv

\* No step breaks the invariant.
LEMMA NextInv == Inv /\ [Next]_vars => Inv'
<1> SUFFICES ASSUME Inv, [Next]_vars PROVE Inv'
    OBVIOUS
<1>1. ASSUME NEW p \in Procs, Command(p)
      PROVE  Inv'
    BY <1>1, RunInv, StartInv, StopRmInv, UpInv, DownInv, StoreCmdInv DEF Command
<1>2. ASSUME NEW p \in Procs, Step(p)
      PROVE  Inv'
    BY <1>2, GetInv, PutInv, RenameInv, RmDirInv, BootInv, RecordInv, WaitInv DEF Step
<1>3. ASSUME NEW p \in Procs, Kill(p)
      PROVE  Inv'
    BY <1>3, KillInv
<1>4. CASE Healthy \/ Exit
    BY <1>4, EnvInv
<1>5. CASE UNCHANGED vars
  <2>1. UNCHANGED <<file, tmp, dir, rec, vm, well, proc, used, hist, count>>
      BY <1>5 DEF vars
  <2>2. TypeOK'
      BY <2>1 DEF Inv, Shape, TypeOK
  <2> QED  BY <2>1, <2>2, ProcsKept
<1> QED  BY <1>1, <1>2, <1>3, <1>4, <1>5 DEF Next

-----------------------------------------------------------------------------
(* The theorems                                                            *)

\* The invariant holds in every reachable state.
THEOREM Invariance == Spec => []Inv
<1> QED  BY InitInv, NextInv, PTL DEF Spec

\* Every variable keeps its type.
THEOREM TypeCorrect == Spec => []TypeOK
<1>1. Inv => TypeOK
    BY DEF Inv, Shape
<1> QED  BY <1>1, Invariance, PTL

\* However commands interleave, fail and die, the saved endpoints have addresses of
\* their own, neither the gateway's nor the broadcast address: allocate is asked about
\* a consistent copy, and every file that is written is such a copy.
THEOREM Endpoints == Spec => []EndpointsValid
<1>1. Inv => EndpointsValid
    BY DEF Inv, Stored, GoodNet, Valid, EndpointsValid
<1> QED  BY <1>1, Invariance, PTL

\* The address a VM runs with stays reserved for its box.
THEOREM Connected == Spec => []RunningIsConnected
<1>1. Inv => RunningIsConnected
    BY DEF Inv
<1> QED  BY <1>1, Invariance, PTL

\* Failed and finished commands have given back all that their boxes do not need.
THEOREM GivenBack == Spec => []NothingLeftBehind
<1>1. ASSUME Inv PROVE NothingLeftBehind
  <2>1. Balanced /\ Shape
      BY <1>1 DEF Inv
  <2>2. ASSUME \A p \in Procs : proc[p].cmd = "idle"
        PROVE  \A p \in Procs : proc[p] = Idle
      BY <2>1, <2>2 DEF Shape, Working
  <2>3. ASSUME \A p \in Procs : proc[p] = Idle
        PROVE  \A b \in All : ~Worked(b)
      BY <2>3 DEF Worked
  <2> QED  BY <2>1, <2>2, <2>3 DEF NothingLeftBehind, Balanced, Quiet, Resting, Clean
<1> QED  BY <1>1, Invariance, PTL


\* A step may take a volume away: the exceptions of AttachedKept.
MayTake ==
    \/ "orphaned" \in hist
    \/ \E p \in Procs : proc'[p] # proc[p] /\ (Overwrites(p) \/ Forces(p))

\* What a step may not do to the volume of a running VM: the body of AttachedKept.
Kept ==
    \A b \in All : vm[b] # NoAddr /\ vm'[b] # NoAddr /\ b \in file.vol.users =>
      /\ b \in file'.vol.users \/ MayTake
      /\ dir' \/ hist' \cap {"vol", "late"} # {}

\* In every state a volume that has users has its directory, or its loss is explained.
LEMMA UsedIsBacked ==
    ASSUME Inv, NEW b \in file.vol.users
    PROVE  dir \/ hist \cap {"vol", "late"} # {}
<1>1. GoodVol(file.vol) /\ Backed
    BY DEF Inv, Stored
<1> QED  BY <1>1 DEF GoodVol, Backed

\* A step that leaves the saved volume alone keeps it.
LEMMA VolumeAlone ==
    ASSUME Inv, Inv', file'.vol = file.vol
    PROVE  Kept
<1>1. ASSUME NEW b \in file.vol.users
      PROVE  dir' \/ hist' \cap {"vol", "late"} # {}
    BY <1>1 DEF Inv, Stored, GoodVol, Backed
<1> QED  BY <1>1 DEF Kept

\* A save of volumes.json that overwrites nothing detaches no box but its own, and then
\* that box has no VM.
LEMMA RenameKept ==
    ASSUME Inv, Inv', NEW p \in Procs, Rename(p)
    PROVE  Kept
<1>1. PICK q : q = proc[p]
    OBVIOUS
<1>2. PICK o : o = q.ops[1]
    OBVIOUS
<1>3. /\ q # Idle /\ q.cmd # "idle" /\ Working(q) /\ Copied(q) /\ Cur(p) = o /\ o \in Operation
      /\ q.ph = "rename" /\ UNCHANGED <<dir, vm>>
    BY <1>1, <1>2, Cursor DEF Rename
<1>4. PICK s : s = StoreOf(o)
    OBVIOUS
<1>5. /\ o.op \in VolOps =>
           /\ s = "vol" /\ GoodVol(q.base) /\ GoodVol(q.copy)
           /\ VolChange(o, q.base).do = "save" /\ q.copy = VolChange(o, q.base).to
      /\ o.op \notin VolOps => s = "net"
    BY <1>2, <1>3, <1>4, CopyGood
<1>6. file \in [net : Net, vol : Vol] /\ Stages /\ Shape
    BY DEF Inv, Shape, TypeOK
<1>7. CASE tmp[s] = <<>>
  <2>1. UNCHANGED file
      BY <1>3, <1>4, <1>7 DEF Rename
  <2> QED  BY <2>1, VolumeAlone
<1>8. CASE tmp[s] # <<>>
  <2>1. /\ file' = [file EXCEPT ![s] = tmp[s]] /\ hist \subseteq hist'
      BY <1>1, <1>3, <1>4, <1>8 DEF Rename
  <2>2. CASE o.op \notin VolOps
    <3>1. file'.vol = file.vol
        BY <1>5, <1>6, <2>1, <2>2
    <3> QED  BY <3>1, VolumeAlone
  <2>3. CASE o.op \in VolOps
    <3> SUFFICES ASSUME NEW b \in All, vm[b] # NoAddr, b \in file.vol.users
                 PROVE  /\ b \in file'.vol.users \/ MayTake
                        /\ dir' \/ hist' \cap {"vol", "late"} # {}
        BY <1>3 DEF Kept
    <3>1. dir' \/ hist' \cap {"vol", "late"} # {}
        BY <1>3, <2>1, UsedIsBacked
    <3>2. proc'[p] # proc[p]
      <4>1. PICK w : w = Saved(q, o.op)
          OBVIOUS
      <4>2. Working(w)
        <5>1. /\ w \in CmdRec /\ w.cmd = q.cmd /\ w.ops = q.ops /\ w.left = q.left /\ w.ph = q.ph
            BY <1>3, <4>1 DEF Working, CmdRec, Saved
        <5> QED  BY <1>3, <5>1 DEF Working
      <4>3. Ready(w, Next1(w)) /\ w # Idle
          BY <4>2, NextFacts, WorkingNotIdle
      <4>4. proc'[p] = IF o.op \in Removals THEN [q EXCEPT !.ph = "rmdir"] ELSE Next1(w)
          BY <1>1, <1>3, <1>4, <1>6, <1>8, <4>1 DEF Rename, Shape
      <4>5. [q EXCEPT !.ph = "rmdir"].ph = "rmdir"
          BY <1>3 DEF Working, CmdRec
      <4>6. Next1(w).ph = "get"
          BY <4>3 DEF Ready, Idle
      <4>7. proc'[p].ph # "rename"
          BY <4>4, <4>5, <4>6
      <4> QED  BY <1>1, <1>3, <4>7
    <3>3. CASE Overwrites(p) \/ Forces(p)
        BY <3>1, <3>2, <3>3 DEF MayTake
    <3>4. CASE ~(Overwrites(p) \/ Forces(p))
      <4>1. file.vol = q.base /\ tmp.vol = q.copy /\ o.op # "volrmf"
          BY <1>1, <1>3, <2>3, <3>4 DEF Overwrites, Forces
      <4>2. file'.vol = q.copy
          BY <1>5, <1>6, <2>1, <2>3, <4>1
      <4>3. CASE "orphaned" \in hist
          BY <3>1, <4>3 DEF MayTake
      <4>4. CASE "orphaned" \notin hist
        <5>1. ~(o.op = "detach" /\ b = o.box)
          <6>1. Stage(q)
              BY <1>1, <1>3, <1>6 DEF Stages
          <6> QED  BY <1>2, <4>4, <6>1 DEF Stage, DownFor
        <5>2. PICK m : m = q.copy
            OBVIOUS
        <5>3. b \in m.users
            BY <1>3, <1>5, <2>3, <4>1, <5>1, <5>2, VolSaved
        <5> QED  BY <3>1, <4>2, <5>2, <5>3
      <4> QED  BY <4>3, <4>4
    <3> QED  BY <3>3, <3>4
  <2> QED  BY <2>2, <2>3
<1> QED  BY <1>7, <1>8

\* While a VM runs, the volume of its box is neither detached nor removed, by whatever
\* commands run at the same time, unless forced or by a save that overwrites another's;
\* and it keeps its directory unless an update was lost or a removal came late.
THEOREM Attached == Spec => AttachedKept
<1>1. ASSUME Inv, Inv', [Next]_vars
      PROVE  Kept \/ UNCHANGED vars
  <2>1. ASSUME NEW p \in Procs, Command(p)
        PROVE  UNCHANGED file
      BY <2>1 DEF Command, Run, Start, Stop, Rm, Up, Down, NetCreate, NetRm, VolRm, Begin
  <2>2. ASSUME NEW p \in Procs,
               Get(p) \/ Put(p) \/ RmDir(p) \/ Boot(p) \/ Record(p) \/ Wait(p) \/ Kill(p)
        PROVE  UNCHANGED file
      BY <2>2 DEF Get, Put, RmDir, Boot, Record, Wait, Kill
  <2>3. ASSUME Healthy \/ Exit
        PROVE  UNCHANGED file
      BY <2>3 DEF Healthy, Exit
  <2>4. ASSUME NEW p \in Procs, Rename(p)
        PROVE  Kept
      BY <1>1, <2>4, RenameKept
  <2>5. CASE file' = file
      BY <1>1, <2>5, VolumeAlone
  <2>6. CASE UNCHANGED vars
      BY <2>6
  <2> QED  BY <1>1, <2>1, <2>2, <2>3, <2>4, <2>5, <2>6 DEF Next, Step
<1>2. ASSUME Inv, Inv', [Next]_vars
      PROVE  [Kept]_vars
    BY <1>1, <1>2
<1>3. ASSUME [Kept]_vars
      PROVE  [\A b \in All : vm[b] # NoAddr /\ vm'[b] # NoAddr /\ b \in file.vol.users =>
                /\ \/ b \in file'.vol.users
                   \/ "orphaned" \in hist
                   \/ \E p \in Procs : proc'[p] # proc[p] /\ (Overwrites(p) \/ Forces(p))
                /\ dir' \/ hist' \cap {"vol", "late"} # {}]_vars
    BY <1>3 DEF Kept, MayTake
<1> QED  BY <1>2, <1>3, Invariance, PTL DEF Spec, AttachedKept

=============================================================================
