-------------------------- MODULE ExecStream_proofs --------------------------
(***************************************************************************)
(* For any streams, output, pipe capacity, rotations and faults: the log   *)
(* holds a stream's chunks in order and without a gap, and all of them     *)
(* after an exit frame of an exec workload; a rotation loses nothing the   *)
(* flush covered; ReopenContainerLog answers only with the new file in     *)
(* place; and the exit code recorded is the workload's own, unless it was  *)
(* told to stop or there was a fault.                                      *)
(***************************************************************************)
EXTENDS ExecStream, SequenceTheorems, TLAPS

-----------------------------------------------------------------------------
(* The invariant                                                           *)

\* The number of the chunk of s that a frame or an event carries, 0 if it has none.
FrameNo(m, s) == IF m.t = "chunk" /\ m.of[1] = s THEN m.of[2] ELSE 0
ChunkNo(c, s) == IF c[1] = s THEN c[2] ELSE 0

WireNos(q, s) == [i \in 1 .. Len(q) |-> FrameNo(q[i], s)]
ChanNos(q, s) == [i \in 1 .. Len(q) |-> ChunkNo(q[i], s)]

\* The numbers other than 0 among the first k of f are a+1, ..., b, in that order.
Run(f, k, a, b) ==
    /\ a <= b
    /\ \A i \in 1 .. k : f[i] # 0 => f[i] \in a + 1 .. b
    /\ \A n \in a + 1 .. b : \E i \in 1 .. k : f[i] = n
    /\ \A i, j \in 1 .. k : i < j /\ f[i] # 0 /\ f[j] # 0 => f[i] < f[j]

\* What the reader of s has put in the channel.
Queued(s) == IF reader[s] = "send" THEN took[s] - 1 ELSE took[s]

Acks == {i \in 1 .. Len(wire) : wire[i].t = "ack"}

\* The chunks of s on their way: 1 to a are in the log, a+1 to b on the wire and the
\* others that were read in the channel; and no chunk that the flush covers comes
\* after its acknowledgement.
Flows(s, a, b) ==
    /\ InLog(s) = 1 .. a
    /\ Run(WireNos(wire, s), Len(wire), a, b)
    /\ Run(ChanNos(chan, s), Len(chan), b, Queued(s))
    /\ \A i \in Acks : /\ mark[s] <= b
                       /\ \A j \in i .. Len(wire) : FrameNo(wire[j], s) # 0 => FrameNo(wire[j], s) > mark[s]

Pipe == \A s \in Streams : InOrder(s) /\ \E a, b \in Nat : Flows(s, a, b)

ExecPlaces == {"in1", "in2", "ack1", "ack2", "recv", "wait", "join", "closed"}
PtyPlaces  == {"poll", "relay", "check", "reap", "broken", "closed"}

\* The threads of the guest.
Threads ==
    /\ \A s \in Streams : /\ took[s] <= made[s] /\ mark[s] <= Queued(s)
                          /\ reader[s] = "send" => 1 <= took[s]
    /\ kind = "exec" => /\ srv.pc \in ExecPlaces /\ ~srv.exited
                        /\ \A s \in Streams : reader[s] = "end" => took[s] = made[s] /\ ~Held
                        /\ srv.pc = "closed" => chan = <<>> /\ \A s \in Streams : reader[s] = "end"
    /\ kind = "pty" => /\ srv.pc \in PtyPlaces
                       /\ chan = <<>> /\ input = <<>> /\ \A s \in Streams : reader[s] = "end"
    /\ srv.pc = "relay" /\ srv.pollin => took["stdout"] < made["stdout"]
    /\ srv.pc = "relay" /\ srv.stop => ctl # <<>>

\* At most one flush is on its way, and none while the supervisor is not waiting for
\* it, unless the stream has ended.
AtMostOne(S) == \A i, j \in S : i = j

Flushes(q) == {i \in 1 .. Len(q) : q[i] = "flush"}

Pending == Flushes(ctl) # {} \/ Flushes(input) # {} \/ srv.pc \in {"ack1", "ack2"} \/ Acks # {}

OneFlush ==
    /\ AtMostOne(Flushes(ctl))
    /\ Flushes(ctl) # {} => Flushes(input) = {} /\ srv.pc \notin {"ack1", "ack2"} /\ Acks = {}
    /\ Flushes(input) # {} => srv.pc \notin {"ack1", "ack2"} /\ Acks = {}
    /\ srv.pc \in {"ack1", "ack2"} => Acks = {}
    /\ AtMostOne(Acks)
    /\ Pending => sup.pc = "drain" \/ sup.exit
    /\ sup.pc = "drain" => kind = "exec"

\* The exit frame is the last one, and the supervisor that has seen it or the end of
\* the stream has seen everything.
Ended ==
    /\ \A i \in 1 .. Len(wire) : wire[i].t = "exit" => i = Len(wire) /\ srv.pc = "closed"
    /\ sup.pc = "end" => sup.exit
    /\ sup.exit => sup.pc \in {"reopen", "end"}
    /\ sup.exit => wire = <<>> /\ (vm = "halted" \/ srv.pc = "closed")
    /\ sup.exit /\ sup.code # "lost" => srv.pc = "closed"

\* An exit code is the workload's own, or says that it was killed.
Faithful(k) == k = "kill" \/ (child.st # "run" /\ k = Status(child.code))

ExitCode ==
    /\ child.st = "run" <=> child.code = "none"
    /\ child.code = "kill" => child.st = "reaped"
    /\ srv.pc \in {"join", "closed"} \/ srv.exited => child.st # "run"
    /\ srv.exited => child.st = "reaped" /\ srv.code = child.code
    /\ vm = "up" =>
         /\ child.st = "reaped" => srv.exited \/ srv.pc \in {"join", "closed"}
         /\ srv.pc = "join" => Faithful(srv.code)
         /\ \A i \in 1 .. Len(wire) : wire[i].t = "exit" => Faithful(wire[i].code)
         /\ sup.exit /\ sup.code # "lost" => Faithful(sup.code)

\* Unless the supervisor waits for an acknowledgement, what the last flush covered is
\* in the log: a flush that fails to be sent leaves nothing of an earlier one behind.
Marked ==
    sup.pc # "drain" /\ kind = "exec" /\ vm # "halted" =>
      \A s \in Streams : 1 .. mark[s] \subseteq InLog(s)

\* As long as no call has timed out, the permits belong to the call in progress.
Permits ==
    /\ sup.fd = Len(log) /\ (path # 0 => path = Len(log))
    /\ rpc = "late" => count.late > 0
    /\ count.late = 0 =>
         /\ rpc # "wait" => ~note.request /\ ~note.done /\ sup.pc \notin {"drain", "reopen"}
         /\ note.request => ~note.done /\ sup.pc \notin {"drain", "reopen"}
         /\ note.done => sup.pc \notin {"drain", "reopen"} /\ path # 0
         /\ rpc = "done" => path # 0

Inv == TypeOK /\ Pipe /\ Threads /\ OneFlush /\ Ended /\ ExitCode /\ Permits /\ Marked

-----------------------------------------------------------------------------
(* Runs of numbers                                                         *)

\* A run of nothing.
LEMMA RunEmpty ==
    ASSUME NEW f, NEW a \in Nat, NEW b \in Nat
    PROVE  Run(f, 0, a, b) <=> a = b
  BY DEF Run

\* A run only looks at the first k numbers.
LEMMA RunSame ==
    ASSUME NEW f, NEW g, NEW k \in Nat, NEW a \in Nat, NEW b \in Nat,
           \A i \in 1 .. k : f[i] = g[i], Run(f, k, a, b)
    PROVE  Run(g, k, a, b)
  BY DEF Run

\* A run followed by the run that continues it.
LEMMA RunConcat ==
    ASSUME NEW k \in Nat, NEW l \in Nat, NEW a \in Nat, NEW b \in Nat, NEW c \in Nat,
           NEW f \in [1 .. k -> Nat], NEW g \in [1 .. l -> Nat], NEW h \in [1 .. k + l -> Nat],
           Run(f, k, a, b), Run(g, l, b, c),
           \A i \in 1 .. k : h[i] = f[i], \A i \in 1 .. l : h[k + i] = g[i]
    PROVE  Run(h, k + l, a, c)
<1>1. \A i \in k + 1 .. k + l : i - k \in 1 .. l /\ h[i] = g[i - k]
    OBVIOUS
<1>2. a <= c
    BY DEF Run
<1>3. \A i \in 1 .. k + l : h[i] # 0 => h[i] \in a + 1 .. c
  <2> SUFFICES ASSUME NEW i \in 1 .. k + l, h[i] # 0
               PROVE  h[i] \in a + 1 .. c
      OBVIOUS
  <2>1. CASE i \in 1 .. k
      BY <2>1 DEF Run
  <2>2. CASE i \in k + 1 .. k + l
    <3>1. PICK j \in 1 .. l : j = i - k
        BY <1>1, <2>2
    <3>2. h[i] = g[j]
        BY <1>1, <2>2, <3>1
    <3> QED  BY <3>2 DEF Run
  <2> QED  BY <2>1, <2>2
<1>4. \A n \in a + 1 .. c : \E i \in 1 .. k + l : h[i] = n
  <2> SUFFICES ASSUME NEW n \in a + 1 .. c
               PROVE  \E i \in 1 .. k + l : h[i] = n
      OBVIOUS
  <2>1. CASE n <= b
    <3>1. PICK i \in 1 .. k : f[i] = n
        BY <2>1 DEF Run
    <3>2. i \in 1 .. k + l /\ h[i] = n
        BY <3>1
    <3> QED  BY <3>2
  <2>2. CASE n > b
    <3>0. /\ n \in b + 1 .. c
          /\ \A m \in b + 1 .. c : \E i \in 1 .. l : g[i] = m
        BY <2>2 DEF Run
    <3>1. PICK i \in 1 .. l : g[i] = n
        BY <3>0
    <3>2. k + i \in 1 .. k + l /\ h[k + i] = n
        BY <3>1
    <3> QED  BY <3>2
  <2> QED  BY <2>1, <2>2
<1>5. \A i, j \in 1 .. k + l : i < j /\ h[i] # 0 /\ h[j] # 0 => h[i] < h[j]
  <2> SUFFICES ASSUME NEW i \in 1 .. k + l, NEW j \in 1 .. k + l, i < j, h[i] # 0, h[j] # 0
               PROVE  h[i] < h[j]
      OBVIOUS
  <2>1. CASE j <= k
      BY <2>1 DEF Run
  <2>2. CASE i > k
    <3>1. PICK m \in 1 .. l : m = i - k
        BY <1>1, <2>2
    <3>2. PICK n \in 1 .. l : n = j - k
        BY <1>1, <2>2
    <3>3. m < n /\ h[i] = g[m] /\ h[j] = g[n]
        BY <1>1, <2>2, <3>1, <3>2
    <3> QED  BY <3>3 DEF Run
  <2>3. CASE i <= k /\ k < j
    <3>1. h[i] <= b
        BY <2>3 DEF Run
    <3>2. h[j] > b
        BY <1>1, <2>3 DEF Run
    <3> QED  BY <3>1, <3>2
  <2> QED  BY <2>1, <2>2, <2>3
<1> QED  BY <1>2, <1>3, <1>4, <1>5 DEF Run

\* f has numbers at 1, ..., k, and g is f without the first.
Shifted(f, g, k) == (\A i \in 1 .. k + 1 : f[i] \in Nat) /\ \A i \in 1 .. k : g[i] = f[i + 1]

\* The first number of f, if it has one there, is the one after a.
Continues(f, a) == f[1] # 0 => f[1] = a + 1

\* A run without its first number.
LEMMA RunTail ==
    ASSUME NEW k \in Nat, NEW l \in Nat, l = k + 1, NEW a \in Nat, NEW b \in Nat, NEW f, NEW g,
           NEW n \in Nat, n = f[1], NEW e \in Nat, e = a + 1,
           Shifted(f, g, k), Run(f, l, a, b)
    PROVE  /\ Continues(f, a)
           /\ n = 0 => Run(g, k, a, b)
           /\ n # 0 => Run(g, k, e, b)
<1>0. (\A i \in 1 .. k + 1 : f[i] \in Nat) /\ \A i \in 1 .. k : g[i] = f[i + 1]
    BY DEF Shifted
<1>1. \A i \in 2 .. k + 1 : i - 1 \in 1 .. k /\ f[i] = g[i - 1]
    BY <1>0
<1>2. CASE f[1] = 0
  <2>1. \A x \in a + 1 .. b : \E i \in 1 .. k : g[i] = x
    <3> SUFFICES ASSUME NEW x \in a + 1 .. b
                 PROVE  \E i \in 1 .. k : g[i] = x
        OBVIOUS
    <3>1. PICK i \in 1 .. k + 1 : f[i] = x
        BY <1>0 DEF Run
    <3>2. i - 1 \in 1 .. k /\ g[i - 1] = x
        BY <1>1, <1>2, <3>1
    <3> QED  BY <3>2
  <2>2. \A i, j \in 1 .. k : i < j /\ g[i] # 0 /\ g[j] # 0 => g[i] < g[j]
      BY <1>0 DEF Run
  <2> QED  BY <1>0, <1>2, <2>1, <2>2 DEF Run, Continues
<1>3. CASE f[1] # 0
  <2>1. f[1] \in a + 1 .. b
      BY <1>0, <1>3 DEF Run
  <2>2. f[1] = a + 1
    <3>1. PICK i \in 1 .. k + 1 : f[i] = a + 1
        BY <2>1 DEF Run
    <3>2. \A j \in 1 .. k + 1 : 1 < j /\ f[1] # 0 /\ f[j] # 0 => f[1] < f[j]
        BY <1>0 DEF Run
    <3>3. CASE i = 1
        BY <3>1, <3>3
    <3>4. CASE i # 1
      <4>1. 1 < i /\ f[i] # 0
          BY <3>1, <3>4
      <4>2. f[1] < a + 1
          BY <1>3, <3>1, <3>2, <4>1
      <4> QED  BY <2>1, <4>2
    <3> QED  BY <3>3, <3>4
  <2>3. \A i \in 1 .. k : g[i] # 0 => g[i] \in a + 2 .. b
    <3> SUFFICES ASSUME NEW i \in 1 .. k, g[i] # 0
                 PROVE  g[i] \in a + 2 .. b
        OBVIOUS
    <3>1. i + 1 \in 1 .. k + 1 /\ 1 \in 1 .. k + 1 /\ 1 < i + 1 /\ f[i + 1] = g[i]
        BY <1>0
    <3> QED  BY <1>0, <1>3, <2>2, <3>1 DEF Run
  <2>4. \A x \in a + 2 .. b : \E i \in 1 .. k : g[i] = x
    <3> SUFFICES ASSUME NEW x \in a + 2 .. b
                 PROVE  \E i \in 1 .. k : g[i] = x
        OBVIOUS
    <3>1. PICK i \in 1 .. k + 1 : f[i] = x
        BY <1>0 DEF Run
    <3>2. i - 1 \in 1 .. k /\ g[i - 1] = x
        BY <1>1, <2>2, <3>1
    <3> QED  BY <3>2
  <2>5. \A i, j \in 1 .. k : i < j /\ g[i] # 0 /\ g[j] # 0 => g[i] < g[j]
      BY <1>0 DEF Run
  <2>6. a + 1 <= b /\ (a + 1) + 1 = a + 2
      BY <2>1
  <2> QED  BY <1>3, <2>2, <2>3, <2>4, <2>5, <2>6 DEF Run, Continues
<1> QED  BY <1>2, <1>3

\* A run of one number, and of none.
LEMMA RunOne ==
    ASSUME NEW a \in Nat, NEW f \in [1 .. 1 -> Nat]
    PROVE  /\ f[1] = 0 => Run(f, 1, a, a)
           /\ f[1] = a + 1 => Run(f, 1, a, a + 1)
  BY DEF Run


-----------------------------------------------------------------------------
(* The numbers in the channel and on the wire                              *)

\* The number a chunk has for a stream.
LEMMA ChunkFacts ==
    ASSUME NEW c \in Chunks, NEW s \in Streams
    PROVE  ChunkNo(c, s) \in 0 .. MaxOut /\ ChunkNo(c, s) \in Nat
  BY ExecStreamAssumption DEF Chunks, ChunkNo

\* A chunk as a frame.
LEMMA ChunkFrame ==
    ASSUME NEW c \in Chunks, NEW m, m = [t |-> "chunk", of |-> c]
    PROVE  m \in Frame /\ m.t = "chunk" /\ m.of = c
  BY DEF Frame

\* A frame, and the number it has for a stream.
LEMMA FrameFacts ==
    ASSUME NEW m \in Frame, NEW s \in Streams
    PROVE  /\ m.t \in {"chunk", "ack", "exit"}
           /\ m.t = "chunk" => m.of \in Chunks
           /\ m.t = "exit" => m.code \in Codes
           /\ FrameNo(m, s) \in 0 .. MaxOut /\ FrameNo(m, s) \in Nat
           /\ m.t # "chunk" => FrameNo(m, s) = 0
<1>1. m.t \in {"chunk", "ack", "exit"} /\ (m.t = "chunk" => m.of \in Chunks) /\ (m.t = "exit" => m.code \in Codes)
    BY DEF Frame
<1>2. MaxOut \in Nat /\ (m.t = "chunk" => FrameNo(m, s) = ChunkNo(m.of, s)) /\ (m.t # "chunk" => FrameNo(m, s) = 0)
    BY ExecStreamAssumption DEF FrameNo, ChunkNo
<1> QED  BY <1>1, <1>2, ChunkFacts

\* A chunk becomes a frame with the same number.
LEMMA FramesFacts ==
    ASSUME NEW q \in Seq(Chunks), NEW s \in Streams
    PROVE  /\ Frames(q) \in Seq(Frame) /\ Len(Frames(q)) = Len(q)
           /\ WireNos(Frames(q), s) = ChanNos(q, s)
           /\ \A i \in 1 .. Len(q) : Frames(q)[i].t = "chunk"
<1>1. DOMAIN q = 1 .. Len(q) /\ Len(q) \in Nat /\ \A i \in 1 .. Len(q) : q[i] \in Chunks
    OBVIOUS
<1>2. \A i \in 1 .. Len(q) : Frames(q)[i] = [t |-> "chunk", of |-> q[i]]
    BY <1>1 DEF Frames
<1>3. \A i \in 1 .. Len(q) : /\ Frames(q)[i] \in Frame /\ Frames(q)[i].t = "chunk"
                             /\ Frames(q)[i].of = q[i]
    BY <1>1, <1>2, ChunkFrame
<1>4. Frames(q) \in [1 .. Len(q) -> Frame]
    BY <1>1, <1>3 DEF Frames
<1>5. Frames(q) \in Seq(Frame) /\ Len(Frames(q)) = Len(q)
    BY <1>1, <1>4, IsASeq, LenProperties
<1>6. WireNos(Frames(q), s) = ChanNos(q, s)
    BY <1>3, <1>5 DEF WireNos, ChanNos, FrameNo, ChunkNo
<1> QED  BY <1>3, <1>5, <1>6

\* The numbers on the wire are numbers.
LEMMA WireNosType ==
    ASSUME NEW q \in Seq(Frame), NEW s \in Streams
    PROVE  /\ WireNos(q, s) \in [1 .. Len(q) -> Nat] /\ Len(q) \in Nat
           /\ \A i \in 1 .. Len(q) : WireNos(q, s)[i] = FrameNo(q[i], s)
<1>1. Len(q) \in Nat /\ \A i \in 1 .. Len(q) : q[i] \in Frame
    OBVIOUS
<1>2. \A i \in 1 .. Len(q) : FrameNo(q[i], s) \in Nat
    BY <1>1, FrameFacts
<1> QED  BY <1>1, <1>2 DEF WireNos

\* The numbers in the channel are numbers.
LEMMA ChanNosType ==
    ASSUME NEW q \in Seq(Chunks), NEW s \in Streams
    PROVE  /\ ChanNos(q, s) \in [1 .. Len(q) -> Nat] /\ Len(q) \in Nat
           /\ \A i \in 1 .. Len(q) : ChanNos(q, s)[i] = ChunkNo(q[i], s)
<1>1. Len(q) \in Nat /\ \A i \in 1 .. Len(q) : q[i] \in Chunks
    OBVIOUS
<1>2. \A i \in 1 .. Len(q) : ChunkNo(q[i], s) \in Nat
    BY <1>1, ChunkFacts
<1> QED  BY <1>1, <1>2 DEF ChanNos

\* Frames written after the ones on the wire.
LEMMA WireConcat ==
    ASSUME NEW p \in Seq(Frame), NEW q \in Seq(Frame), NEW r \in Seq(Frame), r = p \o q,
           NEW s \in Streams, NEW a \in Nat, NEW b \in Nat, NEW c \in Nat,
           Run(WireNos(p, s), Len(p), a, b), Run(WireNos(q, s), Len(q), b, c)
    PROVE  Run(WireNos(r, s), Len(r), a, c)
<1>1. /\ Len(r) = Len(p) + Len(q)
      /\ \A i \in 1 .. Len(p) + Len(q) : r[i] = IF i <= Len(p) THEN p[i] ELSE q[i - Len(p)]
    BY ConcatProperties
<1>2. PICK f, g, h : f = WireNos(p, s) /\ g = WireNos(q, s) /\ h = WireNos(r, s)
    OBVIOUS
<1>3. /\ f \in [1 .. Len(p) -> Nat] /\ g \in [1 .. Len(q) -> Nat]
      /\ h \in [1 .. Len(p) + Len(q) -> Nat]
      /\ Len(p) \in Nat /\ Len(q) \in Nat
      /\ \A i \in 1 .. Len(p) : f[i] = FrameNo(p[i], s)
      /\ \A i \in 1 .. Len(q) : g[i] = FrameNo(q[i], s)
      /\ \A i \in 1 .. Len(p) + Len(q) : h[i] = FrameNo(r[i], s)
    BY <1>1, <1>2, WireNosType
<1>4. \A i \in 1 .. Len(p) : i \in 1 .. Len(p) + Len(q) /\ r[i] = p[i]
    BY <1>1, <1>3
<1>5. \A i \in 1 .. Len(q) : Len(p) + i \in 1 .. Len(p) + Len(q) /\ r[Len(p) + i] = q[i]
  <2> SUFFICES ASSUME NEW i \in 1 .. Len(q)
               PROVE  Len(p) + i \in 1 .. Len(p) + Len(q) /\ r[Len(p) + i] = q[i]
      OBVIOUS
  <2>1. Len(p) + i \in 1 .. Len(p) + Len(q) /\ ~(Len(p) + i <= Len(p)) /\ (Len(p) + i) - Len(p) = i
      BY <1>3
  <2> QED  BY <1>1, <2>1
<1>6. \A i \in 1 .. Len(p) : h[i] = f[i]
    BY <1>3, <1>4
<1>7. \A i \in 1 .. Len(q) : h[Len(p) + i] = g[i]
    BY <1>3, <1>5
<1>8. Run(f, Len(p), a, b) /\ Run(g, Len(q), b, c)
    BY <1>2
<1>9. Run(h, Len(p) + Len(q), a, c)
    BY <1>3, <1>6, <1>7, <1>8, RunConcat
<1> QED  BY <1>1, <1>2, <1>9

\* The first frame is taken from the wire.
LEMMA WireTail ==
    ASSUME NEW q \in Seq(Frame), q # <<>>, NEW s \in Streams, NEW a \in Nat, NEW b \in Nat,
           Run(WireNos(q, s), Len(q), a, b)
    PROVE  /\ FrameNo(Head(q), s) = 0 => Run(WireNos(Tail(q), s), Len(Tail(q)), a, b)
           /\ FrameNo(Head(q), s) # 0 => /\ FrameNo(Head(q), s) = a + 1
                                         /\ Run(WireNos(Tail(q), s), Len(Tail(q)), a + 1, b)
<1>1. PICK t : t = Tail(q)
    OBVIOUS
<1>2. /\ Head(q) = q[1] /\ t \in Seq(Frame) /\ Len(t) \in Nat /\ Len(q) = Len(t) + 1
      /\ \A i \in 1 .. Len(t) : t[i] = q[i + 1]
  <2>1. Head(q) = q[1]
      OBVIOUS
  <2>2. /\ t \in Seq(Frame) /\ Len(t) = Len(q) - 1
        /\ \A i \in 1 .. Len(t) : t[i] = q[i + 1]
      BY <1>1, HeadTailProperties
  <2>3. Len(t) \in Nat /\ Len(q) \in Nat
      BY <2>2, LenProperties
  <2> QED  BY <2>1, <2>2, <2>3
<1>3. PICK f, g : f = WireNos(q, s) /\ g = WireNos(t, s)
    OBVIOUS
<1>4. /\ f \in [1 .. Len(t) + 1 -> Nat] /\ g \in [1 .. Len(t) -> Nat]
      /\ \A i \in 1 .. Len(t) + 1 : f[i] = FrameNo(q[i], s)
      /\ \A i \in 1 .. Len(t) : g[i] = FrameNo(t[i], s)
    BY <1>2, <1>3, WireNosType
<1>5. f[1] = FrameNo(Head(q), s)
    BY <1>2, <1>4
<1>6. \A i \in 1 .. Len(t) : g[i] = f[i + 1]
    BY <1>2, <1>4
<1>7. Run(f, Len(t) + 1, a, b)
    BY <1>2, <1>3
<1>8. /\ f[1] = 0 => Run(g, Len(t), a, b)
      /\ f[1] # 0 => f[1] = a + 1 /\ Run(g, Len(t), a + 1, b)
  <2>1. PICK k \in Nat : k = Len(t)
      BY <1>2
  <2>2. PICK l \in Nat : l = k + 1
      BY <2>1
  <2>3. Shifted(f, g, k)
      BY <1>4, <1>6, <2>1 DEF Shifted
  <2>4. PICK n \in Nat : n = f[1]
      BY <1>2, <1>4
  <2>8. Run(f, l, a, b)
      BY <1>7, <2>1, <2>2
  <2>5. PICK e \in Nat : e = a + 1
      OBVIOUS
  <2>6. n = 0 => Run(g, k, a, b)
      BY <2>2, <2>3, <2>4, <2>5, <2>8, RunTail
  <2>7. Continues(f, a)
      BY <2>2, <2>3, <2>4, <2>5, <2>8, RunTail
  <2>9. n # 0 => Run(g, k, e, b)
      BY <2>2, <2>3, <2>4, <2>5, <2>8, RunTail
  <2> QED  BY <2>1, <2>4, <2>5, <2>6, <2>7, <2>9 DEF Continues
<1> QED  BY <1>1, <1>3, <1>5, <1>8

\* The first chunk is taken from the channel.
LEMMA ChanTail ==
    ASSUME NEW q \in Seq(Chunks), q # <<>>, NEW s \in Streams, NEW a \in Nat, NEW b \in Nat,
           Run(ChanNos(q, s), Len(q), a, b)
    PROVE  /\ ChunkNo(Head(q), s) = 0 => Run(ChanNos(Tail(q), s), Len(Tail(q)), a, b)
           /\ ChunkNo(Head(q), s) # 0 => /\ ChunkNo(Head(q), s) = a + 1
                                         /\ Run(ChanNos(Tail(q), s), Len(Tail(q)), a + 1, b)
<1>1. PICK t : t = Tail(q)
    OBVIOUS
<1>2. /\ Head(q) = q[1] /\ t \in Seq(Chunks) /\ Len(t) \in Nat /\ Len(q) = Len(t) + 1
      /\ \A i \in 1 .. Len(t) : t[i] = q[i + 1]
  <2>1. Head(q) = q[1]
      OBVIOUS
  <2>2. /\ t \in Seq(Chunks) /\ Len(t) = Len(q) - 1
        /\ \A i \in 1 .. Len(t) : t[i] = q[i + 1]
      BY <1>1, HeadTailProperties
  <2>3. Len(t) \in Nat /\ Len(q) \in Nat
      BY <2>2, LenProperties
  <2> QED  BY <2>1, <2>2, <2>3
<1>3. PICK f, g : f = ChanNos(q, s) /\ g = ChanNos(t, s)
    OBVIOUS
<1>4. /\ f \in [1 .. Len(t) + 1 -> Nat] /\ g \in [1 .. Len(t) -> Nat]
      /\ \A i \in 1 .. Len(t) + 1 : f[i] = ChunkNo(q[i], s)
      /\ \A i \in 1 .. Len(t) : g[i] = ChunkNo(t[i], s)
    BY <1>2, <1>3, ChanNosType
<1>5. f[1] = ChunkNo(Head(q), s)
    BY <1>2, <1>4
<1>6. \A i \in 1 .. Len(t) : g[i] = f[i + 1]
    BY <1>2, <1>4
<1>7. Run(f, Len(t) + 1, a, b)
    BY <1>2, <1>3
<1>8. /\ f[1] = 0 => Run(g, Len(t), a, b)
      /\ f[1] # 0 => f[1] = a + 1 /\ Run(g, Len(t), a + 1, b)
  <2>1. PICK k \in Nat : k = Len(t)
      BY <1>2
  <2>2. PICK l \in Nat : l = k + 1
      BY <2>1
  <2>3. Shifted(f, g, k)
      BY <1>4, <1>6, <2>1 DEF Shifted
  <2>4. PICK n \in Nat : n = f[1]
      BY <1>2, <1>4
  <2>8. Run(f, l, a, b)
      BY <1>7, <2>1, <2>2
  <2>5. PICK e \in Nat : e = a + 1
      OBVIOUS
  <2>6. n = 0 => Run(g, k, a, b)
      BY <2>2, <2>3, <2>4, <2>5, <2>8, RunTail
  <2>7. Continues(f, a)
      BY <2>2, <2>3, <2>4, <2>5, <2>8, RunTail
  <2>9. n # 0 => Run(g, k, e, b)
      BY <2>2, <2>3, <2>4, <2>5, <2>8, RunTail
  <2> QED  BY <2>1, <2>4, <2>5, <2>6, <2>7, <2>9 DEF Continues
<1> QED  BY <1>1, <1>3, <1>5, <1>8

\* A reader puts its chunk into the channel.
LEMMA ChanAppend ==
    ASSUME NEW q \in Seq(Chunks), NEW c \in Chunks, NEW s \in Streams, NEW a \in Nat, NEW b \in Nat,
           Run(ChanNos(q, s), Len(q), a, b)
    PROVE  /\ ChunkNo(c, s) = 0 => Run(ChanNos(Append(q, c), s), Len(Append(q, c)), a, b)
           /\ ChunkNo(c, s) = b + 1 => Run(ChanNos(Append(q, c), s), Len(Append(q, c)), a, b + 1)
<1>1. PICK r : r = Append(q, c)
    OBVIOUS
<1>2. /\ r \in Seq(Chunks) /\ Len(r) = Len(q) + 1 /\ Len(q) \in Nat
      /\ \A i \in 1 .. Len(q) : r[i] = q[i]
      /\ r[Len(q) + 1] = c
    BY <1>1, AppendProperties, LenProperties
<1>3. PICK f, g, h : f = ChanNos(q, s) /\ g = [i \in 1 .. 1 |-> ChunkNo(c, s)] /\ h = ChanNos(r, s)
    OBVIOUS
<1>4. g \in [1 .. 1 -> Nat] /\ g[1] = ChunkNo(c, s)
    BY <1>3, ChunkFacts
<1>5. /\ f \in [1 .. Len(q) -> Nat] /\ h \in [1 .. Len(q) + 1 -> Nat]
      /\ \A i \in 1 .. Len(q) : f[i] = ChunkNo(q[i], s)
      /\ \A i \in 1 .. Len(q) + 1 : h[i] = ChunkNo(r[i], s)
    BY <1>2, <1>3, ChanNosType
<1>6. \A i \in 1 .. Len(q) : h[i] = f[i]
    BY <1>2, <1>5
<1>7. \A i \in 1 .. 1 : h[Len(q) + i] = g[i]
  <2>1. h[Len(q) + 1] = g[1]
      BY <1>2, <1>4, <1>5
  <2> QED  BY <2>1
<1>8. Run(f, Len(q), a, b) /\ b + 1 \in Nat
    BY <1>3
<1>9. CASE ChunkNo(c, s) = 0
  <2>1. Run(g, 1, b, b)
      BY <1>4, <1>9, RunOne
  <2>2. Run(h, Len(q) + 1, a, b)
      BY <1>2, <1>4, <1>5, <1>6, <1>7, <1>8, <2>1, RunConcat
  <2> QED  BY <1>1, <1>2, <1>3, <1>9, <2>2
<1>10. CASE ChunkNo(c, s) = b + 1
  <2>1. Run(g, 1, b, b + 1)
      BY <1>4, <1>10, RunOne
  <2>2. Run(h, Len(q) + 1, a, b + 1)
      BY <1>2, <1>4, <1>5, <1>6, <1>7, <1>8, <2>1, RunConcat
  <2> QED  BY <1>1, <1>2, <1>3, <1>10, <2>2
<1> QED  BY <1>9, <1>10

\* A frame that is no chunk.
LEMMA NoChunk ==
    ASSUME NEW m \in Frame, m.t # "chunk", NEW s \in Streams, NEW a \in Nat
    PROVE  <<m>> \in Seq(Frame) /\ Len(<<m>>) = 1 /\ <<m>>[1] = m /\ Run(WireNos(<<m>>, s), Len(<<m>>), a, a)
<1>1. PICK q : q = <<m>>
    OBVIOUS
<1>2. q \in Seq(Frame) /\ Len(q) = 1 /\ q[1] = m
    BY <1>1
<1>3. PICK f : f = WireNos(q, s)
    OBVIOUS
<1>4. f \in [1 .. 1 -> Nat] /\ f[1] = FrameNo(m, s)
    BY <1>2, <1>3, WireNosType
<1>5. Run(f, 1, a, a)
    BY <1>4, FrameFacts, RunOne
<1> QED  BY <1>1, <1>2, <1>3, <1>5

\* The frames a pass of the terminal sends.
LEMMA PtyFramesRun ==
    ASSUME NEW n \in 0 .. MaxOut, NEW m \in 0 .. MaxOut, n <= m, NEW s \in Streams
    PROVE  /\ PtyFrames(n, m) \in Seq(Frame) /\ Len(PtyFrames(n, m)) = m - n
           /\ \A i \in 1 .. m - n : PtyFrames(n, m)[i].t = "chunk"
           /\ s = "stdout" => Run(WireNos(PtyFrames(n, m), s), Len(PtyFrames(n, m)), n, m)
           /\ s # "stdout" => \A a \in Nat : Run(WireNos(PtyFrames(n, m), s), Len(PtyFrames(n, m)), a, a)
<1>1. m - n \in Nat /\ MaxOut \in Nat /\ "stdout" \in Streams
    BY ExecStreamAssumption
<1>2. \A i \in 1 .. m - n : PtyFrames(n, m)[i] = [t |-> "chunk", of |-> <<"stdout", n + i>>]
    BY <1>1 DEF PtyFrames
<1>3. \A i \in 1 .. m - n : n + i \in 1 .. MaxOut
    BY <1>1
<1>4. \A i \in 1 .. m - n : <<"stdout", n + i>> \in Chunks
    BY <1>1, <1>3 DEF Chunks
<1>5. \A i \in 1 .. m - n : /\ PtyFrames(n, m)[i] \in Frame /\ PtyFrames(n, m)[i].t = "chunk"
                            /\ PtyFrames(n, m)[i].of = <<"stdout", n + i>>
    BY <1>2, <1>4, ChunkFrame
<1>6. PtyFrames(n, m) \in [1 .. m - n -> Frame]
    BY <1>1, <1>5 DEF PtyFrames
<1>7. PtyFrames(n, m) \in Seq(Frame) /\ Len(PtyFrames(n, m)) = m - n
    BY <1>1, <1>6, IsASeq, LenProperties
<1>8. \A i \in 1 .. m - n : WireNos(PtyFrames(n, m), s)[i] = IF s = "stdout" THEN n + i ELSE 0
  <2>1. PICK q : q = PtyFrames(n, m)
      OBVIOUS
  <2>2. \A i \in 1 .. m - n : FrameNo(q[i], s) = IF s = "stdout" THEN n + i ELSE 0
      BY <1>5, <2>1 DEF FrameNo
  <2>3. \A i \in 1 .. m - n : WireNos(q, s)[i] = FrameNo(q[i], s)
      BY <1>7, <2>1, WireNosType
  <2> QED  BY <2>1, <2>2, <2>3
<1>9. CASE s = "stdout"
  <2>1. \A i \in 1 .. m - n : WireNos(PtyFrames(n, m), s)[i] = n + i
      BY <1>8, <1>9
  <2>2. \A k \in n + 1 .. m : k - n \in 1 .. m - n /\ WireNos(PtyFrames(n, m), s)[k - n] = k
      BY <1>1, <2>1
  <2> QED  BY <1>1, <1>5, <1>7, <1>9, <2>1, <2>2 DEF Run
<1>10. CASE s # "stdout"
  <2>1. \A i \in 1 .. m - n : WireNos(PtyFrames(n, m), s)[i] = 0
      BY <1>8, <1>10
  <2> QED  BY <1>1, <1>5, <1>7, <1>10, <2>1 DEF Run
<1> QED  BY <1>9, <1>10


-----------------------------------------------------------------------------
(* Steps                                                                   *)

\* A step that leaves the chunks where they are.
LEMMA PipeKept ==
    ASSUME Pipe, UNCHANGED <<log, wire, chan, mark>>, \A s \in Streams : Queued(s)' = Queued(s)
    PROVE  Pipe'
  BY DEF Pipe, Flows, InOrder, InLog, Acks

\* The counters of a stream are small numbers.
LEMMA Counters ==
    ASSUME Inv
    PROVE  /\ made \in [Streams -> 0 .. MaxOut] /\ took \in [Streams -> 0 .. MaxOut]
           /\ mark \in [Streams -> 0 .. MaxOut] /\ MaxOut \in Nat
           /\ reader \in [Streams -> {"read", "send", "end"}]
           /\ \A s \in Streams : made[s] \in Nat /\ took[s] \in Nat /\ mark[s] \in Nat
<1>1. TypeOK
    BY DEF Inv
<1>2. /\ made \in [Streams -> 0 .. MaxOut] /\ took \in [Streams -> 0 .. MaxOut]
      /\ mark \in [Streams -> 0 .. MaxOut] /\ reader \in [Streams -> {"read", "send", "end"}]
    BY <1>1 DEF TypeOK
<1>3. MaxOut \in Nat
    BY ExecStreamAssumption
<1> QED  BY <1>2, <1>3

\* A fault is counted.
LEMMA CountFacts ==
    ASSUME Inv, count' = count \/ (count.faults < MaxFaults /\ count' = [count EXCEPT !.faults = @ + 1])
    PROVE  /\ count' \in Counts
           /\ count'.late = count.late
<1>1. count \in Counts
    BY DEF Inv, TypeOK
<1>2. CASE count' = count
    BY <1>1, <1>2
<1>3. CASE count.faults < MaxFaults /\ count' = [count EXCEPT !.faults = @ + 1]
    BY <1>1, <1>3, ExecStreamAssumption DEF Counts
<1> QED  BY <1>2, <1>3

\* Nothing happens.
LEMMA StutterInv ==
    ASSUME Inv, UNCHANGED vars
    PROVE  Inv'
<1>1. UNCHANGED <<kind, child, kin, made, took, reader, chan, input, srv, vm, sup, log, path, note, rpc,
                  ctl, wire, mark, count>>
    BY DEF vars, guest, host
<1>2. Pipe'
    BY <1>1, PipeKept DEF Inv, Queued
<1>3. TypeOK'
    BY <1>1 DEF Inv, TypeOK
<1>5. Threads'
    BY <1>1 DEF Inv, Threads, Held, Queued
<1>6. OneFlush'
    BY <1>1 DEF Inv, OneFlush, AtMostOne, Flushes, Pending, Acks
<1>4. Ended' /\ ExitCode' /\ Permits' /\ Marked'
    BY <1>1 DEF Inv, Ended, ExitCode, Faithful, Status, Permits, Marked, InLog
<1> QED  BY <1>2, <1>3, <1>4, <1>5, <1>6 DEF Inv

\* A process in the guest writes, forks or ends.
LEMMA WriteInv ==
    ASSUME Inv, NEW s \in Streams, Write(s)
    PROVE  Inv'
<1>1. /\ UNCHANGED <<kind, child, kin, took, reader, chan, input, srv, vm, sup, log, path, note, rpc,
                     ctl, wire, mark, count>>
      /\ made' = [made EXCEPT ![s] = @ + 1] /\ made[s] < MaxOut /\ Held
    BY DEF Write, host
<1>2. TypeOK'
  <2>1. made' \in [Streams -> 0 .. MaxOut]
      BY <1>1, Counters
  <2> QED  BY <1>1, <2>1 DEF Inv, TypeOK
<1>3. Pipe'
    BY <1>1, PipeKept DEF Inv, Queued
<1>4. Threads'
  <2>1. \A t \in Streams : made[t] <= made'[t]
      BY <1>1, Counters
  <2>2. \A t \in Streams : took[t] <= made'[t]
      BY <2>1, <1>1, Counters DEF Inv, Threads
  <2>3. srv.pc = "relay" /\ srv.pollin => took["stdout"] < made'["stdout"]
      BY <2>1, <1>1, Counters, ExecStreamAssumption DEF Inv, Threads
  <2> QED  BY <1>1, <2>2, <2>3 DEF Inv, Threads, Held, Queued
<1>5. OneFlush' /\ Ended'
    BY <1>1 DEF Inv, OneFlush, AtMostOne, Flushes, Pending, Acks, Ended
<1>6. ExitCode' /\ Permits' /\ Marked'
    BY <1>1 DEF Inv, ExitCode, Faithful, Status, Permits, Marked, InLog
<1> QED  BY <1>2, <1>3, <1>4, <1>5, <1>6 DEF Inv

\* A descendant is forked, or ends.
LEMMA KinInv ==
    ASSUME Inv, Fork \/ KinExit
    PROVE  Inv'
<1>1. /\ UNCHANGED <<kind, child, made, took, reader, chan, input, srv, vm, sup, log, path, note, rpc,
                     ctl, wire, mark, count>>
      /\ kin' \in {"none", "group", "own"} /\ Held
    BY DEF Fork, KinExit, host, Held
<1>2. TypeOK'
    BY <1>1 DEF Inv, TypeOK
<1>3. Pipe'
    BY <1>1, PipeKept DEF Inv, Queued
<1>4. Threads'
    BY <1>1 DEF Inv, Threads, Held, Queued
<1>5. OneFlush' /\ Ended'
    BY <1>1 DEF Inv, OneFlush, AtMostOne, Flushes, Pending, Acks, Ended
<1>6. ExitCode' /\ Permits' /\ Marked'
    BY <1>1 DEF Inv, ExitCode, Faithful, Status, Permits, Marked, InLog
<1> QED  BY <1>2, <1>3, <1>4, <1>5, <1>6 DEF Inv

\* The process ends.
LEMMA ChildInv ==
    ASSUME Inv, ChildExit
    PROVE  Inv'
<1>1. /\ UNCHANGED <<kind, kin, made, took, reader, chan, input, srv, vm, sup, log, path, note, rpc,
                     ctl, wire, mark, count>>
      /\ child.st = "run" /\ child'.st = "zombie" /\ child'.code \in {"zero", "own", "signal"}
      /\ child' \in Children
    BY DEF ChildExit, host, Children
<1>2. TypeOK'
    BY <1>1 DEF Inv, TypeOK
<1>3. Pipe'
    BY <1>1, PipeKept DEF Inv, Queued
<1>4. Threads'
    BY <1>1 DEF Inv, Threads, Held, Queued
<1>5. OneFlush' /\ Ended'
    BY <1>1 DEF Inv, OneFlush, AtMostOne, Flushes, Pending, Acks, Ended
<1>6. ExitCode'
    BY <1>1 DEF Inv, ExitCode, Faithful, Status, Ended
<1>7. Permits' /\ Marked'
    BY <1>1 DEF Inv, Permits, Marked, InLog
<1> QED  BY <1>2, <1>3, <1>4, <1>5, <1>6, <1>7 DEF Inv

\* A reader reads a chunk, or sees the end of its stream.
LEMMA ReadInv ==
    ASSUME Inv, NEW s \in Streams, Read(s)
    PROVE  Inv'
<1>1. /\ UNCHANGED <<kind, child, kin, made, chan, input, srv, vm, sup, log, path, note, rpc,
                     ctl, wire, mark, count>>
      /\ reader[s] = "read"
      /\ \/ /\ took[s] < made[s] /\ took' = [took EXCEPT ![s] = @ + 1]
            /\ reader' = [reader EXCEPT ![s] = "send"]
         \/ /\ took[s] = made[s] /\ ~Held /\ took' = took
            /\ reader' = [reader EXCEPT ![s] = "end"]
    BY DEF Read, host
<1>2. TypeOK'
  <2>1. took' \in [Streams -> 0 .. MaxOut] /\ reader' \in [Streams -> {"read", "send", "end"}]
      BY <1>1, Counters
  <2>2. UNCHANGED <<kind, child, kin, made, chan, input, srv, vm, sup, log, path, note, rpc,
                    ctl, wire, mark, count>>
      BY <1>1
  <2> QED  BY <2>1, <2>2 DEF Inv, TypeOK
<1>3. \A t \in Streams : Queued(t)' = Queued(t)
    BY <1>1, Counters DEF Queued
<1>4. Pipe'
    BY <1>1, <1>3, PipeKept DEF Inv
<1>5. Threads'
  <2>0. \A t \in Streams : took[t] <= made[t] /\ (reader[t] = "send" => 1 <= took[t])
      BY DEF Inv, Threads
  <2>1. \A t \in Streams : took'[t] <= made[t] /\ (reader'[t] = "send" => 1 <= took'[t])
      BY <1>1, <2>0, Counters
  <2>2. \A t \in Streams : mark[t] <= Queued(t)'
      BY <1>3 DEF Inv, Threads
  <2>3. kind = "exec" /\ srv.pc # "closed" /\ srv.pc # "relay"
    <3>1. kind \in {"exec", "pty"}
        BY ExecStreamAssumption DEF Inv, TypeOK
    <3>2. kind = "exec"
        BY <1>1, <3>1 DEF Inv, Threads
    <3> QED  BY <1>1, <3>2 DEF Inv, Threads, ExecPlaces
  <2>4. \A t \in Streams : reader'[t] = "end" => took'[t] = made[t] /\ ~Held
      BY <1>1, <2>3, Counters DEF Inv, Threads
  <2> QED  BY <1>1, <2>1, <2>2, <2>3, <2>4 DEF Inv, Threads, Held
<1>6. OneFlush' /\ Ended'
    BY <1>1 DEF Inv, OneFlush, AtMostOne, Flushes, Pending, Acks, Ended
<1>7. ExitCode' /\ Permits' /\ Marked'
    BY <1>1 DEF Inv, ExitCode, Faithful, Status, Permits, Marked, InLog
<1> QED  BY <1>2, <1>4, <1>5, <1>6, <1>7 DEF Inv

\* A shutdown begins, PID 1 reaps the process, the VM halts.
LEMMA VmInv ==
    ASSUME Inv, Shutdown \/ InitReap \/ Halt
    PROVE  Inv'
<1>1. /\ UNCHANGED <<kind, kin, made, took, reader, chan, input, srv, sup, log, path, note, rpc,
                     ctl, wire, mark>>
      /\ \/ child' = child /\ vm' \in {"down", "halted"} /\ (vm = "halted" => vm' = "halted")
         \/ child.st = "zombie" /\ child' = [child EXCEPT !.st = "reaped"] /\ vm' = vm /\ vm = "down"
      /\ count' = count \/ (count.faults < MaxFaults /\ count' = [count EXCEPT !.faults = @ + 1])
    BY DEF Shutdown, InitReap, Halt, Fault, host
<1>2. count' \in Counts /\ count'.late = count.late
    BY <1>1, CountFacts
<1>3. /\ child' \in Children
      /\ child'.code = child.code /\ (child'.st = "run" <=> child.st = "run")
      /\ child.st = "reaped" => child'.st = "reaped"
  <2>1. child \in Children
      BY DEF Inv, TypeOK
  <2> QED  BY <1>1, <2>1 DEF Children
<1>4. TypeOK'
    BY <1>1, <1>2, <1>3 DEF Inv, TypeOK
<1>5. Pipe'
    BY <1>1, PipeKept DEF Inv, Queued
<1>6. Threads'
    BY <1>1, <1>3 DEF Inv, Threads, Held, Queued
<1>7. OneFlush' /\ Ended'
    BY <1>1 DEF Inv, OneFlush, AtMostOne, Flushes, Pending, Acks, Ended
<1>8. ExitCode'
    BY <1>1, <1>3 DEF Inv, ExitCode, Faithful, Status
<1>9. Permits' /\ Marked'
    BY <1>1, <1>2 DEF Inv, Permits, Marked, InLog
<1> QED  BY <1>4, <1>5, <1>6, <1>7, <1>8, <1>9 DEF Inv


\* The control frames, when the first is taken.
LEMMA FlushTail ==
    ASSUME NEW q \in Seq({"flush", "cancel"}), q # <<>>
    PROVE  /\ Tail(q) \in Seq({"flush", "cancel"}) /\ Head(q) \in {"flush", "cancel"}
           /\ Flushes(Tail(q)) # {} => Flushes(q) # {}
           /\ Head(q) = "flush" => Flushes(q) # {}
           /\ AtMostOne(Flushes(q)) => AtMostOne(Flushes(Tail(q)))
           /\ AtMostOne(Flushes(q)) /\ Head(q) = "flush" => Flushes(Tail(q)) = {}
<1>1. PICK t : t = Tail(q)
    OBVIOUS
<1>2. /\ Head(q) = q[1] /\ Head(q) \in {"flush", "cancel"} /\ t \in Seq({"flush", "cancel"})
      /\ \A i \in 1 .. Len(t) : i + 1 \in 1 .. Len(q) /\ t[i] = q[i + 1] /\ i + 1 # 1
      /\ 1 \in 1 .. Len(q)
  <2>1. Head(q) = q[1]
      OBVIOUS
  <2>2. /\ t \in Seq({"flush", "cancel"}) /\ Len(t) = Len(q) - 1 /\ Head(q) \in {"flush", "cancel"}
        /\ \A i \in 1 .. Len(t) : t[i] = q[i + 1]
      BY <1>1, HeadTailProperties
  <2>3. Len(t) \in Nat /\ Len(q) \in Nat
      BY <2>2, LenProperties
  <2> QED  BY <2>1, <2>2, <2>3
<1>3. \A i \in Flushes(t) : i + 1 \in Flushes(q) /\ i \in Nat
    BY <1>2 DEF Flushes
<1>4. Head(q) = "flush" => 1 \in Flushes(q)
    BY <1>2 DEF Flushes
<1>5. AtMostOne(Flushes(q)) => AtMostOne(Flushes(t))
    BY <1>3 DEF AtMostOne
<1>6. AtMostOne(Flushes(q)) /\ Head(q) = "flush" => Flushes(t) = {}
  <2> SUFFICES ASSUME AtMostOne(Flushes(q)), Head(q) = "flush", NEW i \in Flushes(t)
               PROVE  FALSE
      OBVIOUS
  <2>1. i + 1 = 1 /\ i \in 1 .. Len(t)
      BY <1>3, <1>4 DEF AtMostOne, Flushes
  <2> QED  BY <1>2, <2>1
<1> QED  BY <1>1, <1>2, <1>3, <1>4, <1>5, <1>6

\* The control frames, when one is added.
LEMMA FlushAppend ==
    ASSUME NEW q \in Seq({"flush", "cancel"}), NEW x \in {"flush", "cancel"}
    PROVE  /\ Append(q, x) \in Seq({"flush", "cancel"})
           /\ Flushes(Append(q, x)) # {} => Flushes(q) # {} \/ x = "flush"
           /\ x # "flush" /\ AtMostOne(Flushes(q)) => AtMostOne(Flushes(Append(q, x)))
           /\ Flushes(q) = {} => AtMostOne(Flushes(Append(q, x)))
<1>1. PICK t : t = Append(q, x)
    OBVIOUS
<1>2. /\ t \in Seq({"flush", "cancel"}) /\ Len(t) = Len(q) + 1 /\ Len(q) \in Nat
      /\ \A i \in 1 .. Len(q) : t[i] = q[i]
      /\ t[Len(q) + 1] = x
    BY <1>1, AppendProperties, LenProperties
<1>3. \A i \in Flushes(t) : i \in Flushes(q) \/ (x = "flush" /\ i = Len(q) + 1)
    BY <1>2 DEF Flushes
<1> QED  BY <1>1, <1>2, <1>3 DEF AtMostOne

\* A flush is queued.
LEMMA FlushIn ==
    ASSUME NEW q \in Seq({"flush", "cancel"})
    PROVE  "flush" \in Range(q) <=> Flushes(q) # {}
<1>1. DOMAIN q = 1 .. Len(q)
    OBVIOUS
<1>2. "flush" \in Range(q) <=> \E i \in 1 .. Len(q) : q[i] = "flush"
    BY <1>1 DEF Range
<1> QED  BY <1>2 DEF Flushes

\* A reader queues its chunk.
LEMMA SendInv ==
    ASSUME Inv, NEW s \in Streams, Send(s)
    PROVE  Inv'
<1>1. /\ UNCHANGED <<kind, child, kin, made, took, input, srv, vm, sup, log, path, note, rpc,
                     ctl, wire, mark, count>>
      /\ reader[s] = "send" /\ reader' = [reader EXCEPT ![s] = "read"]
      /\ chan' = Append(chan, <<s, took[s]>>)
    BY DEF Send, host
<1>2. PICK c : c = <<s, took[s]>>
    OBVIOUS
<1>3. took[s] \in 1 .. MaxOut
    BY <1>1, Counters DEF Inv, Threads
<1>4. c \in Chunks /\ \A t \in Streams : ChunkNo(c, t) = IF t = s THEN took[s] ELSE 0
    BY <1>2, <1>3 DEF Chunks, ChunkNo
<1>5. chan \in Seq(Chunks) /\ chan' \in Seq(Chunks) /\ chan' = Append(chan, c)
  <2>1. chan \in Seq(Chunks)
      BY DEF Inv, TypeOK
  <2> QED  BY <1>1, <1>2, <1>4, <2>1, AppendProperties
<1>6. TypeOK'
  <2>1. reader' \in [Streams -> {"read", "send", "end"}]
      BY <1>1, Counters
  <2> QED  BY <1>1, <1>5, <2>1 DEF Inv, TypeOK
<1>7. \A t \in Streams : /\ Queued(t) \in Nat
                         /\ Queued(t)' = IF t = s THEN took[s] ELSE Queued(t)
                         /\ t = s => took[s] = Queued(t) + 1
    BY <1>1, <1>3, Counters DEF Queued, Inv, Threads
<1>8. Pipe'
  <2> SUFFICES ASSUME NEW t \in Streams
               PROVE  (InOrder(t) /\ \E a, b \in Nat : Flows(t, a, b))'
      BY DEF Pipe
  <2>1. PICK a \in Nat, b \in Nat : Flows(t, a, b)
      BY DEF Inv, Pipe
  <2>2. Run(ChanNos(chan, t), Len(chan), b, Queued(t))
      BY <2>1 DEF Flows
  <2>3. Run(ChanNos(chan', t), Len(chan'), b, Queued(t)')
    <3>1. CASE t = s
        BY <1>4, <1>5, <1>7, <2>2, <3>1, ChanAppend
    <3>2. CASE t # s
        BY <1>4, <1>5, <1>7, <2>2, <3>2, ChanAppend
    <3> QED  BY <3>1, <3>2
  <2>4. Flows(t, a, b)'
      BY <1>1, <2>1, <2>3 DEF Flows, InLog, Acks
  <2>5. InOrder(t)'
      BY <1>1 DEF Inv, Pipe, InOrder
  <2> QED  BY <2>4, <2>5
<1>9. Threads'
  <2>1. kind = "exec" /\ srv.pc # "closed" /\ srv.pc # "relay"
    <3>1. kind \in {"exec", "pty"}
        BY ExecStreamAssumption DEF Inv, TypeOK
    <3>2. kind = "exec"
        BY <1>1, <3>1 DEF Inv, Threads
    <3> QED  BY <1>1, <3>2 DEF Inv, Threads, ExecPlaces
  <2>2. ASSUME NEW t \in Streams
        PROVE  mark[t] <= Queued(t)'
    <3>1. mark[t] <= Queued(t) /\ mark[t] \in Nat
        BY Counters DEF Inv, Threads
    <3>2. CASE t = s
        BY <1>7, <3>1, <3>2
    <3>3. CASE t # s
        BY <1>7, <3>1, <3>3
    <3> QED  BY <3>2, <3>3
  <2>3. \A t \in Streams : /\ reader'[t] = "send" => reader[t] = "send"
                           /\ reader'[t] = "end" => reader[t] = "end"
      BY <1>1, Counters
  <2> QED  BY <1>1, <2>1, <2>2, <2>3 DEF Inv, Threads, Held
<1>10. OneFlush' /\ Ended'
    BY <1>1 DEF Inv, OneFlush, AtMostOne, Flushes, Pending, Acks, Ended
<1>11. ExitCode' /\ Permits' /\ Marked'
    BY <1>1 DEF Inv, ExitCode, Faithful, Status, Permits, Marked, InLog
<1> QED  BY <1>6, <1>8, <1>9, <1>10, <1>11 DEF Inv

\* A control frame reaches the exec server.
LEMMA InputMonitorInv ==
    ASSUME Inv, InputMonitor
    PROVE  Inv'
<1>1. /\ UNCHANGED <<kind, child, kin, made, took, reader, chan, srv, vm, sup, log, path, note, rpc,
                     wire, mark, count>>
      /\ kind = "exec" /\ ctl # <<>>
      /\ input' = Append(input, Head(ctl)) /\ ctl' = Tail(ctl)
    BY DEF InputMonitor, host
<1>2. ctl \in Seq({"flush", "cancel"}) /\ input \in Seq({"flush", "cancel"})
    BY DEF Inv, TypeOK
<1>3. PICK x : x = Head(ctl)
    OBVIOUS
<1>4. /\ ctl' \in Seq({"flush", "cancel"}) /\ x \in {"flush", "cancel"}
      /\ Flushes(ctl') # {} => Flushes(ctl) # {}
      /\ x = "flush" => Flushes(ctl) # {}
      /\ AtMostOne(Flushes(ctl)) => AtMostOne(Flushes(ctl'))
      /\ AtMostOne(Flushes(ctl)) /\ x = "flush" => Flushes(ctl') = {}
    BY <1>1, <1>2, <1>3, FlushTail
<1>5. /\ input' \in Seq({"flush", "cancel"})
      /\ Flushes(input') # {} => Flushes(input) # {} \/ x = "flush"
    BY <1>1, <1>2, <1>3, <1>4, FlushAppend
<1>6. TypeOK'
    BY <1>1, <1>4, <1>5 DEF Inv, TypeOK
<1>7. Pipe'
    BY <1>1, PipeKept DEF Inv, Queued
<1>8. Threads'
  <2>1. srv.pc # "relay"
      BY <1>1 DEF Inv, Threads, ExecPlaces
  <2> QED  BY <1>1, <2>1 DEF Inv, Threads, Held, Queued
<1>9. Flushes(ctl)' = Flushes(ctl') /\ Flushes(input)' = Flushes(input') /\ Acks' = Acks
    BY <1>1 DEF Flushes, Acks
<1>10. OneFlush'
    BY <1>1, <1>4, <1>5, <1>9 DEF Inv, OneFlush, Pending, AtMostOne
<1>11. Ended' /\ ExitCode'
    BY <1>1 DEF Inv, Ended, ExitCode, Faithful, Status
<1>12. Permits' /\ Marked'
    BY <1>1 DEF Inv, Permits, Marked, InLog
<1> QED  BY <1>6, <1>7, <1>8, <1>10, <1>11, <1>12 DEF Inv


\* The kind of the workload.
LEMMA KindFacts ==
    ASSUME Inv
    PROVE  kind = "exec" \/ kind = "pty"
  BY ExecStreamAssumption DEF Inv, TypeOK

\* The process and its group are killed.
LEMMA KillFacts ==
    ASSUME Inv, child' = Killed, kin' = KinKilled
    PROVE  /\ child' \in Children
           /\ child'.st = "reaped" /\ child'.code # "none"
           /\ child.st = "run" => child'.code = "kill"
           /\ child.st # "run" => child'.code = child.code
           /\ kin' \in {"none", "group", "own"}
           /\ Held' => Held
<1>1. /\ child \in Children
      /\ child.st = "run" <=> child.code = "none"
      /\ kin \in {"none", "group", "own"}
    BY DEF Inv, TypeOK, ExitCode
<1>2. child' = [child EXCEPT !.st = "reaped", !.code = IF child.st = "run" THEN "kill" ELSE child.code]
    BY DEF Killed
<1>3. /\ child'.st = "reaped" /\ child'.code = IF child.st = "run" THEN "kill" ELSE child.code
      /\ child' \in Children
    BY <1>1, <1>2 DEF Children
<1>4. kin' \in {"none", "group", "own"} /\ (kin' # "none" => kin # "none")
    BY <1>1 DEF KinKilled
<1> QED  BY <1>1, <1>3, <1>4 DEF Held

\* How a step of the exec thread leaves the process and itself: it goes on, or has the
\* process's exit, or finds it reaped by PID 1, or kills it.
Goes == /\ UNCHANGED <<child, kin>>
        /\ srv'.pc \in {"in1", "in2", "recv", "wait"} /\ srv'.code = srv.code
Exits == /\ child.st = "zombie" /\ child'.st = "reaped" /\ child'.code = child.code /\ kin' = kin
         /\ srv'.pc = "join" /\ srv'.code = exit_code(child.code)
Reaped == /\ child.st = "reaped" /\ UNCHANGED <<child, kin>>
          /\ srv'.pc = "join" /\ srv'.code = "zero"
Kills == /\ child' = Killed /\ kin' = KinKilled
         /\ srv'.pc = "join" /\ srv'.code = "kill"

\* What such a step does to the process keeps the exit code right.
LEMMA MoveCode ==
    ASSUME Inv, kind = "exec", Goes \/ Exits \/ Reaped \/ Kills, child' \in Children, srv' \in Servers,
           srv'.exited = srv.exited, srv.pc \notin {"join", "closed"}, UNCHANGED <<kind, vm, sup>>,
           \A i \in 1 .. Len(wire') : wire'[i].t # "exit"
    PROVE  ExitCode' /\ (Held' => Held)
<1>1. (~srv.exited /\ ~sup.exit) \/ vm = "halted"
    BY DEF Inv, Threads, Ended
<1>2. /\ child.st = "run" <=> child.code = "none"
      /\ child.code = "kill" => child.st = "reaped"
      /\ vm = "up" => child.st # "reaped"
      /\ ~srv'.exited
    BY DEF Inv, ExitCode, Threads
<1>3. CASE Goes
    BY <1>1, <1>2, <1>3 DEF Goes, ExitCode, Faithful, Status, Held
<1>4. CASE Exits
  <2>1. child.code \in {"zero", "own", "signal"}
      BY <1>2, <1>4 DEF Inv, TypeOK, Children, ExitCode, Exits
  <2>2. srv'.code = Status(child.code)
      BY <1>4, <2>1 DEF Exits, exit_code, Status
  <2>3. vm = "up" => Faithful(srv.code)'
      BY <1>4, <2>2 DEF Exits, Faithful, Status
  <2> QED  BY <1>1, <1>2, <1>4, <2>1, <2>3 DEF Exits, ExitCode, Held
<1>5. CASE Reaped
    BY <1>1, <1>2, <1>5 DEF Reaped, ExitCode, Faithful, Status, Held
<1>6. CASE Kills
    BY <1>1, <1>2, <1>6, KillFacts DEF Kills, ExitCode, Faithful, Status
<1> QED  BY <1>3, <1>4, <1>5, <1>6

\* The exec thread moves without touching the output.
LEMMA MoveInv ==
    ASSUME Inv, kind = "exec", Goes \/ Exits \/ Reaped \/ Kills, child' \in Children,
           kin' \in {"none", "group", "own"}, srv' \in Servers,
           srv'.exited = srv.exited, srv.pc \in {"in1", "in2", "wait"}, vm # "halted",
           UNCHANGED <<kind, made, took, reader, chan, vm, sup, log, path, note, rpc, ctl, wire, mark>>,
           input' = input \/ input' = <<>>,
           count' = count \/ (count.faults < MaxFaults /\ count' = [count EXCEPT !.faults = @ + 1])
    PROVE  Inv'
<1>1. /\ count' \in Counts
      /\ count'.late = count.late
    BY CountFacts
<1>2. input' \in Seq({"flush", "cancel"})
  <2>1. input \in Seq({"flush", "cancel"}) /\ <<>> \in Seq({"flush", "cancel"})
      BY DEF Inv, TypeOK
  <2> QED  BY <2>1
<1>3. TypeOK'
    BY <1>1, <1>2 DEF Inv, TypeOK
<1>4. Pipe'
    BY PipeKept DEF Inv, Queued
<1>5. ~sup.exit /\ \A i \in 1 .. Len(wire) : wire[i].t # "exit"
    BY DEF Inv, Ended
<1>6. ExitCode' /\ (Held' => Held)
    BY <1>5, MoveCode
<1>7. srv'.pc \in {"in1", "in2", "recv", "wait", "join"}
    BY DEF Goes, Exits, Reaped, Kills
<1>8. Threads'
  <2>1. srv'.pc \in ExecPlaces /\ srv'.pc # "closed" /\ srv'.pc # "relay"
      BY <1>7 DEF ExecPlaces
  <2> QED  BY <1>6, <2>1 DEF Inv, Threads, Queued
<1>9. Flushes(ctl)' = Flushes(ctl) /\ Acks' = Acks /\ (Flushes(input)' # {} => Flushes(input) # {})
  <2>1. \A i \in 1 .. Len(<<>>) : FALSE
      OBVIOUS
  <2> QED  BY <2>1 DEF Flushes, Acks
<1>10. OneFlush'
    BY <1>7, <1>9 DEF Inv, OneFlush, AtMostOne, Pending
<1>11. Ended'
    BY <1>5, <1>7 DEF Inv, Ended
<1>12. Permits' /\ Marked'
    BY <1>1 DEF Inv, Permits, Marked, InLog
<1> QED  BY <1>3, <1>4, <1>6, <1>8, <1>10, <1>11, <1>12 DEF Inv

\* The exec thread processes the control frames: it takes a flush, or kills the
\* process, or goes on.
LEMMA InputInv ==
    ASSUME Inv, Input
    PROVE  Inv'
<1>1. /\ UNCHANGED <<kind, made, took, reader, chan, vm, sup, log, path, note, rpc, ctl, wire, count>>
      /\ srv.pc \in {"in1", "in2"} /\ input' = <<>> /\ vm # "halted"
    BY DEF Input, host
<1>2. /\ kind = "exec"
      /\ srv \in Servers
      /\ child \in Children
      /\ input \in Seq({"flush", "cancel"})
  <2>1. kind = "exec"
      BY <1>1, KindFacts DEF Inv, Threads, PtyPlaces
  <2> QED  BY <2>1 DEF Inv, TypeOK
<1>3. \A s \in Streams : Queued(s)' = Queued(s) /\ Queued(s) \in 0 .. MaxOut
    BY <1>1, Counters DEF Queued, Inv, Threads
<1>4. Flushes(ctl)' = Flushes(ctl) /\ Flushes(input)' = {} /\ Acks' = Acks
  <2>1. \A i \in 1 .. Len(<<>>) : FALSE
      OBVIOUS
  <2> QED  BY <1>1, <2>1 DEF Flushes, Acks
<1>5. CASE "flush" \in Range(input)
  <2>1. PICK cancel : cancel = ("cancel" \in Range(input))
      OBVIOUS
  <2>2. PICK pc : pc = IF srv.pc = "in1" THEN "ack1" ELSE "ack2"
      OBVIOUS
  <2>3. /\ mark' = [s \in Streams |-> took[s] - (IF reader[s] = "send" THEN 1 ELSE 0)]
        /\ srv' = [srv EXCEPT !.pc = pc, !.stop = cancel]
        /\ child' = child /\ kin' = kin
      BY <1>5, <2>1, <2>2 DEF Input
  <2>4. pc \in {"ack1", "ack2"} /\ cancel \in BOOLEAN
      BY <2>1, <2>2
  <2>5. /\ srv'.pc = pc /\ srv'.code = srv.code /\ srv'.exited = srv.exited
        /\ srv' \in Servers
      BY <1>2, <2>3, <2>4 DEF Servers
  <2>6. \A s \in Streams : mark'[s] = Queued(s)
      BY <2>3, Counters DEF Queued
  <2>7. mark' \in [Streams -> 0 .. MaxOut]
      BY <1>3, <2>3, <2>6
  <2>8. TypeOK'
    <3>1. input' \in Seq({"flush", "cancel"})
        BY <1>1
    <3> QED  BY <1>1, <2>3, <2>5, <2>7, <3>1 DEF Inv, TypeOK
  <2>9. Flushes(input) # {} /\ Acks = {} /\ Flushes(ctl) = {}
      BY <1>2, <1>5, FlushIn DEF Inv, OneFlush
  <2>10. Pipe'
    <3> SUFFICES ASSUME NEW s \in Streams
                 PROVE  (InOrder(s) /\ \E a, b \in Nat : Flows(s, a, b))'
        BY DEF Pipe
    <3>1. PICK a \in Nat, b \in Nat : Flows(s, a, b)
        BY DEF Inv, Pipe
    <3>2. Flows(s, a, b)'
        BY <1>1, <1>3, <1>4, <2>9, <3>1 DEF Flows, InLog
    <3>3. InOrder(s)'
        BY <1>1 DEF Inv, Pipe, InOrder
    <3> QED  BY <3>2, <3>3
  <2>11. Threads'
    <3>1. \A s \in Streams : mark'[s] <= Queued(s)'
        BY <1>3, <2>6
    <3>2. pc \in ExecPlaces /\ pc # "closed" /\ pc # "relay"
        BY <2>4 DEF ExecPlaces
    <3> QED  BY <1>1, <1>2, <2>3, <2>5, <3>1, <3>2 DEF Inv, Threads, Held
  <2>12. OneFlush'
    <3>1. Pending /\ Flushes(input) # {}
        BY <2>9 DEF Pending
    <3> QED  BY <1>1, <1>4, <2>9, <3>1 DEF Inv, OneFlush, AtMostOne, Pending
  <2>13. ~sup.exit
      BY <1>1 DEF Inv, Ended
  <2>14. Ended'
      BY <1>1, <2>4, <2>5, <2>13 DEF Inv, Ended
  <2>15. ExitCode'
      BY <1>1, <1>2, <2>3, <2>4, <2>5, <2>13 DEF Inv, ExitCode, Faithful, Status, Threads
  <2>16. sup.pc = "drain"
      BY <2>9, <2>13 DEF Inv, OneFlush, Pending
  <2>17. Permits' /\ Marked'
      BY <1>1, <2>16 DEF Inv, Permits, Marked
  <2> QED  BY <2>8, <2>10, <2>11, <2>12, <2>14, <2>15, <2>17 DEF Inv
<1>6. CASE "flush" \notin Range(input)
  <2>0. mark' = mark /\ (\/ child' = Killed /\ kin' = KinKilled /\ srv' = [srv EXCEPT !.pc = "join", !.code = "kill"]
                         \/ child' = child /\ kin' = kin /\ srv' = [srv EXCEPT !.pc = AfterInput(@)])
      BY <1>6 DEF Input, KillAndStop
  <2>1. \/ child' = Killed /\ kin' = KinKilled /\ srv' = [srv EXCEPT !.pc = "join", !.code = "kill"]
        \/ child' = child /\ kin' = kin /\ srv' = [srv EXCEPT !.pc = AfterInput(srv.pc)]
      BY <2>0
  <2>2. srv' \in Servers /\ srv'.exited = srv.exited /\ child' \in Children /\ kin' \in {"none", "group", "own"}
        /\ (Goes \/ Kills)
    <3>0. {"join", "recv", "wait"} \subseteq {"in1", "in2", "ack1", "ack2", "recv", "wait", "join", "poll",
                                              "relay", "check", "reap", "broken", "closed"}
          /\ "kill" \in Codes
        BY DEF Codes
    <3>1. CASE child' = Killed /\ kin' = KinKilled /\ srv' = [srv EXCEPT !.pc = "join", !.code = "kill"]
      <4>1. srv' \in Servers /\ srv'.exited = srv.exited /\ srv'.pc = "join" /\ srv'.code = "kill"
          BY <1>2, <3>0, <3>1 DEF Servers
      <4> QED  BY <3>1, <4>1, KillFacts DEF Children, Kills
    <3>2. CASE child' = child /\ kin' = kin /\ srv' = [srv EXCEPT !.pc = AfterInput(srv.pc)]
      <4>1. PICK pc : pc = AfterInput(srv.pc)
          OBVIOUS
      <4>2. pc \in {"recv", "wait"} /\ srv' = [srv EXCEPT !.pc = pc]
          BY <3>2, <4>1 DEF AfterInput
      <4>3. srv' \in Servers /\ srv'.exited = srv.exited /\ srv'.pc = pc /\ srv'.code = srv.code
          BY <1>2, <3>0, <4>2 DEF Servers
      <4> QED  BY <1>2, <3>2, <4>2, <4>3 DEF Goes, Inv, TypeOK
    <3> QED  BY <2>1, <3>1, <3>2
  <2> QED  BY <1>1, <1>2, <2>0, <2>2, MoveInv
<1> QED  BY <1>5, <1>6


\* try_wait.
LEMMA TryWaitInv ==
    ASSUME Inv, TryWait
    PROVE  Inv'
<1>1. /\ UNCHANGED <<kind, made, took, reader, chan, input, vm, sup, log, path, note, rpc, ctl, wire, mark>>
      /\ srv.pc = "wait" /\ vm # "halted"
    BY DEF TryWait, host
<1>2. /\ kind = "exec" /\ srv \in Servers /\ child \in Children /\ kin \in {"none", "group", "own"}
  <2>1. kind = "exec"
      BY <1>1, KindFacts DEF Inv, Threads, PtyPlaces
  <2> QED  BY <2>1 DEF Inv, TypeOK
<1>3. count' = count \/ (count.faults < MaxFaults /\ count' = [count EXCEPT !.faults = @ + 1])
    BY DEF TryWait, Fault
<1>4. {"join", "in1"} \subseteq {"in1", "in2", "ack1", "ack2", "recv", "wait", "join", "poll",
                                 "relay", "check", "reap", "broken", "closed"}
      /\ {"kill", "zero", "own", "one"} \subseteq Codes
    BY DEF Codes
<1>5. CASE /\ child.st = "zombie" /\ child' = [child EXCEPT !.st = "reaped"] /\ kin' = kin
           /\ srv' = [srv EXCEPT !.pc = "join", !.code = exit_code(child.code)]
  <2>1. PICK k : k = exit_code(child.code)
      OBVIOUS
  <2>2. k \in {"zero", "own", "one"}
      BY <2>1 DEF exit_code
  <2>3. srv' \in Servers /\ srv'.exited = srv.exited /\ srv'.pc = "join" /\ srv'.code = k
      BY <1>2, <1>4, <1>5, <2>1, <2>2 DEF Servers
  <2>4. child' \in Children /\ child'.st = "reaped" /\ child'.code = child.code
      BY <1>2, <1>5 DEF Children
  <2>5. Exits
      BY <1>5, <2>1, <2>3, <2>4 DEF Exits
  <2> QED  BY <1>1, <1>2, <1>3, <1>5, <2>3, <2>4, <2>5, MoveInv
<1>6. CASE /\ child.st = "reaped" /\ child' = child /\ kin' = kin
           /\ srv' = [srv EXCEPT !.pc = "join", !.code = "zero"]
  <2>1. srv' \in Servers /\ srv'.exited = srv.exited /\ srv'.pc = "join" /\ srv'.code = "zero"
      BY <1>2, <1>4, <1>6 DEF Servers
  <2>2. Reaped
      BY <1>6, <2>1 DEF Reaped
  <2> QED  BY <1>1, <1>2, <1>3, <1>6, <2>1, <2>2, MoveInv
<1>7. CASE child' = Killed /\ kin' = KinKilled /\ srv' = [srv EXCEPT !.pc = "join", !.code = "kill"]
  <2>1. srv' \in Servers /\ srv'.exited = srv.exited /\ srv'.pc = "join" /\ srv'.code = "kill"
      BY <1>2, <1>4, <1>7 DEF Servers
  <2>2. Kills /\ child' \in Children /\ kin' \in {"none", "group", "own"}
      BY <1>7, <2>1, KillFacts DEF Kills, Children
  <2> QED  BY <1>1, <1>2, <1>3, <2>1, <2>2, MoveInv
<1>8. CASE child' = child /\ kin' = kin /\ srv' = [srv EXCEPT !.pc = "in1"]
  <2>1. srv' \in Servers /\ srv'.exited = srv.exited /\ srv'.pc = "in1" /\ srv'.code = srv.code
      BY <1>2, <1>4, <1>8 DEF Servers
  <2>2. Goes
      BY <1>8, <2>1 DEF Goes
  <2> QED  BY <1>1, <1>2, <1>3, <1>8, <2>1, <2>2, MoveInv
<1> QED  BY <1>5, <1>6, <1>7, <1>8 DEF TryWait, KillAndStop

\* StopContainer asks the supervisor, which cancels the workload.
LEMMA StopInv ==
    ASSUME Inv, SupStop \/ StopContainer
    PROVE  Inv'
<1>1. /\ UNCHANGED <<kind, child, kin, made, took, reader, chan, input, srv, vm, log, path, note, rpc,
                     wire, mark, count>>
      /\ \E x \in {"asked", "sent"} : sup' = [sup EXCEPT !.stop = x]
      /\ ctl' = ctl \/ ctl' = Append(ctl, "cancel")
    BY DEF SupStop, StopContainer, guest
<1>2. sup \in Supervisors /\ ctl \in Seq({"flush", "cancel"})
    BY DEF Inv, TypeOK
<1>3. /\ sup' \in Supervisors /\ sup'.pc = sup.pc /\ sup'.fd = sup.fd /\ sup'.code = sup.code
      /\ sup'.exit = sup.exit
    BY <1>1, <1>2 DEF Supervisors
<1>4. /\ ctl' \in Seq({"flush", "cancel"})
      /\ Flushes(ctl') # {} => Flushes(ctl) # {}
      /\ AtMostOne(Flushes(ctl)) => AtMostOne(Flushes(ctl'))
  <2>1. CASE ctl' = ctl
      BY <1>2, <2>1
  <2>2. CASE ctl' = Append(ctl, "cancel")
      BY <1>2, <2>2, FlushAppend
  <2> QED  BY <1>1, <2>1, <2>2
<1>5. TypeOK'
    BY <1>1, <1>3, <1>4 DEF Inv, TypeOK
<1>6. Pipe'
    BY <1>1, PipeKept DEF Inv, Queued
<1>7. Threads'
    BY <1>1 DEF Inv, Threads, Held, Queued
<1>8. OneFlush'
  <2>1. Flushes(ctl)' = Flushes(ctl') /\ Flushes(input)' = Flushes(input) /\ Acks' = Acks
      BY <1>1 DEF Flushes, Acks
  <2> QED  BY <1>1, <1>3, <1>4, <2>1 DEF Inv, OneFlush, Pending, AtMostOne
<1>9. Ended' /\ ExitCode'
    BY <1>1, <1>3 DEF Inv, Ended, ExitCode, Faithful, Status
<1>10. Permits' /\ Marked'
    BY <1>1, <1>3 DEF Inv, Permits, Marked, InLog
<1> QED  BY <1>5, <1>6, <1>7, <1>8, <1>9, <1>10 DEF Inv

\* The kubelet rotates the log, calls ReopenContainerLog and gets its answer.
LEMMA CallInv ==
    ASSUME Inv, Rotate \/ ReopenCall \/ ReopenReturn
    PROVE  Inv'
<1>1. /\ UNCHANGED <<kind, child, kin, made, took, reader, chan, input, srv, vm, sup, log, ctl, wire, mark>>
      /\ path' = path \/ path' = 0
    BY DEF Rotate, ReopenCall, ReopenReturn, guest
<1>2. note \in Notes /\ count \in Counts /\ path \in 0 .. Len(log) /\ Len(log) \in Nat
  <2>1. log \in Seq(Seq(Chunks))
      BY DEF Inv, TypeOK
  <2> QED  BY <2>1, LenProperties DEF Inv, TypeOK
<1>3. path' \in 0 .. Len(log) /\ rpc' \in {"idle", "call", "wait", "done", "late"}
    BY <1>1, <1>2 DEF Rotate, ReopenCall, ReopenReturn, reopen_signal, Inv, TypeOK
<1>4. note' \in Notes /\ count' \in Counts /\ Permits'
  <2>1. CASE Rotate
    <3>1. /\ rpc \in {"idle", "done", "late"} /\ path' = 0 /\ rpc' = "call" /\ note' = note
          /\ count' = [count EXCEPT !.rotations = @ + 1] /\ count.rotations < MaxRotations
        BY <2>1 DEF Rotate
    <3>2. count' \in Counts /\ count'.late = count.late
        BY <1>2, <3>1, ExecStreamAssumption DEF Counts
    <3> QED  BY <1>1, <1>2, <3>1, <3>2 DEF Inv, Permits
  <2>2. CASE ReopenCall
    <3>1. /\ rpc = "call" /\ path' = path /\ count' = count
          /\ \/ rpc' = "idle" /\ note' = note
             \/ rpc' = "wait" /\ note' = [note EXCEPT !.request = TRUE]
        BY <2>2 DEF ReopenCall, reopen_signal
    <3>2. note' \in Notes /\ note'.done = note.done /\ (rpc' = "idle" => note' = note)
        BY <1>2, <3>1 DEF Notes
    <3> QED  BY <1>1, <1>2, <3>1, <3>2 DEF Inv, Permits
  <2>3. CASE ReopenReturn
    <3>1. /\ rpc = "wait" /\ path' = path
          /\ \/ note.done /\ rpc' = "done" /\ note' = [note EXCEPT !.done = FALSE] /\ count' = count
             \/ rpc' = "late" /\ note' = note /\ count' = [count EXCEPT !.late = @ + 1]
        BY <2>3 DEF ReopenReturn
    <3>2. CASE note.done /\ rpc' = "done" /\ note' = [note EXCEPT !.done = FALSE] /\ count' = count
      <4>1. note' \in Notes /\ ~note'.done /\ note'.request = note.request
          BY <1>2, <3>2 DEF Notes
      <4> QED  BY <1>1, <1>2, <3>1, <3>2, <4>1 DEF Inv, Permits
    <3>3. CASE rpc' = "late" /\ note' = note /\ count' = [count EXCEPT !.late = @ + 1]
      <4>1. count' \in Counts /\ count'.late > 0
          BY <1>2, <3>3 DEF Counts
      <4> QED  BY <1>1, <1>2, <3>1, <3>3, <4>1 DEF Inv, Permits
    <3> QED  BY <3>1, <3>2, <3>3
  <2> QED  BY <2>1, <2>2, <2>3
<1>5. TypeOK'
    BY <1>1, <1>3, <1>4 DEF Inv, TypeOK
<1>6. Pipe'
    BY <1>1, PipeKept DEF Inv, Queued
<1>7. Threads'
    BY <1>1 DEF Inv, Threads, Held, Queued
<1>8. OneFlush'
    BY <1>1 DEF Inv, OneFlush, AtMostOne, Flushes, Pending, Acks
<1>9. Ended' /\ ExitCode' /\ Marked'
    BY <1>1 DEF Inv, Ended, ExitCode, Faithful, Status, Marked, InLog
<1> QED  BY <1>4, <1>5, <1>6, <1>7, <1>8, <1>9 DEF Inv

\* The supervisor is asked to reopen the log, and sends a flush if it can.
LEMMA SupReopenInv ==
    ASSUME Inv, SupReopen
    PROVE  Inv'
<1>1. /\ UNCHANGED <<kind, child, kin, made, took, reader, chan, input, srv, vm, log, path, rpc,
                     wire, mark, count>>
      /\ sup.pc = "select" /\ note.request /\ note' = [note EXCEPT !.request = FALSE]
      /\ \/ kind = "exec" /\ ctl' = Append(ctl, "flush") /\ sup' = [sup EXCEPT !.pc = "drain"]
         \/ ctl' = ctl /\ sup' = [sup EXCEPT !.pc = "reopen"]
    BY DEF SupReopen, guest
<1>2. sup \in Supervisors /\ note \in Notes /\ ctl \in Seq({"flush", "cancel"})
    BY DEF Inv, TypeOK
<1>3. note' \in Notes /\ ~note'.request /\ note'.done = note.done
    BY <1>1, <1>2 DEF Notes
<1>4. /\ sup' \in Supervisors /\ sup'.pc \in {"drain", "reopen"} /\ sup'.fd = sup.fd /\ sup'.code = sup.code
      /\ sup'.exit = sup.exit /\ sup'.stop = sup.stop
      /\ sup'.pc = "drain" <=> ctl' = Append(ctl, "flush") /\ sup' = [sup EXCEPT !.pc = "drain"]
  <2>1. {"drain", "reopen"} \subseteq {"select", "drain", "reopen", "end"}
      OBVIOUS
  <2> QED  BY <1>1, <1>2, <2>1 DEF Supervisors
<1>5. ~sup.exit /\ ~Pending
    BY <1>1 DEF Inv, OneFlush, Ended
<1>6. ctl' \in Seq({"flush", "cancel"}) /\ AtMostOne(Flushes(ctl')) /\ (sup'.pc = "reopen" => Flushes(ctl') = {})
  <2>1. Flushes(ctl) = {}
      BY <1>5 DEF Pending
  <2>2. CASE ctl' = Append(ctl, "flush")
      BY <1>1, <1>2, <1>4, <2>1, <2>2, FlushAppend
  <2>3. CASE ctl' = ctl
      BY <1>2, <2>1, <2>3 DEF AtMostOne
  <2> QED  BY <1>1, <2>2, <2>3
<1>7. TypeOK'
    BY <1>1, <1>3, <1>4, <1>6 DEF Inv, TypeOK
<1>8. Pipe'
    BY <1>1, PipeKept DEF Inv, Queued
<1>9. Threads'
    BY <1>1 DEF Inv, Threads, Held, Queued
<1>10. OneFlush'
  <2>1. Flushes(ctl)' = Flushes(ctl') /\ Flushes(input)' = Flushes(input) /\ Acks' = Acks
      BY <1>1 DEF Flushes, Acks
  <2> QED  BY <1>1, <1>4, <1>5, <1>6, <2>1 DEF OneFlush, Pending, AtMostOne
<1>11. Ended' /\ ExitCode'
    BY <1>1, <1>4, <1>5 DEF Inv, Ended, ExitCode, Faithful, Status
<1>12. Permits'
    BY <1>1, <1>3, <1>4 DEF Inv, Permits
<1>13. Marked'
    BY <1>1, <1>4 DEF Inv, Marked, InLog
<1> QED  BY <1>7, <1>8, <1>9, <1>10, <1>11, <1>12, <1>13 DEF Inv

\* The PTY thread polls.
LEMMA PtyPollInv ==
    ASSUME Inv, PtyPoll
    PROVE  Inv'
<1>1. /\ UNCHANGED <<kind, child, kin, made, took, reader, chan, input, vm, sup, log, path, note, rpc,
                     ctl, wire, mark, count>>
      /\ srv.pc = "poll"
      /\ srv' = [srv EXCEPT !.pc = "relay", !.pollin = took["stdout"] < made["stdout"],
                            !.hup = ~Held, !.stop = ctl # <<>>]
    BY DEF PtyPoll, host
<1>2. PICK y \in BOOLEAN : y = (took["stdout"] < made["stdout"])
  <2>1. "stdout" \in Streams /\ took["stdout"] \in Nat /\ made["stdout"] \in Nat
      BY Counters, ExecStreamAssumption
  <2>2. \A m, n \in Nat : (m < n) \in BOOLEAN
      OBVIOUS
  <2>3. PICK y : y = (took["stdout"] < made["stdout"])
      OBVIOUS
  <2>4. y \in BOOLEAN
      BY <2>1, <2>2, <2>3
  <2> QED  BY <2>3, <2>4
<1>3. PICK h \in BOOLEAN : h = ~Held
    OBVIOUS
<1>14. PICK x \in BOOLEAN : x = (ctl # <<>>)
    OBVIOUS
<1>4. srv' = [srv EXCEPT !.pc = "relay", !.pollin = y, !.hup = h, !.stop = x]
    BY <1>1, <1>2, <1>3, <1>14
<1>5. srv \in Servers
    BY DEF Inv, TypeOK
<1>6. /\ srv' \in Servers /\ srv'.pc = "relay" /\ srv'.pollin = y /\ srv'.stop = x
      /\ srv'.code = srv.code /\ srv'.exited = srv.exited
    BY <1>4, <1>5 DEF Servers
<1>7. TypeOK'
    BY <1>1, <1>6 DEF Inv, TypeOK
<1>8. Pipe'
    BY <1>1, PipeKept DEF Inv, Queued
<1>9. kind = "pty"
    BY <1>1, KindFacts DEF Inv, Threads, ExecPlaces
<1>10. Threads'
  <2>1. "relay" \in PtyPlaces
      BY DEF PtyPlaces
  <2> QED  BY <1>1, <1>2, <1>6, <1>9, <1>14, <2>1 DEF Inv, Threads, Held, Queued
<1>11. OneFlush'
    BY <1>1, <1>6 DEF Inv, OneFlush, AtMostOne, Flushes, Pending, Acks
<1>12. Ended' /\ ExitCode'
    BY <1>1, <1>6 DEF Inv, Ended, ExitCode, Faithful, Status
<1>13. Permits' /\ Marked'
    BY <1>1 DEF Inv, Permits, Marked, InLog
<1> QED  BY <1>7, <1>8, <1>10, <1>11, <1>12, <1>13 DEF Inv


-----------------------------------------------------------------------------
(* Output on its way                                                       *)

\* Frames are written after the ones on the wire.
LEMMA WireGrows ==
    ASSUME wire \in Seq(Frame), NEW q \in Seq(Frame), wire' = wire \o q
    PROVE  /\ wire' \in Seq(Frame) /\ Len(wire) \in Nat /\ Len(q) \in Nat /\ Len(wire') = Len(wire) + Len(q)
           /\ \A i \in 1 .. Len(wire) : i \in 1 .. Len(wire') /\ wire'[i] = wire[i]
           /\ \A i \in 1 .. Len(wire') : \/ i \in 1 .. Len(wire) /\ wire'[i] = wire[i]
                                         \/ /\ i > Len(wire) /\ i - Len(wire) \in 1 .. Len(q)
                                            /\ wire'[i] = q[i - Len(wire)]
<1>1. PICK r : r = wire'
    OBVIOUS
<1>2. /\ r \in Seq(Frame) /\ Len(r) = Len(wire) + Len(q)
      /\ \A i \in 1 .. Len(wire) + Len(q) : r[i] = IF i <= Len(wire) THEN wire[i] ELSE q[i - Len(wire)]
    BY <1>1, ConcatProperties
<1>3. Len(wire) \in Nat /\ Len(q) \in Nat
    BY LenProperties
<1>4. \A i \in 1 .. Len(wire) : i \in 1 .. Len(r) /\ r[i] = wire[i]
    BY <1>2, <1>3
<1>5. \A i \in 1 .. Len(r) : \/ i \in 1 .. Len(wire) /\ r[i] = wire[i]
                             \/ /\ i > Len(wire) /\ i - Len(wire) \in 1 .. Len(q)
                                /\ r[i] = q[i - Len(wire)]
    BY <1>2, <1>3
<1> QED  BY <1>1, <1>2, <1>3, <1>4, <1>5

\* In q, no chunk of s comes after an acknowledgement.
AckLast(q, s) == \A i, j \in 1 .. Len(q) : q[i].t = "ack" /\ i <= j => FrameNo(q[j], s) = 0

\* The chunks of s that were in the channel up to number c are written to the wire.
LEMMA FlowsGrow ==
    ASSUME Inv, NEW s \in Streams, NEW q \in Seq(Frame), wire' = wire \o q, UNCHANGED <<log, mark>>,
           NEW a \in Nat, NEW b \in Nat, NEW c \in Nat, Flows(s, a, b),
           Run(WireNos(q, s), Len(q), b, c), Run(ChanNos(chan', s), Len(chan'), c, Queued(s)'),
           AckLast(q, s), (\E i \in 1 .. Len(q) : q[i].t = "ack") => mark[s] <= c
    PROVE  Flows(s, a, c)'
<1>1. /\ wire \in Seq(Frame) /\ wire' \in Seq(Frame)
      /\ Len(wire) \in Nat /\ Len(q) \in Nat /\ Len(wire') = Len(wire) + Len(q)
      /\ \A i \in 1 .. Len(wire') : \/ i \in 1 .. Len(wire) /\ wire'[i] = wire[i]
                                    \/ /\ i > Len(wire) /\ i - Len(wire) \in 1 .. Len(q)
                                       /\ wire'[i] = q[i - Len(wire)]
    BY WireGrows DEF Inv, TypeOK
<1>2. /\ InLog(s) = 1 .. a /\ Run(WireNos(wire, s), Len(wire), a, b)
      /\ \A i \in Acks : /\ mark[s] <= b
                         /\ \A j \in i .. Len(wire) : FrameNo(wire[j], s) # 0 => FrameNo(wire[j], s) > mark[s]
    BY DEF Flows
<1>3. Run(WireNos(wire', s), Len(wire'), a, c)
    BY <1>1, <1>2, WireConcat
<1>4. /\ b <= c /\ mark[s] \in Nat
      /\ \A i \in 1 .. Len(q) : FrameNo(q[i], s) # 0 => FrameNo(q[i], s) > b
  <2>0. PICK f : f = WireNos(q, s)
      OBVIOUS
  <2>1. \A i \in 1 .. Len(q) : f[i] = FrameNo(q[i], s)
      BY <2>0, WireNosType
  <2>2. b <= c /\ \A i \in 1 .. Len(q) : f[i] # 0 => f[i] \in b + 1 .. c
      BY <2>0 DEF Run
  <2>3. \A i \in 1 .. Len(q) : f[i] # 0 => f[i] > b
      BY <2>2
  <2> QED  BY <2>1, <2>2, <2>3, Counters
<1>5. ASSUME NEW i \in 1 .. Len(wire'), wire'[i].t = "ack"
      PROVE  /\ mark[s] <= c
             /\ \A j \in i .. Len(wire') : FrameNo(wire'[j], s) # 0 => FrameNo(wire'[j], s) > mark[s]
  <2>1. CASE i \in 1 .. Len(wire) /\ wire'[i] = wire[i]
    <3>1. i \in Acks /\ mark[s] <= b
        BY <1>2, <1>5, <2>1 DEF Acks
    <3>2. mark[s] <= c
        BY <1>4, <3>1
    <3>3. ASSUME NEW j \in i .. Len(wire'), FrameNo(wire'[j], s) # 0
          PROVE  FrameNo(wire'[j], s) > mark[s]
      <4>0. j \in 1 .. Len(wire')
          BY <1>1
      <4>1. CASE j \in 1 .. Len(wire) /\ wire'[j] = wire[j]
        <5>1. j \in i .. Len(wire)
            BY <4>1
        <5> QED  BY <1>2, <3>1, <3>3, <4>1, <5>1
      <4>2. CASE j > Len(wire) /\ j - Len(wire) \in 1 .. Len(q) /\ wire'[j] = q[j - Len(wire)]
        <5>1. FrameNo(wire'[j], s) > b /\ FrameNo(wire'[j], s) \in Nat
            BY <1>1, <1>4, <3>3, <4>2, FrameFacts
        <5> QED  BY <1>4, <3>1, <5>1
      <4> QED  BY <1>1, <4>0, <4>1, <4>2
    <3> QED  BY <3>2, <3>3
  <2>2. CASE i > Len(wire) /\ i - Len(wire) \in 1 .. Len(q) /\ wire'[i] = q[i - Len(wire)]
    <3>1. mark[s] <= c
        BY <1>5, <2>2
    <3>2. ASSUME NEW j \in i .. Len(wire')
          PROVE  FrameNo(wire'[j], s) = 0
      <4>1. /\ j \in 1 .. Len(wire') /\ j > Len(wire) /\ j - Len(wire) \in 1 .. Len(q)
            /\ wire'[j] = q[j - Len(wire)] /\ i - Len(wire) <= j - Len(wire)
          BY <1>1, <2>2
      <4> QED  BY <1>5, <2>2, <4>1 DEF AckLast
    <3> QED  BY <3>1, <3>2
  <2> QED  BY <1>1, <2>1, <2>2
<1>6. InLog(s)' = 1 .. a
    BY <1>2 DEF InLog
<1> QED  BY <1>3, <1>5, <1>6 DEF Flows, Acks

\* A wire that grows by frames that are no acknowledgements has the old ones.
LEMMA AcksGrow ==
    ASSUME wire \in Seq(Frame), NEW q \in Seq(Frame), wire' = wire \o q,
           \A i \in 1 .. Len(q) : q[i].t # "ack"
    PROVE  Acks' = Acks
<1>1. /\ \A i \in 1 .. Len(wire) : i \in 1 .. Len(wire') /\ wire'[i] = wire[i]
      /\ \A i \in 1 .. Len(wire') : \/ i \in 1 .. Len(wire) /\ wire'[i] = wire[i]
                                    \/ /\ i > Len(wire) /\ i - Len(wire) \in 1 .. Len(q)
                                       /\ wire'[i] = q[i - Len(wire)]
    BY WireGrows
<1> QED  BY <1>1 DEF Acks

\* Nor does it have an exit frame that neither part had.
LEMMA ExitsGrow ==
    ASSUME wire \in Seq(Frame), NEW q \in Seq(Frame), wire' = wire \o q,
           \A i \in 1 .. Len(wire) : wire[i].t # "exit", \A i \in 1 .. Len(q) : q[i].t # "exit"
    PROVE  \A i \in 1 .. Len(wire') : wire'[i].t # "exit"
<1>1. \A i \in 1 .. Len(wire') : \/ i \in 1 .. Len(wire) /\ wire'[i] = wire[i]
                                 \/ /\ i > Len(wire) /\ i - Len(wire) \in 1 .. Len(q)
                                    /\ wire'[i] = q[i - Len(wire)]
    BY WireGrows
<1> QED  BY <1>1

\* The order in the log does not depend on what is on the wire.
LEMMA OrderKept ==
    ASSUME Inv, UNCHANGED log, NEW s \in Streams
    PROVE  InOrder(s)'
  BY DEF Inv, Pipe, InOrder

\* A chunk is taken from the channel and sent.
LEMMA RecvInv ==
    ASSUME Inv, Recv
    PROVE  Inv'
<1>1. /\ UNCHANGED <<kind, child, kin, made, took, reader, input, vm, sup, log, path, note, rpc,
                     ctl, mark, count>>
      /\ srv.pc = "recv" /\ vm # "halted" /\ srv' = [srv EXCEPT !.pc = "in2"]
      /\ \/ chan = <<>> /\ wire' = wire /\ chan' = chan
         \/ chan # <<>> /\ wire' = wire \o Frames(<<Head(chan)>>) /\ chan' = Tail(chan)
    BY DEF Recv, host
<1>2. /\ kind = "exec" /\ srv \in Servers /\ child \in Children /\ wire \in Seq(Frame) /\ chan \in Seq(Chunks)
  <2>1. kind = "exec"
      BY <1>1, KindFacts DEF Inv, Threads, PtyPlaces
  <2> QED  BY <2>1 DEF Inv, TypeOK
<1>3. srv' \in Servers /\ srv'.pc = "in2" /\ srv'.code = srv.code /\ srv'.exited = srv.exited
    BY <1>1, <1>2 DEF Servers
<1>4. ~sup.exit /\ \A i \in 1 .. Len(wire) : wire[i].t # "exit"
    BY <1>1 DEF Inv, Ended
<1>5. Goes
    BY <1>1, <1>3 DEF Goes
<1>6. \A s \in Streams : Queued(s)' = Queued(s) /\ Queued(s) \in Nat
    BY <1>1, Counters DEF Queued, Inv, Threads
<1>7. CASE chan = <<>> /\ wire' = wire /\ chan' = chan
  <2>1. TypeOK'
      BY <1>1, <1>3, <1>7 DEF Inv, TypeOK
  <2>2. Pipe'
      BY <1>1, <1>6, <1>7, PipeKept DEF Inv
  <2>3. ExitCode'
      BY <1>1, <1>2, <1>3, <1>4, <1>5, <1>7, MoveCode
  <2>4. Threads'
      BY <1>1, <1>2, <1>3, <1>7 DEF Inv, Threads, Queued, Held, ExecPlaces
  <2>5. OneFlush'
      BY <1>1, <1>3, <1>7 DEF Inv, OneFlush, AtMostOne, Flushes, Pending, Acks
  <2>6. Ended' /\ Permits' /\ Marked'
      BY <1>1, <1>3, <1>4, <1>7 DEF Inv, Ended, Permits, Marked, InLog
  <2> QED  BY <2>1, <2>2, <2>3, <2>4, <2>5, <2>6 DEF Inv
<1>8. CASE chan # <<>> /\ wire' = wire \o Frames(<<Head(chan)>>) /\ chan' = Tail(chan)
  <2>1. PICK h : h = <<Head(chan)>>
      OBVIOUS
  <2>2. PICK q : q = Frames(h)
      OBVIOUS
  <2>3. /\ chan' \in Seq(Chunks) /\ Head(chan) \in Chunks /\ h \in Seq(Chunks) /\ Len(h) = 1 /\ h[1] = Head(chan)
      BY <1>2, <1>8, <2>1, HeadTailProperties
  <2>4. /\ q \in Seq(Frame) /\ Len(q) = 1 /\ wire' = wire \o q
        /\ \A i \in 1 .. Len(q) : q[i].t = "chunk"
      BY <1>8, <2>1, <2>2, <2>3, FramesFacts, ExecStreamAssumption
  <2>5. wire' \in Seq(Frame) /\ Acks' = Acks
      BY <1>2, <2>4, WireGrows, AcksGrow
  <2>6. \A i \in 1 .. Len(wire') : wire'[i].t # "exit"
    <3>1. \A i \in 1 .. Len(q) : q[i].t # "exit"
        BY <2>4
    <3> QED  BY <1>2, <1>4, <2>4, <3>1, ExitsGrow
  <2>7. TypeOK'
    <3>1. chan' \in Seq(Chunks) /\ wire' \in Seq(Frame)
        BY <2>3, <2>5
    <3>2. UNCHANGED <<kind, child, kin, made, took, reader, input, vm, sup, log, path, note, rpc, ctl, mark, count>>
        BY <1>1
    <3> QED  BY <1>3, <3>1, <3>2 DEF Inv, TypeOK
  <2>8. Pipe'
    <3> SUFFICES ASSUME NEW s \in Streams
                 PROVE  (InOrder(s) /\ \E a, b \in Nat : Flows(s, a, b))'
        BY DEF Pipe
    <3>1. PICK a \in Nat, b \in Nat : Flows(s, a, b)
        BY DEF Inv, Pipe
    <3>2. PICK n \in Nat : n = ChunkNo(Head(chan), s)
        BY <2>3, ChunkFacts
    <3>3. Run(ChanNos(chan, s), Len(chan), b, Queued(s))
        BY <3>1 DEF Flows
    <3>4. /\ n = 0 => Run(ChanNos(chan', s), Len(chan'), b, Queued(s))
          /\ n # 0 => n = b + 1 /\ Run(ChanNos(chan', s), Len(chan'), b + 1, Queued(s))
        BY <1>2, <1>6, <1>8, <3>2, <3>3, ChanTail
    <3>5. PICK f : f = WireNos(q, s)
        OBVIOUS
    <3>6. f \in [1 .. 1 -> Nat] /\ f[1] = n
      <4>1. WireNos(q, s) = ChanNos(h, s)
          BY <2>2, <2>3, FramesFacts
      <4>2. ChanNos(h, s) \in [1 .. 1 -> Nat] /\ ChanNos(h, s)[1] = ChunkNo(Head(chan), s)
          BY <2>3, ChanNosType
      <4> QED  BY <3>2, <3>5, <4>1, <4>2
    <3>7. (n = 0 => Run(f, 1, b, b)) /\ (n = b + 1 => Run(f, 1, b, b + 1))
        BY <3>6, RunOne
    <3>8. AckLast(q, s) /\ ~\E i \in 1 .. Len(q) : q[i].t = "ack"
        BY <2>4 DEF AckLast
    <3>9. PICK c \in Nat : Run(f, 1, b, c) /\ Run(ChanNos(chan', s), Len(chan'), c, Queued(s))
      <4>1. CASE n = 0
          BY <3>4, <3>7, <4>1
      <4>2. CASE n # 0
        <5>1. b + 1 \in Nat
            OBVIOUS
        <5> QED  BY <3>4, <3>7, <4>2, <5>1
      <4> QED  BY <4>1, <4>2
    <3>10. Flows(s, a, c)'
        BY <1>1, <1>6, <2>4, <3>1, <3>5, <3>8, <3>9, FlowsGrow
    <3> QED  BY <1>1, <3>10, OrderKept
  <2>9. ExitCode'
      BY <1>1, <1>2, <1>3, <1>5, <2>6, MoveCode
  <2>10. Threads'
      BY <1>1, <1>2, <1>3 DEF Inv, Threads, Queued, Held, ExecPlaces
  <2>11. OneFlush'
      BY <1>1, <1>3, <2>5 DEF Inv, OneFlush, AtMostOne, Flushes, Pending
  <2>12. Ended'
      BY <1>1, <1>3, <1>4, <2>6 DEF Inv, Ended
  <2>13. Permits' /\ Marked'
      BY <1>1 DEF Inv, Permits, Marked, InLog
  <2> QED  BY <2>7, <2>8, <2>9, <2>10, <2>11, <2>12, <2>13 DEF Inv
<1> QED  BY <1>1, <1>7, <1>8


\* Only the last frame of q is no chunk.
ChunksThen(q, m) == /\ Len(q) # 0 /\ q[Len(q)] = m
                    /\ \A i \in 1 .. Len(q) : i # Len(q) => q[i].t = "chunk"

\* What the channel holds as frames, and a frame that is no chunk after them.
LEMMA DrainFrames ==
    ASSUME NEW p \in Seq(Chunks), NEW m \in Frame, m.t # "chunk", NEW q, q = Frames(p) \o <<m>>
    PROVE  /\ q \in Seq(Frame) /\ ChunksThen(q, m)
           /\ \A s \in Streams : AckLast(q, s)
           /\ \A s \in Streams : \A b, c \in Nat :
                Run(ChanNos(p, s), Len(p), b, c) => Run(WireNos(q, s), Len(q), b, c)
<1>1. PICK f, g : f = Frames(p) /\ g = <<m>>
    OBVIOUS
<1>2. /\ f \in Seq(Frame) /\ Len(f) = Len(p) /\ Len(p) \in Nat
      /\ \A i \in 1 .. Len(f) : f[i].t = "chunk"
    BY <1>1, FramesFacts, LenProperties, ExecStreamAssumption
<1>3. /\ g \in Seq(Frame) /\ Len(g) = 1 /\ g[1] = m
      /\ \A s \in Streams : \A c \in Nat : Run(WireNos(g, s), Len(g), c, c)
    BY <1>1, NoChunk, ExecStreamAssumption
<1>4. /\ q \in Seq(Frame) /\ Len(q) = Len(f) + Len(g)
      /\ \A i \in 1 .. Len(f) + Len(g) : q[i] = IF i <= Len(f) THEN f[i] ELSE g[i - Len(f)]
    BY <1>1, <1>2, <1>3, ConcatProperties
<1>5. PICK l \in Nat : l = Len(f)
    BY <1>2
<1>6. /\ Len(q) = l + 1 /\ q[l + 1] = m
      /\ \A i \in 1 .. l : q[i].t = "chunk"
  <2>1. l + 1 \in 1 .. l + 1 /\ ~(l + 1 <= l) /\ (l + 1) - l = 1
      OBVIOUS
  <2>2. /\ Len(q) = l + 1
        /\ \A i \in 1 .. l + 1 : q[i] = IF i <= l THEN f[i] ELSE g[i - l]
      BY <1>3, <1>4, <1>5
  <2>3. q[l + 1] = g[1]
      BY <2>1, <2>2
  <2>4. \A i \in 1 .. l : q[i] = f[i]
    <3> TAKE i \in 1 .. l
    <3>1. i \in 1 .. l + 1 /\ i <= l
        OBVIOUS
    <3> QED  BY <2>2, <3>1
  <2> QED  BY <1>2, <1>3, <1>5, <2>2, <2>3, <2>4
<1>7. ChunksThen(q, m)
    BY <1>6 DEF ChunksThen
<1>8. \A s \in Streams : AckLast(q, s)
  <2> SUFFICES ASSUME NEW s \in Streams, NEW i \in 1 .. Len(q), NEW j \in 1 .. Len(q),
                      q[i].t = "ack", i <= j
               PROVE  FrameNo(q[j], s) = 0
      BY DEF AckLast
  <2>1. i = l + 1
      BY <1>6
  <2>2. j = l + 1
      BY <1>6, <2>1
  <2> QED  BY <1>6, <2>2, FrameFacts
<1>9. ASSUME NEW s \in Streams, NEW b \in Nat, NEW c \in Nat, Run(ChanNos(p, s), Len(p), b, c)
      PROVE  Run(WireNos(q, s), Len(q), b, c)
  <2>1. Run(WireNos(f, s), Len(f), b, c)
      BY <1>1, <1>2, <1>9, FramesFacts
  <2>2. Run(WireNos(g, s), Len(g), c, c)
      BY <1>3
  <2>3. f \in Seq(Frame) /\ g \in Seq(Frame) /\ q \in Seq(Frame) /\ q = f \o g
      BY <1>1, <1>2, <1>3, <1>4
  <2> QED  BY <2>1, <2>2, <2>3, WireConcat
<1> QED  BY <1>4, <1>7, <1>8, <1>9

\* The channel is emptied to the wire.
LEMMA DrainPipe ==
    ASSUME Inv, NEW m \in Frame, m.t # "chunk", NEW q, q = Frames(chan) \o <<m>>, wire' = wire \o q,
           chan' = <<>>, UNCHANGED <<took, reader, log, mark>>
    PROVE  Pipe'
<1>1. chan \in Seq(Chunks) /\ wire \in Seq(Frame)
    BY DEF Inv, TypeOK
<1>2. /\ q \in Seq(Frame)
      /\ \A s \in Streams : AckLast(q, s)
      /\ \A s \in Streams : \A b, c \in Nat :
           Run(ChanNos(chan, s), Len(chan), b, c) => Run(WireNos(q, s), Len(q), b, c)
    BY <1>1, DrainFrames
<1> SUFFICES ASSUME NEW s \in Streams
             PROVE  (InOrder(s) /\ \E a, b \in Nat : Flows(s, a, b))'
    BY DEF Pipe
<1>3. PICK a \in Nat, b \in Nat : Flows(s, a, b)
    BY DEF Inv, Pipe
<1>4. PICK c \in Nat : c = Queued(s)
    BY Counters DEF Queued, Inv, Threads
<1>5. Run(WireNos(q, s), Len(q), b, c)
    BY <1>2, <1>3, <1>4 DEF Flows
<1>6. Queued(s)' = c /\ mark[s] <= c
    BY <1>4 DEF Queued, Inv, Threads
<1>7. Run(ChanNos(chan', s), Len(chan'), c, Queued(s)')
  <2>1. PICK f : f = ChanNos(chan', s)
      OBVIOUS
  <2>2. Len(chan') = 0
      OBVIOUS
  <2>3. Run(f, 0, c, c)
      BY RunEmpty
  <2> QED  BY <1>6, <2>1, <2>2, <2>3
<1>8. Flows(s, a, c)'
    BY <1>2, <1>3, <1>5, <1>6, <1>7, FlowsGrow
<1> QED  BY <1>8, OrderKept

\* A wire without an exit frame, when chunks and one more frame are written to it.
LEMMA ExitLast ==
    ASSUME wire \in Seq(Frame), NEW q \in Seq(Frame), NEW m \in Frame, ChunksThen(q, m), wire' = wire \o q,
           \A i \in 1 .. Len(wire) : wire[i].t # "exit"
    PROVE  \A i \in 1 .. Len(wire') : wire'[i].t = "exit" => i = Len(wire') /\ wire'[i] = m
<1>1. /\ Len(wire) \in Nat /\ Len(q) \in Nat /\ Len(wire') = Len(wire) + Len(q)
      /\ \A i \in 1 .. Len(wire') : \/ i \in 1 .. Len(wire) /\ wire'[i] = wire[i]
                                    \/ /\ i > Len(wire) /\ i - Len(wire) \in 1 .. Len(q)
                                       /\ wire'[i] = q[i - Len(wire)]
    BY WireGrows
<1> SUFFICES ASSUME NEW i \in 1 .. Len(wire'), wire'[i].t = "exit"
             PROVE  i = Len(wire') /\ wire'[i] = m
    OBVIOUS
<1>2. i - Len(wire) \in 1 .. Len(q) /\ wire'[i] = q[i - Len(wire)]
    BY <1>1
<1>3. PICK j \in 1 .. Len(q) : j = i - Len(wire)
    BY <1>2
<1>4. j = Len(q)
    BY <1>2, <1>3 DEF ChunksThen
<1> QED  BY <1>1, <1>2, <1>3, <1>4 DEF ChunksThen

\* A wire without an acknowledgement, when chunks and one more frame are written to it.
LEMMA AckOnce ==
    ASSUME wire \in Seq(Frame), NEW q \in Seq(Frame), NEW m \in Frame, ChunksThen(q, m), wire' = wire \o q
    PROVE  /\ Acks = {} => AtMostOne(Acks')
           /\ m.t # "ack" => Acks' = Acks
<1>1. /\ Len(wire) \in Nat /\ Len(q) \in Nat /\ Len(wire') = Len(wire) + Len(q)
      /\ \A i \in 1 .. Len(wire') : \/ i \in 1 .. Len(wire) /\ wire'[i] = wire[i]
                                    \/ /\ i > Len(wire) /\ i - Len(wire) \in 1 .. Len(q)
                                       /\ wire'[i] = q[i - Len(wire)]
    BY WireGrows
<1>2. ASSUME Acks = {}, NEW i \in Acks'
      PROVE  i = Len(wire')
  <2>1. i \in 1 .. Len(wire') /\ wire'[i].t = "ack"
      BY DEF Acks
  <2>2. i - Len(wire) \in 1 .. Len(q) /\ wire'[i] = q[i - Len(wire)]
      BY <1>1, <1>2, <2>1 DEF Acks
  <2>3. PICK j \in 1 .. Len(q) : j = i - Len(wire)
      BY <2>2
  <2>4. j = Len(q)
      BY <2>1, <2>2, <2>3 DEF ChunksThen
  <2> QED  BY <1>1, <2>1, <2>3, <2>4
<1>3. m.t # "ack" => \A i \in 1 .. Len(q) : q[i].t # "ack"
    BY DEF ChunksThen
<1> QED  BY <1>2, <1>3, AcksGrow DEF AtMostOne


\* The exec thread answers a flush: what is queued, then the acknowledgement.
LEMMA FlushAckInv ==
    ASSUME Inv, FlushAck
    PROVE  Inv'
<1>0. PICK m : m = [t |-> "ack"]
    OBVIOUS
<1>1. PICK q : q = Frames(chan) \o <<m>>
    OBVIOUS
<1>2. /\ UNCHANGED <<kind, made, took, reader, input, vm, sup, log, path, note, rpc, ctl, mark, count>>
      /\ srv.pc \in {"ack1", "ack2"} /\ vm # "halted" /\ chan' = <<>> /\ wire' = wire \o q
    BY <1>0, <1>1 DEF FlushAck, flush_frames, host
<1>3. /\ kind = "exec" /\ srv \in Servers /\ child \in Children /\ wire \in Seq(Frame) /\ chan \in Seq(Chunks)
      /\ kin \in {"none", "group", "own"}
  <2>1. kind = "exec"
      BY <1>2, KindFacts DEF Inv, Threads, PtyPlaces
  <2> QED  BY <2>1 DEF Inv, TypeOK
<1>4. m \in Frame /\ m.t = "ack"
    BY <1>0 DEF Frame
<1>5. q \in Seq(Frame) /\ ChunksThen(q, m)
    BY <1>1, <1>3, <1>4, DrainFrames
<1>6. /\ Goes \/ Kills
      /\ child' \in Children /\ kin' \in {"none", "group", "own"} /\ srv' \in Servers
      /\ srv'.exited = srv.exited /\ srv'.pc \in {"recv", "wait", "join"}
  <2>1. CASE outcome_cancel
    <3>1. child' = Killed /\ kin' = KinKilled /\ srv' = [srv EXCEPT !.pc = "join", !.code = "kill"]
        BY <2>1 DEF FlushAck, KillAndStop
    <3>2. "join" \in {"in1", "in2", "ack1", "ack2", "recv", "wait", "join", "poll", "relay", "check", "reap", "broken", "closed"}
          /\ "kill" \in Codes
        BY DEF Codes
    <3>3. srv' \in Servers /\ srv'.exited = srv.exited /\ srv'.pc = "join" /\ srv'.code = "kill"
        BY <1>3, <3>1, <3>2 DEF Servers
    <3> QED  BY <3>1, <3>3, KillFacts DEF Kills, Children
  <2>2. CASE ~outcome_cancel
    <3>1. PICK pc \in {"recv", "wait"} : child' = child /\ kin' = kin /\ srv' = [srv EXCEPT !.pc = pc]
        BY <2>2 DEF FlushAck
    <3>2. srv' \in Servers /\ srv'.exited = srv.exited /\ srv'.pc = pc /\ srv'.code = srv.code
        BY <1>3, <3>1 DEF Servers
    <3> QED  BY <1>3, <3>1, <3>2 DEF Goes
  <2> QED  BY <2>1, <2>2
<1>7. ~sup.exit /\ \A i \in 1 .. Len(wire) : wire[i].t # "exit"
    BY <1>2 DEF Inv, Ended
<1>8. \A i \in 1 .. Len(wire') : wire'[i].t # "exit"
    BY <1>2, <1>3, <1>4, <1>5, <1>7, ExitLast
<1>9. wire' \in Seq(Frame) /\ chan' \in Seq(Chunks)
  <2>1. wire' \in Seq(Frame)
      BY <1>2, <1>3, <1>5, WireGrows
  <2> QED  BY <1>2, <2>1
<1>10. TypeOK'
  <2>1. UNCHANGED <<kind, made, took, reader, input, vm, sup, log, path, note, rpc, ctl, mark, count>>
      BY <1>2
  <2> QED  BY <1>6, <1>9, <2>1 DEF Inv, TypeOK
<1>11. Pipe'
    BY <1>1, <1>2, <1>4, DrainPipe
<1>12. ExitCode' /\ (Held' => Held)
    BY <1>2, <1>3, <1>6, <1>8, MoveCode
<1>13. Threads'
    BY <1>2, <1>3, <1>6, <1>12 DEF Inv, Threads, Queued, ExecPlaces
<1>14. OneFlush'
  <2>1. Acks = {} /\ Flushes(ctl) = {} /\ Flushes(input) = {} /\ sup.pc = "drain"
      BY <1>2, <1>7 DEF Inv, OneFlush, Pending
  <2>2. AtMostOne(Acks')
      BY <1>2, <1>3, <1>4, <1>5, <2>1, AckOnce
  <2>3. Flushes(ctl)' = {} /\ Flushes(input)' = {}
      BY <1>2, <2>1 DEF Flushes
  <2> QED  BY <1>2, <1>3, <1>6, <2>1, <2>2, <2>3 DEF OneFlush, AtMostOne
<1>15. Ended'
    BY <1>2, <1>7, <1>8 DEF Inv, Ended
<1>16. Permits' /\ Marked'
    BY <1>2 DEF Inv, Permits, Marked, InLog
<1> QED  BY <1>10, <1>11, <1>12, <1>13, <1>14, <1>15, <1>16 DEF Inv

\* The readers are joined; what is queued is sent, then the exit.
LEMMA FinishInv ==
    ASSUME Inv, Finish
    PROVE  Inv'
<1>0. PICK m : m = [t |-> "exit", code |-> srv.code]
    OBVIOUS
<1>1. PICK q : q = Frames(chan) \o <<m>>
    OBVIOUS
<1>3. /\ srv.pc = "join" /\ kind = "exec" /\ srv \in Servers /\ wire \in Seq(Frame) /\ chan \in Seq(Chunks)
  <2>0. srv.pc = "join"
      BY DEF Finish
  <2>1. kind = "exec"
      BY <2>0, KindFacts DEF Inv, Threads, PtyPlaces
  <2> QED  BY <2>0, <2>1 DEF Inv, TypeOK
<1>4. m \in Frame /\ m.t = "exit" /\ m.code = srv.code
  <2>1. srv.code \in Codes
      BY <1>3 DEF Servers
  <2> QED  BY <1>0, <2>1 DEF Frame
<1>5. q \in Seq(Frame) /\ ChunksThen(q, m)
    BY <1>1, <1>3, <1>4, DrainFrames
<1>2. /\ UNCHANGED <<kind, child, kin, made, took, reader, input, vm, sup, log, path, note, rpc, ctl, mark, count>>
      /\ vm # "halted" /\ chan' = <<>> /\ srv' = [srv EXCEPT !.pc = "closed"]
      /\ \A s \in Streams : reader[s] = "end"
    BY DEF Finish, joined, host
<1>17. wire' = wire \o q
  <2>1. PICK f, g : f = Frames(chan) /\ g = <<m>>
      OBVIOUS
  <2>2. f \in Seq(Frame) /\ g \in Seq(Frame)
      BY <1>3, <1>4, <2>1, FramesFacts, NoChunk, ExecStreamAssumption
  <2>3. wire' = (wire \o f) \o g
      BY <1>0, <2>1 DEF Finish
  <2>4. (wire \o f) \o g = wire \o (f \o g)
    <3>1. wire \in Seq(Frame)
        BY <1>3
    <3> QED  BY <2>2, <3>1, ConcatAssociative
  <2> QED  BY <1>1, <2>1, <2>3, <2>4
<1>6. srv' \in Servers /\ srv'.exited = srv.exited /\ srv'.pc = "closed" /\ srv'.code = srv.code
    BY <1>2, <1>3 DEF Servers
<1>7. ~sup.exit /\ \A i \in 1 .. Len(wire) : wire[i].t # "exit"
    BY <1>2, <1>3 DEF Inv, Ended
<1>8. \A i \in 1 .. Len(wire') : wire'[i].t = "exit" => i = Len(wire') /\ wire'[i] = m
    BY <1>3, <1>4, <1>5, <1>7, <1>17, ExitLast
<1>9. wire' \in Seq(Frame) /\ chan' \in Seq(Chunks)
  <2>1. wire' \in Seq(Frame)
      BY <1>3, <1>5, <1>17, WireGrows
  <2> QED  BY <1>2, <2>1
<1>10. TypeOK'
  <2>1. UNCHANGED <<kind, child, kin, made, took, reader, input, vm, sup, log, path, note, rpc, ctl, mark, count>>
      BY <1>2
  <2> QED  BY <1>6, <1>9, <2>1 DEF Inv, TypeOK
<1>11. Pipe'
    BY <1>1, <1>2, <1>4, <1>17, DrainPipe
<1>12. ExitCode'
  <2>1. vm = "up" => Faithful(srv.code)
      BY <1>3 DEF Inv, ExitCode
  <2>2. vm = "up" => Faithful(m.code)'
      BY <1>2, <1>4, <1>6, <2>1 DEF Faithful, Status
  <2>3. ASSUME vm = "up", NEW i \in 1 .. Len(wire'), wire'[i].t = "exit"
        PROVE  Faithful(wire[i].code)'
      BY <1>8, <2>2, <2>3 DEF Faithful, Status
  <2> QED  BY <1>2, <1>3, <1>6, <1>7, <2>3 DEF Inv, ExitCode
<1>13. Threads'
    BY <1>2, <1>3, <1>6 DEF Inv, Threads, Queued, ExecPlaces, Held
<1>14. OneFlush'
  <2>1. Acks' = Acks
      BY <1>3, <1>4, <1>5, <1>17, AckOnce
  <2>2. Flushes(ctl)' = Flushes(ctl) /\ Flushes(input)' = Flushes(input)
      BY <1>2 DEF Flushes
  <2> QED  BY <1>2, <1>3, <1>6, <2>1, <2>2 DEF Inv, OneFlush, AtMostOne, Pending
<1>15. Ended'
    BY <1>2, <1>6, <1>7, <1>8 DEF Inv, Ended
<1>16. Permits' /\ Marked'
    BY <1>2 DEF Inv, Permits, Marked, InLog
<1> QED  BY <1>10, <1>11, <1>12, <1>13, <1>14, <1>15, <1>16 DEF Inv


\* A pass of the PTY thread that has read the terminal up to c.
LEMMA PassInv ==
    ASSUME Inv, srv.pc = "relay", vm # "halted", NEW c \in 0 .. MaxOut,
           took["stdout"] <= c, c <= made["stdout"],
           wire' = wire \o PtyFrames(took["stdout"], c), took' = [took EXCEPT !["stdout"] = c],
           NEW pc \in {"reap", "broken", "check"}, srv' = [srv EXCEPT !.pc = pc],
           ctl' = ctl \/ (ctl # <<>> /\ ctl' = Tail(ctl)),
           count' = count \/ (count.faults < MaxFaults /\ count' = [count EXCEPT !.faults = @ + 1]),
           UNCHANGED <<kind, child, kin, made, reader, chan, input, vm, sup, log, path, note, rpc, mark>>
    PROVE  Inv'
<1>1. UNCHANGED <<kind, child, kin, made, reader, chan, input, vm, sup, log, path, note, rpc, mark>>
    OBVIOUS
<1>0. count' \in Counts /\ count'.late = count.late
    BY CountFacts
<1>2. kind = "pty" /\ srv \in Servers /\ wire \in Seq(Frame) /\ ctl \in Seq({"flush", "cancel"})
  <2>1. kind = "pty"
      BY KindFacts DEF Inv, Threads, ExecPlaces
  <2> QED  BY <2>1 DEF Inv, TypeOK
<1>3. "stdout" \in Streams
    BY ExecStreamAssumption
<1>4. PICK n \in 0 .. MaxOut : n = took["stdout"]
    BY <1>3, Counters
<1>6. n <= c
    BY <1>4
<1>7. PICK q : q = PtyFrames(n, c)
    OBVIOUS
<1>8. wire' = wire \o q /\ took' = [took EXCEPT !["stdout"] = c]
    BY <1>4, <1>7
<1>10. srv' \in Servers /\ srv'.pc = pc /\ srv'.code = srv.code /\ srv'.exited = srv.exited
    BY <1>2 DEF Servers
<1>11. /\ ctl' \in Seq({"flush", "cancel"})
       /\ Flushes(ctl') # {} => Flushes(ctl) # {}
       /\ AtMostOne(Flushes(ctl)) => AtMostOne(Flushes(ctl'))
  <2>2. CASE ctl' = ctl
      BY <1>2, <2>2
  <2>3. CASE ctl # <<>> /\ ctl' = Tail(ctl)
      BY <1>2, <2>3, FlushTail
  <2> QED  BY <2>2, <2>3
<1>12. /\ q \in Seq(Frame)
       /\ \A i \in 1 .. Len(q) : q[i].t = "chunk"
    BY <1>3, <1>6, <1>7, PtyFramesRun
<1>13. wire' \in Seq(Frame) /\ Acks' = Acks
    BY <1>2, <1>8, <1>12, WireGrows, AcksGrow
<1>14. took' \in [Streams -> 0 .. MaxOut] /\ \A s \in Streams : took'[s] = IF s = "stdout" THEN c ELSE took[s]
    BY <1>3, <1>6, <1>8, Counters
<1>15. TypeOK'
  <2>1. UNCHANGED <<kind, child, kin, made, reader, chan, input, vm, sup, log, path, note, rpc, mark>> /\ count' \in Counts
      BY <1>0, <1>1
  <2>2. srv' \in Servers /\ wire' \in Seq(Frame) /\ ctl' \in Seq({"flush", "cancel"}) /\ took' \in [Streams -> 0 .. MaxOut]
      BY <1>10, <1>11, <1>13, <1>14
  <2> QED  BY <2>1, <2>2 DEF Inv, TypeOK
<1>16. chan = <<>> /\ \A s \in Streams : reader[s] = "end"
    BY <1>2 DEF Inv, Threads
<1>17. \A s \in Streams : Queued(s) = took[s] /\ Queued(s)' = took'[s] /\ took[s] \in Nat /\ took'[s] \in Nat
    BY <1>1, <1>14, <1>16, Counters DEF Queued
<1>18. Pipe'
  <2> SUFFICES ASSUME NEW s \in Streams
               PROVE  (InOrder(s) /\ \E a, b \in Nat : Flows(s, a, b))'
      BY DEF Pipe
  <2>1. PICK a \in Nat, b \in Nat : Flows(s, a, b)
      BY DEF Inv, Pipe
  <2>2. PICK f : f = ChanNos(chan, s)
      OBVIOUS
  <2>3. Len(chan) = 0 /\ chan' = chan
      BY <1>1, <1>16
  <2>4. Run(f, 0, b, took[s])
      BY <1>17, <2>1, <2>2, <2>3 DEF Flows
  <2>5. b = took[s]
      BY <1>17, <2>4, RunEmpty
  <2>6. PICK d \in Nat : d = took'[s]
      BY <1>17
  <2>7. Run(WireNos(q, s), Len(q), b, d)
    <3>1. CASE s = "stdout"
        BY <1>4, <1>6, <1>7, <1>14, <2>5, <2>6, <3>1, PtyFramesRun
    <3>2. CASE s # "stdout"
      <4>1. d = b
          BY <1>14, <2>5, <2>6, <3>2
      <4> QED  BY <1>6, <1>7, <3>2, <4>1, PtyFramesRun
    <3> QED  BY <3>1, <3>2
  <2>8. Run(ChanNos(chan', s), Len(chan'), d, Queued(s)')
    <3>1. Run(f, 0, d, d)
        BY RunEmpty
    <3> QED  BY <1>17, <2>2, <2>3, <2>6, <3>1
  <2>9. AckLast(q, s) /\ ~\E i \in 1 .. Len(q) : q[i].t = "ack"
      BY <1>12 DEF AckLast
  <2>10. Flows(s, a, d)'
      BY <1>1, <1>8, <1>12, <2>1, <2>7, <2>8, <2>9, FlowsGrow
  <2> QED  BY <1>1, <2>10, OrderKept
<1>19. Threads'
  <2>1. ASSUME NEW s \in Streams
        PROVE  /\ took'[s] <= made[s] /\ mark[s] <= took'[s]
    <3>1. took[s] <= made[s] /\ mark[s] <= took[s] /\ mark[s] \in Nat
        BY <1>17, Counters DEF Inv, Threads
    <3>2. CASE s = "stdout"
        BY <1>4, <1>6, <1>14, <3>1, <3>2
    <3>3. CASE s # "stdout"
        BY <1>14, <3>1, <3>3
    <3> QED  BY <3>2, <3>3
  <2>2. pc \in PtyPlaces
      BY DEF PtyPlaces
  <2> QED  BY <1>1, <1>2, <1>10, <1>16, <1>17, <2>1, <2>2 DEF Inv, Threads
<1>20. OneFlush'
  <2>1. Flushes(ctl)' = Flushes(ctl') /\ Flushes(input)' = Flushes(input)
      BY <1>1 DEF Flushes
  <2>2. srv'.pc \notin {"ack1", "ack2"}
      BY <1>10
  <2> QED  BY <1>1, <1>11, <1>13, <2>1, <2>2 DEF Inv, OneFlush, Pending, AtMostOne
<1>21. ~sup.exit /\ \A i \in 1 .. Len(wire) : wire[i].t # "exit"
    BY <1>1 DEF Inv, Ended
<1>22. \A i \in 1 .. Len(wire') : wire'[i].t # "exit"
  <2>1. \A i \in 1 .. Len(q) : q[i].t # "exit"
      BY <1>12
  <2> QED  BY <1>2, <1>8, <1>12, <1>21, <2>1, ExitsGrow
<1>23. Ended'
    BY <1>1, <1>21, <1>22 DEF Inv, Ended
<1>24. ExitCode'
    BY <1>1, <1>10, <1>21, <1>22 DEF Inv, ExitCode, Faithful, Status
<1>25. Permits' /\ Marked'
    BY <1>0, <1>1 DEF Inv, Permits, Marked, InLog
<1> QED  BY <1>15, <1>18, <1>19, <1>20, <1>23, <1>24, <1>25 DEF Inv

\* The PTY thread relays what the terminal has.
LEMMA PtyRelayInv ==
    ASSUME Inv, PtyRelay
    PROVE  Inv'
<1>1. "stdout" \in Streams
    BY ExecStreamAssumption
<1>2. PICK n \in 0 .. MaxOut : n = took["stdout"]
    BY <1>1, Counters
<1>3. /\ UNCHANGED <<kind, child, kin, made, reader, chan, input, vm, sup, log, path, note, rpc,
                     mark, count>>
      /\ srv.pc = "relay" /\ vm # "halted"
    BY DEF PtyRelay, host
<1>4. /\ made["stdout"] \in 0 .. MaxOut /\ MaxOut \in Nat /\ n <= made["stdout"]
      /\ srv.pollin => n < made["stdout"]
    BY <1>1, <1>2, <1>3, Counters DEF Inv, Threads
<1>5. PICK c : c = pty_read(n)
    OBVIOUS
<1>6. c \in 0 .. MaxOut /\ n <= c /\ c <= made["stdout"]
    BY <1>4, <1>5 DEF pty_read
<1>7. wire' = wire \o PtyFrames(n, c) /\ took' = [took EXCEPT !["stdout"] = c]
    BY <1>2, <1>5 DEF PtyRelay
<1>8. PICK pc \in {"reap", "check"} : srv' = [srv EXCEPT !.pc = pc]
    BY DEF PtyRelay
<1>9. ctl' = ctl \/ (ctl # <<>> /\ ctl' = Tail(ctl))
    BY <1>3 DEF PtyRelay, Inv, Threads
<1> QED  BY <1>2, <1>3, <1>6, <1>7, <1>8, <1>9, PassInv

\* A write to the host fails in a pass.
LEMMA PtyBreakInv ==
    ASSUME Inv, PtyBreak
    PROVE  Inv'
<1>1. "stdout" \in Streams
    BY ExecStreamAssumption
<1>2. PICK n \in 0 .. MaxOut : n = took["stdout"]
    BY <1>1, Counters
<1>3. /\ UNCHANGED <<kind, child, kin, made, reader, chan, input, vm, sup, log, path, note, rpc,
                     mark, ctl>>
      /\ srv.pc = "relay" /\ vm # "halted"
      /\ count.faults < MaxFaults /\ count' = [count EXCEPT !.faults = @ + 1]
    BY DEF PtyBreak, Fault, host
<1>4. /\ made["stdout"] \in 0 .. MaxOut /\ MaxOut \in Nat /\ n <= made["stdout"]
      /\ srv.pollin => n < made["stdout"]
    BY <1>1, <1>2, <1>3, Counters DEF Inv, Threads
<1>5. PICK c \in n .. pty_read(n) - 1 : wire' = wire \o PtyFrames(n, c) /\ took' = [took EXCEPT !["stdout"] = c]
    BY <1>2 DEF PtyBreak
<1>6. c \in 0 .. MaxOut /\ n <= c /\ c <= made["stdout"]
  <2>1. pty_read(n) \in 0 .. MaxOut /\ pty_read(n) <= made["stdout"]
      BY <1>4 DEF pty_read
  <2> QED  BY <1>4, <2>1
<1>7. PICK pc \in {"reap", "broken"} : srv' = [srv EXCEPT !.pc = pc]
    BY DEF PtyBreak
<1> QED  BY <1>2, <1>3, <1>5, <1>6, <1>7, PassInv

\* The PTY thread looks for the end of the child.
LEMMA PtyCheckInv ==
    ASSUME Inv, PtyCheck
    PROVE  Inv'
<1>1. /\ UNCHANGED <<kind, kin, made, took, reader, chan, input, vm, sup, log, path, note, rpc,
                     ctl, wire, mark, count>>
      /\ srv.pc = "check"
    BY DEF PtyCheck, host
<1>2. kind = "pty" /\ srv \in Servers /\ child \in Children
  <2>1. kind = "pty"
      BY <1>1, KindFacts DEF Inv, Threads, ExecPlaces
  <2> QED  BY <2>1 DEF Inv, TypeOK
<1>3. PICK ended \in BOOLEAN : ended = (child.st = "zombie" /\ ~srv.exited)
    OBVIOUS
<1>4. PICK x \in BOOLEAN : x = (srv.exited \/ ended)
    OBVIOUS
<1>5. PICK k : k = IF ended THEN child.code ELSE srv.code
    OBVIOUS
<1>6. PICK pc \in {"reap", "poll"} : srv' = [srv EXCEPT !.exited = x, !.code = k, !.pc = pc, !.pollin = FALSE]
    BY <1>3, <1>4, <1>5 DEF PtyCheck
<1>7. child' = IF ended THEN [child EXCEPT !.st = "reaped"] ELSE child
    BY <1>3 DEF PtyCheck
<1>8. k \in Codes
    BY <1>2, <1>5 DEF Servers, Children, Codes
<1>9. srv' \in Servers /\ srv'.pc = pc /\ srv'.code = k /\ srv'.exited = x
    BY <1>2, <1>6, <1>8 DEF Servers
<1>10. child' \in Children /\ child'.code = child.code /\ child'.st = IF ended THEN "reaped" ELSE child.st
    BY <1>2, <1>7 DEF Children
<1>11. TypeOK'
    BY <1>1, <1>9, <1>10 DEF Inv, TypeOK
<1>12. Pipe'
    BY <1>1, PipeKept DEF Inv, Queued
<1>13. Threads'
  <2>1. pc \in PtyPlaces
      BY DEF PtyPlaces
  <2> QED  BY <1>1, <1>2, <1>6, <1>9, <2>1 DEF Inv, Threads, Queued
<1>14. OneFlush'
    BY <1>1, <1>6, <1>9 DEF Inv, OneFlush, AtMostOne, Flushes, Pending, Acks
<1>15. ~sup.exit \/ vm = "halted"
    BY <1>1 DEF Inv, Ended
<1>16. \A i \in 1 .. Len(wire) : wire[i].t # "exit"
    BY <1>1 DEF Inv, Ended
<1>17. Ended'
    BY <1>1, <1>15, <1>16 DEF Inv, Ended
<1>18. ExitCode'
    BY <1>1, <1>3, <1>4, <1>5, <1>6, <1>9, <1>10, <1>15, <1>16 DEF Inv, ExitCode
<1>19. Permits' /\ Marked'
    BY <1>1 DEF Inv, Permits, Marked, InLog
<1> QED  BY <1>11, <1>12, <1>13, <1>14, <1>17, <1>18, <1>19 DEF Inv

\* The PTY thread ends: the child is killed if it has not ended, and its exit is sent.
LEMMA PtyReapInv ==
    ASSUME Inv, PtyReap
    PROVE  Inv'
<1>1. /\ UNCHANGED <<kind, made, took, reader, chan, input, vm, sup, log, path, note, rpc, ctl, mark, count>>
      /\ srv.pc \in {"reap", "broken"} /\ vm # "halted" /\ srv' = [srv EXCEPT !.pc = "closed"]
      /\ \/ srv.exited /\ child' = child /\ kin' = kin
         \/ ~srv.exited /\ child' = Killed /\ kin' = KinKilled
    BY DEF PtyReap, host
<1>2. kind = "pty" /\ srv \in Servers /\ child \in Children /\ wire \in Seq(Frame) /\ kin \in {"none", "group", "own"}
  <2>1. kind = "pty"
      BY <1>1, KindFacts DEF Inv, Threads, ExecPlaces
  <2> QED  BY <2>1 DEF Inv, TypeOK
<1>3. /\ child' \in Children /\ kin' \in {"none", "group", "own"} /\ child'.st = "reaped" /\ child'.code # "none"
      /\ ~srv.exited /\ vm = "up" => child.st # "reaped"
      /\ srv.exited => child.st = "reaped" /\ srv.code = child.code /\ child' = child
  <2>1. CASE srv.exited
      BY <1>1, <1>2, <2>1 DEF Inv, ExitCode
  <2>2. CASE ~srv.exited
      BY <1>1, <2>2, KillFacts DEF Inv, ExitCode, Children
  <2> QED  BY <2>1, <2>2
<1>4. PICK k : /\ wire' = IF srv.pc = "broken" THEN wire ELSE wire \o <<[t |-> "exit", code |-> k]>>
               /\ srv.exited => k = srv.code
               /\ ~srv.exited /\ child.st = "reaped" => k = "one"
               /\ ~srv.exited /\ child.st # "reaped" => k = child'.code
  <2>1. PICK k : k = CASE srv.exited -> srv.code
                      [] ~srv.exited /\ child.st = "reaped" -> "one"
                      [] OTHER -> Killed.code
      OBVIOUS
  <2>2. wire' = IF srv.pc = "broken" THEN wire ELSE wire \o <<[t |-> "exit", code |-> k]>>
      BY <2>1 DEF PtyReap
  <2>3. /\ srv.exited => k = srv.code
        /\ ~srv.exited /\ child.st = "reaped" => k = "one"
        /\ ~srv.exited /\ child.st # "reaped" => k = Killed.code
      BY <2>1
  <2> QED  BY <1>1, <2>2, <2>3
<1>5. k \in Codes
    BY <1>2, <1>3, <1>4 DEF Servers, Children, Codes
<1>6. PICK m : m = [t |-> "exit", code |-> k]
    OBVIOUS
<1>8. m \in Frame /\ m.t = "exit" /\ m.code = k
    BY <1>5, <1>6 DEF Frame
<1>17. ~sup.exit /\ \A i \in 1 .. Len(wire) : wire[i].t # "exit"
    BY <1>1 DEF Inv, Ended
<1>11. /\ wire' \in Seq(Frame) /\ Acks' = Acks /\ Pipe'
       /\ \A i \in 1 .. Len(wire') : wire'[i].t = "exit" => i = Len(wire') /\ wire'[i] = m
  <2>1. CASE srv.pc = "broken"
    <3>1. wire' = wire
        BY <1>4, <2>1
    <3>2. Pipe'
        BY <1>1, <3>1, PipeKept DEF Inv, Queued
    <3> QED  BY <1>2, <1>17, <3>1, <3>2 DEF Acks
  <2>2. CASE srv.pc # "broken"
    <3>1. PICK q : q = <<m>>
        OBVIOUS
    <3>2. /\ q \in Seq(Frame) /\ Len(q) = 1 /\ q[1] = m /\ wire' = wire \o q
          /\ \A s \in Streams : \A b \in Nat : Run(WireNos(q, s), Len(q), b, b)
        BY <1>4, <1>6, <1>8, <2>2, <3>1, NoChunk, ExecStreamAssumption
    <3>3. ChunksThen(q, m)
        BY <3>2 DEF ChunksThen
    <3>4. wire' \in Seq(Frame) /\ Acks' = Acks
        BY <1>2, <1>8, <3>2, <3>3, WireGrows, AckOnce
    <3>5. \A i \in 1 .. Len(wire') : wire'[i].t = "exit" => i = Len(wire') /\ wire'[i] = m
        BY <1>2, <1>8, <1>17, <3>2, <3>3, ExitLast
    <3>6. Pipe'
      <4> SUFFICES ASSUME NEW s \in Streams
                   PROVE  (InOrder(s) /\ \E a, b \in Nat : Flows(s, a, b))'
          BY DEF Pipe
      <4>1. PICK a \in Nat, b \in Nat : Flows(s, a, b)
          BY DEF Inv, Pipe
      <4>2. Run(ChanNos(chan', s), Len(chan'), b, Queued(s)')
          BY <1>1, <4>1 DEF Flows, Queued
      <4>3. AckLast(q, s) /\ ~\E i \in 1 .. Len(q) : q[i].t = "ack"
          BY <1>8, <3>2 DEF AckLast
      <4>4. Run(WireNos(q, s), Len(q), b, b)
          BY <3>2
      <4>5. Flows(s, a, b)'
          BY <1>1, <3>2, <4>1, <4>2, <4>3, <4>4, FlowsGrow
      <4> QED  BY <1>1, <4>5, OrderKept
    <3> QED  BY <3>4, <3>5, <3>6
  <2> QED  BY <2>1, <2>2
<1>12. srv' \in Servers /\ srv'.pc = "closed" /\ srv'.code = srv.code /\ srv'.exited = srv.exited
    BY <1>1, <1>2 DEF Servers
<1>13. TypeOK'
  <2>1. UNCHANGED <<kind, made, took, reader, chan, input, vm, sup, log, path, note, rpc, ctl, mark, count>>
      BY <1>1
  <2>2. srv' \in Servers /\ wire' \in Seq(Frame) /\ child' \in Children /\ kin' \in {"none", "group", "own"}
      BY <1>3, <1>11, <1>12
  <2> QED  BY <2>1, <2>2 DEF Inv, TypeOK
<1>15. Threads'
  <2>1. "closed" \in PtyPlaces
      BY DEF PtyPlaces
  <2> QED  BY <1>1, <1>2, <1>12, <2>1 DEF Inv, Threads, Queued
<1>16. OneFlush'
  <2>1. Flushes(ctl)' = Flushes(ctl) /\ Flushes(input)' = Flushes(input)
      BY <1>1 DEF Flushes
  <2> QED  BY <1>1, <1>11, <1>12, <2>1 DEF Inv, OneFlush, AtMostOne, Pending
<1>19. Ended'
    BY <1>1, <1>11, <1>12, <1>17 DEF Inv, Ended
<1>20. ExitCode'
  <2>1. vm = "up" => k = child'.code
      BY <1>3, <1>4
  <2>2. vm = "up" => Faithful(k)'
      BY <1>1, <1>2, <1>3, <2>1 DEF Faithful, Status
  <2>3. ASSUME vm = "up", NEW i \in 1 .. Len(wire'), wire'[i].t = "exit"
        PROVE  Faithful(wire[i].code)'
      BY <1>8, <1>11, <2>2, <2>3 DEF Faithful, Status
  <2> QED  BY <1>1, <1>3, <1>12, <1>17, <2>3 DEF ExitCode
<1>21. Permits' /\ Marked'
    BY <1>1 DEF Inv, Permits, Marked, InLog
<1> QED  BY <1>11, <1>13, <1>15, <1>16, <1>19, <1>20, <1>21 DEF Inv


-----------------------------------------------------------------------------
(* The supervisor takes frames from the wire                               *)

\* The first frame is taken.
LEMMA TakeFacts ==
    ASSUME Inv, wire # <<>>, wire' = Tail(wire)
    PROVE  /\ wire' \in Seq(Frame) /\ Head(wire) \in Frame /\ Head(wire) = wire[1] /\ 1 \in 1 .. Len(wire)
           /\ Len(wire') \in Nat /\ Len(wire) = Len(wire') + 1
           /\ \A i \in 1 .. Len(wire') : i + 1 \in 1 .. Len(wire) /\ wire'[i] = wire[i + 1]
           /\ \A i \in Acks' : i + 1 \in Acks
           /\ AtMostOne(Acks')
           /\ Head(wire).t = "ack" => Acks' = {} /\ 1 \in Acks
           /\ \A i \in 1 .. Len(wire') : wire'[i].t = "exit" => i = Len(wire') /\ srv.pc = "closed"
           /\ Head(wire).t = "exit" => wire' = <<>> /\ srv.pc = "closed"
<1>1. PICK t : t = wire'
    OBVIOUS
<1>0. wire \in Seq(Frame)
    BY DEF Inv, TypeOK
<1>2. /\ t \in Seq(Frame) /\ Head(wire) \in Frame /\ Head(wire) = wire[1] /\ 1 \in 1 .. Len(wire)
      /\ Len(t) \in Nat /\ Len(wire) = Len(t) + 1
      /\ \A i \in 1 .. Len(t) : i + 1 \in 1 .. Len(wire) /\ t[i] = wire[i + 1]
  <2>1. Head(wire) = wire[1]
      BY <1>0
  <2>2. /\ t \in Seq(Frame) /\ Len(t) = Len(wire) - 1 /\ Head(wire) \in Frame
        /\ \A i \in 1 .. Len(t) : t[i] = wire[i + 1]
      BY <1>0, <1>1, HeadTailProperties
  <2>3. Len(t) \in Nat /\ Len(wire) \in Nat
      BY <1>0, <2>2, LenProperties
  <2> QED  BY <2>1, <2>2, <2>3
<1>3. AtMostOne(Acks) /\ \A i \in 1 .. Len(wire) : wire[i].t = "exit" => i = Len(wire) /\ srv.pc = "closed"
    BY DEF Inv, OneFlush, Ended
<1>4. \A i \in Acks' : i + 1 \in Acks /\ i \in 1 .. Len(t)
    BY <1>1, <1>2 DEF Acks
<1>5. AtMostOne(Acks')
    BY <1>2, <1>3, <1>4 DEF AtMostOne
<1>6. ASSUME Head(wire).t = "ack"
      PROVE  Acks' = {} /\ 1 \in Acks
  <2>1. 1 \in Acks
      BY <1>2, <1>6 DEF Acks
  <2>2. \A i \in Acks' : i + 1 = 1
      BY <1>3, <1>4, <2>1 DEF AtMostOne
  <2> QED  BY <1>2, <1>4, <2>1, <2>2
<1>7. \A i \in 1 .. Len(t) : t[i].t = "exit" => i = Len(t) /\ srv.pc = "closed"
  <2> SUFFICES ASSUME NEW i \in 1 .. Len(t), t[i].t = "exit"
               PROVE  i = Len(t) /\ srv.pc = "closed"
      OBVIOUS
  <2>1. i + 1 = Len(wire) /\ srv.pc = "closed"
      BY <1>2, <1>3
  <2> QED  BY <1>2, <2>1
<1>8. ASSUME Head(wire).t = "exit"
      PROVE  t = <<>> /\ srv.pc = "closed"
  <2>1. 1 = Len(wire) /\ srv.pc = "closed"
      BY <1>2, <1>3, <1>8
  <2>2. Len(t) = 0
      BY <1>2, <2>1
  <2> QED  BY <1>2, <2>1, <2>2, EmptySeq
<1> QED  BY <1>1, <1>2, <1>4, <1>5, <1>6, <1>7, <1>8

\* The chunks of s, when a frame is taken and a chunk of s in it has been logged.
LEMMA TakeFlows ==
    ASSUME Inv, wire # <<>>, wire' = Tail(wire), UNCHANGED <<mark, chan, took, reader>>,
           NEW s \in Streams, NEW a \in Nat, NEW b \in Nat, NEW e \in Nat, Flows(s, a, b),
           e = IF FrameNo(Head(wire), s) = 0 THEN a ELSE a + 1, InLog(s)' = 1 .. e
    PROVE  Flows(s, e, b)'
<1>1. wire \in Seq(Frame)
    BY DEF Inv, TypeOK
<1>2. Run(WireNos(wire, s), Len(wire), a, b)
    BY DEF Flows
<1>3. Run(WireNos(wire', s), Len(wire'), e, b)
  <2>1. PICK t : t = Tail(wire)
      OBVIOUS
  <2>2. /\ FrameNo(Head(wire), s) = 0 => Run(WireNos(t, s), Len(t), a, b)
        /\ FrameNo(Head(wire), s) # 0 => Run(WireNos(t, s), Len(t), a + 1, b)
      BY <1>1, <1>2, <2>1, WireTail
  <2>3. wire' = t
      BY <2>1
  <2> QED  BY <2>2, <2>3
<1>4. Run(ChanNos(chan', s), Len(chan'), b, Queued(s)')
    BY DEF Flows, Queued
<1>5. ASSUME NEW i \in Acks'
      PROVE  /\ mark[s] <= b
             /\ \A j \in i .. Len(wire') : FrameNo(wire'[j], s) # 0 => FrameNo(wire'[j], s) > mark[s]
  <2>1. /\ i + 1 \in Acks /\ i \in 1 .. Len(wire') /\ Len(wire') \in Nat /\ Len(wire) = Len(wire') + 1
        /\ \A j \in 1 .. Len(wire') : j + 1 \in 1 .. Len(wire) /\ wire'[j] = wire[j + 1]
      BY TakeFacts DEF Acks
  <2>2. /\ mark[s] <= b
        /\ \A j \in i + 1 .. Len(wire) : FrameNo(wire[j], s) # 0 => FrameNo(wire[j], s) > mark[s]
      BY <2>1 DEF Flows
  <2>3. ASSUME NEW j \in i .. Len(wire')
        PROVE  j + 1 \in i + 1 .. Len(wire) /\ wire'[j] = wire[j + 1]
      BY <2>1
  <2> QED  BY <2>2, <2>3
<1> QED  BY <1>3, <1>4, <1>5 DEF Flows

\* The entries of the log files, after a chunk is written to the last one.
Written(c, l, k) ==
    /\ DOMAIN log = 1 .. l /\ DOMAIN log' = 1 .. l
    /\ \A f \in 1 .. l : \A i \in DOMAIN log[f] : i \in DOMAIN log'[f] /\ log'[f][i] = log[f][i]
    /\ \A f \in 1 .. l : \A i \in DOMAIN log'[f] : \/ i \in DOMAIN log[f] /\ log'[f][i] = log[f][i]
                                                   \/ f = l /\ i = k + 1 /\ log'[f][i] = c
    /\ DOMAIN log[l] = 1 .. k /\ k + 1 \in DOMAIN log'[l] /\ log'[l][k + 1] = c

\* write_chunk.
LEMMA WriteFacts ==
    ASSUME Inv, NEW c \in Chunks, write_chunk(c)
    PROVE  /\ log' \in Seq(Seq(Chunks)) /\ Len(log') = Len(log)
           /\ \E l, k \in Nat : l >= 1 /\ Written(c, l, k)
<1>1. log \in Seq(Seq(Chunks)) /\ sup.fd = Len(log) /\ sup.fd \in 1 .. Len(log)
    BY DEF Inv, TypeOK, Permits
<1>2. PICK l \in Nat : l = Len(log)
    BY <1>1, LenProperties
<1>3. l >= 1 /\ DOMAIN log = 1 .. l /\ log \in [1 .. l -> Seq(Chunks)]
    BY <1>1, <1>2, LenProperties
<1>4. PICK p \in Seq(Chunks) : p = log[l]
    BY <1>3
<1>5. PICK r : r = Append(p, c)
    OBVIOUS
<1>6. PICK k \in Nat : k = Len(p)
    BY <1>4, LenProperties
<1>7. /\ r \in Seq(Chunks) /\ Len(r) = k + 1 /\ DOMAIN p = 1 .. k /\ DOMAIN r = 1 .. k + 1
      /\ \A i \in 1 .. k : r[i] = p[i]
      /\ r[k + 1] = c
  <2>1. /\ r \in Seq(Chunks) /\ Len(r) = Len(p) + 1
        /\ \A i \in 1 .. Len(p) : r[i] = p[i]
        /\ r[Len(p) + 1] = c
      BY <1>4, <1>5, AppendProperties
  <2>2. DOMAIN p = 1 .. Len(p) /\ DOMAIN r = 1 .. Len(r)
      BY <1>4, <2>1, LenProperties
  <2> QED  BY <1>6, <2>1, <2>2
<1>8. log' = [log EXCEPT ![l] = r]
    BY <1>1, <1>2, <1>4, <1>5 DEF write_chunk
<1>9. /\ log' \in [1 .. l -> Seq(Chunks)] /\ DOMAIN log' = 1 .. l /\ log'[l] = r
      /\ \A f \in 1 .. l : f # l => log'[f] = log[f]
  <2>1. l \in 1 .. l
      BY <1>3
  <2> QED  BY <1>3, <1>7, <1>8, <2>1
<1>10. log' \in Seq(Seq(Chunks)) /\ Len(log') = l
  <2>1. l \in 1 .. Len(log)
      BY <1>2, <1>3
  <2> QED  BY <1>1, <1>2, <1>7, <1>8, <2>1, ExceptSeq
<1>11. k + 1 \in 1 .. k + 1 /\ \A i \in 1 .. k + 1 : i \in 1 .. k \/ i = k + 1
    OBVIOUS
<1>12. ASSUME NEW f \in 1 .. l, NEW i \in DOMAIN log[f]
       PROVE  i \in DOMAIN log'[f] /\ log'[f][i] = log[f][i]
  <2>1. CASE f = l
    <3>1. i \in 1 .. k /\ i \in 1 .. k + 1
        BY <1>4, <1>7, <2>1
    <3> QED  BY <1>4, <1>7, <1>9, <2>1, <3>1
  <2>2. CASE f # l
      BY <1>9, <2>2
  <2> QED  BY <2>1, <2>2
<1>13. ASSUME NEW f \in 1 .. l, NEW i \in DOMAIN log'[f]
       PROVE  \/ i \in DOMAIN log[f] /\ log'[f][i] = log[f][i]
              \/ f = l /\ i = k + 1 /\ log'[f][i] = c
  <2>1. CASE f = l
    <3>1. i \in 1 .. k + 1
        BY <1>7, <1>9, <2>1
    <3> QED  BY <1>4, <1>7, <1>9, <1>11, <2>1, <3>1
  <2>2. CASE f # l
      BY <1>9, <2>2
  <2> QED  BY <2>1, <2>2
<1>14. DOMAIN log[l] = 1 .. k /\ k + 1 \in DOMAIN log'[l] /\ log'[l][k + 1] = c
    BY <1>4, <1>7, <1>9, <1>11
<1>15. Written(c, l, k)
    BY <1>3, <1>9, <1>12, <1>13, <1>14 DEF Written
<1> QED  BY <1>2, <1>3, <1>10, <1>15

\* What is in the log then.
LEMMA WriteInLog ==
    ASSUME NEW c \in Chunks, NEW l \in Nat, l >= 1, NEW k \in Nat, Written(c, l, k), NEW s \in Streams
    PROVE  InLog(s)' = InLog(s) \cup (IF c[1] = s THEN {c[2]} ELSE {})
<1>1. c[2] \in 1 .. MaxOut /\ c = <<c[1], c[2]>>
    BY DEF Chunks
<1>2. \A n : n \in InLog(s) <=> n \in 1 .. MaxOut /\ \E f \in 1 .. l : \E i \in DOMAIN log[f] : log[f][i] = <<s, n>>
    BY DEF InLog, Range, Written
<1>3. \A n : n \in InLog(s)' <=> n \in 1 .. MaxOut /\ \E f \in 1 .. l : \E i \in DOMAIN log'[f] : log'[f][i] = <<s, n>>
    BY DEF InLog, Range, Written
<1>4. ASSUME NEW n \in InLog(s)
      PROVE  n \in InLog(s)'
  <2>1. PICK f \in 1 .. l : \E i \in DOMAIN log[f] : log[f][i] = <<s, n>>
      BY <1>2
  <2>2. PICK i \in DOMAIN log[f] : log[f][i] = <<s, n>>
      BY <2>1
  <2>3. i \in DOMAIN log'[f] /\ log'[f][i] = <<s, n>>
      BY <2>2 DEF Written
  <2> QED  BY <1>2, <1>3, <2>3
<1>5. ASSUME c[1] = s
      PROVE  c[2] \in InLog(s)'
  <2>1. l \in 1 .. l /\ k + 1 \in DOMAIN log'[l] /\ log'[l][k + 1] = <<s, c[2]>>
      BY <1>1, <1>5 DEF Written
  <2> QED  BY <1>1, <1>3, <2>1
<1>6. ASSUME NEW n \in InLog(s)'
      PROVE  n \in InLog(s) \/ (c[1] = s /\ n = c[2])
  <2>0. PICK f \in 1 .. l : \E i \in DOMAIN log'[f] : log'[f][i] = <<s, n>>
      BY <1>3
  <2>1. PICK i \in DOMAIN log'[f] : log'[f][i] = <<s, n>>
      BY <2>0
  <2>2. CASE i \in DOMAIN log[f] /\ log'[f][i] = log[f][i]
      BY <1>2, <1>3, <2>1, <2>2
  <2>3. CASE log'[f][i] = c
      BY <2>1, <2>3
  <2> QED  BY <2>2, <2>3 DEF Written
<1> QED  BY <1>4, <1>5, <1>6

\* The order is kept when the chunk comes after the ones of its stream.
LEMMA WriteInOrder ==
    ASSUME NEW c \in Chunks, NEW l \in Nat, l >= 1, NEW k \in Nat, Written(c, l, k), NEW s \in Streams,
           NEW a \in Nat, InLog(s) = 1 .. a, c[1] = s => c[2] = a + 1, InOrder(s),
           log \in Seq(Seq(Chunks))
    PROVE  InOrder(s)'
<1>1. ASSUME NEW f \in 1 .. l, NEW i \in DOMAIN log[f], log[f][i][1] = s
      PROVE  log[f][i][2] \in 1 .. a
  <2>1. f \in DOMAIN log
      BY DEF Written
  <2>2. log[f] \in Seq(Chunks)
      BY <2>1, ElementOfSeq, LenProperties
  <2>3. log[f][i] \in Chunks
      BY <2>2
  <2>4. log[f][i] = <<s, log[f][i][2]>> /\ log[f][i][2] \in 1 .. MaxOut
      BY <1>1, <2>3 DEF Chunks
  <2>5. log[f][i][2] \in InLog(s)
      BY <2>1, <2>4 DEF InLog, Range
  <2> QED  BY <2>5
<1> SUFFICES ASSUME NEW f \in 1 .. l, NEW g \in 1 .. l, NEW i \in DOMAIN log'[f], NEW j \in DOMAIN log'[g],
                    log'[f][i][1] = s, log'[g][j][1] = s, f < g \/ (f = g /\ i < j)
             PROVE  log'[f][i][2] < log'[g][j][2]
  BY DEF InOrder, Written
<1>2. CASE (i \in DOMAIN log[f] /\ log'[f][i] = log[f][i]) /\ (j \in DOMAIN log[g] /\ log'[g][j] = log[g][j])
    BY <1>2 DEF InOrder, Written
<1>3. CASE (i \in DOMAIN log[f] /\ log'[f][i] = log[f][i]) /\ (g = l /\ j = k + 1 /\ log'[g][j] = c)
  <2>1. log'[f][i][2] \in 1 .. a /\ c[2] = a + 1
      BY <1>1, <1>3
  <2> QED  BY <1>3, <2>1
<1>4. CASE f = l /\ i = k + 1 /\ log'[f][i] = c
  <2>1. f = g /\ i < j
      BY <1>4
  <2>2. j \in 1 .. k \/ j = k + 1
      BY <1>4, <2>1 DEF Written
  <2> QED  BY <1>4, <2>1, <2>2
<1> QED  BY <1>2, <1>3, <1>4 DEF Written


\* The exit or the end of the stream is seen: everything is in the log.
LEMMA OverInv ==
    ASSUME Inv, sup.pc \in {"select", "drain"}, NEW k \in Codes \cup {"lost"}, NEW over \in {"reopen", "end"},
           over = IF sup.pc = "drain" THEN "reopen" ELSE "end",
           sup' = [sup EXCEPT !.pc = over, !.code = k, !.exit = TRUE], wire' = <<>>,
           UNCHANGED <<kind, child, kin, made, took, reader, chan, input, srv, vm, log, path, note, rpc,
                       ctl, mark, count>>,
           vm = "halted" \/ srv.pc = "closed",
           k # "lost" => srv.pc = "closed" /\ (vm = "up" => Faithful(k)), Pipe'
    PROVE  Inv'
<1>1. sup \in Supervisors
    BY DEF Inv, TypeOK
<1>2. sup' \in Supervisors /\ sup'.pc = over /\ sup'.code = k /\ sup'.exit = TRUE /\ sup'.fd = sup.fd
    BY <1>1 DEF Supervisors
<1>3. \A i \in 1 .. Len(wire') : FALSE
    OBVIOUS
<1>4. wire' \in Seq(Frame) /\ Acks' = {}
    BY <1>3 DEF Acks
<1>5. TypeOK'
    BY <1>2, <1>4 DEF Inv, TypeOK
<1>6. Threads'
    BY DEF Inv, Threads, Held, Queued
<1>7. OneFlush'
  <2>1. Flushes(ctl)' = Flushes(ctl) /\ Flushes(input)' = Flushes(input)
      BY DEF Flushes
  <2> QED  BY <1>2, <1>4, <2>1 DEF Inv, OneFlush, Pending, AtMostOne
<1>8. Ended'
    BY <1>2, <1>3 DEF Ended
<1>9. ExitCode'
    BY <1>2, <1>3 DEF Inv, ExitCode, Faithful, Status
<1>10. Permits'
    BY <1>2 DEF Inv, Permits
<1>11. Marked'
  <2> SUFFICES ASSUME kind = "exec", vm # "halted", NEW s \in Streams
               PROVE  1 .. mark[s] \subseteq InLog(s)'
      BY DEF Marked
  <2>1. chan = <<>> /\ Queued(s)' = Queued(s) /\ Queued(s) \in Nat /\ mark[s] <= Queued(s) /\ mark[s] \in Nat
      BY Counters DEF Inv, Threads, Queued
  <2>2. PICK a \in Nat, b \in Nat : Flows(s, a, b)'
      BY DEF Pipe
  <2>3. PICK f, g : f = WireNos(wire', s) /\ g = ChanNos(chan', s)
      OBVIOUS
  <2>4. Len(wire') = 0 /\ Len(chan') = 0
      BY <2>1
  <2>5. Run(f, 0, a, b) /\ Run(g, 0, b, Queued(s)) /\ InLog(s)' = 1 .. a
      BY <2>1, <2>2, <2>3, <2>4 DEF Flows
  <2>6. a = b /\ b = Queued(s)
      BY <2>1, <2>5, RunEmpty
  <2> QED  BY <2>1, <2>5, <2>6
<1> QED  BY <1>5, <1>6, <1>7, <1>8, <1>9, <1>10, <1>11 DEF Inv

\* The supervisor handles the next event.
LEMMA SupEventInv ==
    ASSUME Inv, SupEvent
    PROVE  Inv'
<1>1. /\ UNCHANGED <<kind, child, kin, made, took, reader, chan, input, srv, vm, path, note, rpc,
                     ctl, mark, count>>
      /\ sup.pc \in {"select", "drain"}
    BY DEF SupEvent, guest
<1>2. PICK over \in {"reopen", "end"} : over = IF sup.pc = "drain" THEN "reopen" ELSE "end"
    OBVIOUS
<1>3. ~sup.exit /\ sup \in Supervisors /\ wire \in Seq(Frame) /\ log \in Seq(Seq(Chunks))
    BY <1>1 DEF Inv, Ended, TypeOK, Supervisors
<1>4. CASE wire # <<>> /\ Head(wire).t = "chunk" /\ write_chunk(Head(wire).of) /\ wire' = Tail(wire) /\ sup' = sup
  <2>1. PICK c : c = Head(wire).of
      OBVIOUS
  <2>2. /\ wire' \in Seq(Frame) /\ Head(wire) \in Frame /\ Head(wire) = wire[1] /\ 1 \in 1 .. Len(wire)
        /\ \A i \in Acks' : i + 1 \in Acks
        /\ AtMostOne(Acks')
        /\ \A i \in 1 .. Len(wire') : wire'[i].t = "exit" => i = Len(wire') /\ srv.pc = "closed"
        /\ \A i \in 1 .. Len(wire') : i + 1 \in 1 .. Len(wire) /\ wire'[i] = wire[i + 1]
      BY <1>4, TakeFacts
  <2>3. c \in Chunks /\ \A s \in Streams : FrameNo(Head(wire), s) = IF c[1] = s THEN c[2] ELSE 0
      BY <1>4, <2>1, <2>2, FrameFacts, ExecStreamAssumption DEF FrameNo
  <2>4. log' \in Seq(Seq(Chunks)) /\ Len(log') = Len(log)
      BY <1>4, <2>1, <2>3, WriteFacts
  <2>5. PICK l \in Nat, k \in Nat : l >= 1 /\ Written(c, l, k)
      BY <1>4, <2>1, <2>3, WriteFacts
  <2>6. TypeOK'
    <3>1. UNCHANGED <<kind, child, kin, made, took, reader, chan, input, srv, vm, path, note, rpc, ctl, mark, count>>
        BY <1>1
    <3>2. sup' = sup /\ wire' \in Seq(Frame) /\ log' \in Seq(Seq(Chunks)) /\ Len(log') = Len(log)
        BY <1>4, <2>2, <2>4
    <3> QED  BY <3>1, <3>2 DEF Inv, TypeOK
  <2>7. Pipe'
    <3> SUFFICES ASSUME NEW s \in Streams
                 PROVE  (InOrder(s) /\ \E a, b \in Nat : Flows(s, a, b))'
        BY DEF Pipe
    <3>1. PICK a \in Nat, b \in Nat : Flows(s, a, b)
        BY DEF Inv, Pipe
    <3>2. InLog(s) = 1 .. a /\ Run(WireNos(wire, s), Len(wire), a, b)
        BY <3>1 DEF Flows
    <3>3. c[2] \in 1 .. MaxOut /\ MaxOut \in Nat
        BY <2>3, ExecStreamAssumption DEF Chunks
    <3>4. c[1] = s => c[2] = a + 1
      <4>1. FrameNo(Head(wire), s) # 0 => FrameNo(Head(wire), s) = a + 1
          BY <1>3, <1>4, <3>2, WireTail
      <4> QED  BY <2>3, <3>3, <4>1
    <3>5. InLog(s)' = InLog(s) \cup (IF c[1] = s THEN {c[2]} ELSE {})
        BY <2>3, <2>5, WriteInLog
    <3>6. PICK e \in Nat : e = IF FrameNo(Head(wire), s) = 0 THEN a ELSE a + 1
        OBVIOUS
    <3>7. InLog(s)' = 1 .. e
      <4>1. CASE c[1] = s
        <5>1. e = a + 1 /\ c[2] = a + 1
            BY <2>3, <3>3, <3>4, <3>6, <4>1
        <5>2. 1 .. a + 1 = (1 .. a) \cup {a + 1}
            OBVIOUS
        <5> QED  BY <3>2, <3>5, <4>1, <5>1, <5>2
      <4>2. CASE c[1] # s
          BY <2>3, <3>2, <3>5, <3>6, <4>2
      <4> QED  BY <4>1, <4>2
    <3>8. Flows(s, e, b)'
        BY <1>1, <1>4, <3>1, <3>6, <3>7, TakeFlows
    <3>9. InOrder(s)'
      <4>1. InOrder(s)
          BY DEF Inv, Pipe
      <4> QED  BY <1>3, <2>3, <2>5, <3>2, <3>4, <4>1, WriteInOrder
    <3> QED  BY <3>8, <3>9
  <2>8. Threads'
      BY <1>1 DEF Inv, Threads, Held, Queued
  <2>9. OneFlush'
    <3>1. Flushes(ctl)' = Flushes(ctl) /\ Flushes(input)' = Flushes(input) /\ (Acks' # {} => Acks # {})
        BY <1>1, <2>2 DEF Flushes
    <3> QED  BY <1>1, <1>4, <2>2, <3>1 DEF Inv, OneFlush, Pending, AtMostOne
  <2>10. Ended'
      BY <1>1, <1>3, <1>4, <2>2 DEF Inv, Ended
  <2>11. ExitCode'
      BY <1>1, <1>3, <1>4, <2>2 DEF Inv, ExitCode, Faithful, Status
  <2>12. Permits'
      BY <1>1, <1>4, <2>4 DEF Inv, Permits
  <2>13. Marked'
    <3>1. \A s \in Streams : InLog(s) \subseteq InLog(s)'
        BY <2>3, <2>5, WriteInLog
    <3> QED  BY <1>1, <1>4, <3>1 DEF Inv, Marked
  <2> QED  BY <2>6, <2>7, <2>8, <2>9, <2>10, <2>11, <2>12, <2>13 DEF Inv
<1>10. ASSUME wire # <<>>, Head(wire).t # "chunk", wire' = Tail(wire), log' = log
       PROVE  Pipe'
  <2> SUFFICES ASSUME NEW s \in Streams
               PROVE  (InOrder(s) /\ \E a, b \in Nat : Flows(s, a, b))'
      BY DEF Pipe
  <2>1. PICK a \in Nat, b \in Nat : Flows(s, a, b)
      BY DEF Inv, Pipe
  <2>2. FrameNo(Head(wire), s) = 0
      BY <1>10, TakeFacts, FrameFacts
  <2>3. InLog(s)' = 1 .. a
      BY <1>10, <2>1 DEF Flows, InLog
  <2>4. Flows(s, a, b)'
      BY <1>1, <1>10, <2>1, <2>2, <2>3, TakeFlows
  <2> QED  BY <1>10, <2>4, OrderKept
<1>5. CASE /\ wire # <<>> /\ Head(wire).t = "ack" /\ wire' = Tail(wire) /\ log' = log
           /\ sup' = [sup EXCEPT !.pc = IF sup.pc = "drain" THEN "reopen" ELSE "select"]
  <2>1. /\ wire' \in Seq(Frame) /\ Acks' = {} /\ 1 \in Acks
        /\ \A i \in 1 .. Len(wire') : wire'[i].t = "exit" => i = Len(wire') /\ srv.pc = "closed"
        /\ \A i \in 1 .. Len(wire') : i + 1 \in 1 .. Len(wire) /\ wire'[i] = wire[i + 1]
      BY <1>5, TakeFacts
  <2>2. sup.pc = "drain" /\ kind = "exec"
      BY <1>3, <2>1 DEF Inv, OneFlush, Pending
  <2>3. sup' = [sup EXCEPT !.pc = "reopen"]
      BY <1>5, <2>2
  <2>4. /\ sup' \in Supervisors /\ sup'.pc = "reopen" /\ sup'.fd = sup.fd /\ sup'.code = sup.code
        /\ sup'.exit = sup.exit
      BY <1>3, <2>3 DEF Supervisors
  <2>5. TypeOK'
    <3>1. UNCHANGED <<kind, child, kin, made, took, reader, chan, input, srv, vm, log, path, note, rpc, ctl, mark, count>>
        BY <1>1, <1>5
    <3>2. sup' \in Supervisors /\ sup'.fd = sup.fd /\ wire' \in Seq(Frame)
        BY <2>1, <2>4
    <3> QED  BY <3>1, <3>2 DEF Inv, TypeOK
  <2>6. Pipe'
      BY <1>5, <1>10
  <2>7. Threads'
      BY <1>1 DEF Inv, Threads, Held, Queued
  <2>8. OneFlush'
    <3>1. Flushes(ctl)' = {} /\ Flushes(input)' = {} /\ srv'.pc \notin {"ack1", "ack2"}
        BY <1>1, <2>1 DEF Inv, OneFlush, Flushes
    <3> QED  BY <2>1, <2>4, <3>1 DEF OneFlush, Pending, AtMostOne
  <2>9. Ended'
      BY <1>1, <1>3, <2>1, <2>4 DEF Inv, Ended
  <2>10. ExitCode'
      BY <1>1, <1>3, <2>1, <2>4 DEF Inv, ExitCode, Faithful, Status
  <2>11. Permits'
      BY <1>1, <1>5, <2>2, <2>4 DEF Inv, Permits
  <2>12. Marked'
    <3> SUFFICES ASSUME NEW s \in Streams
                 PROVE  1 .. mark[s] \subseteq InLog(s)'
        BY <1>1 DEF Marked
    <3>1. PICK a \in Nat, b \in Nat : Flows(s, a, b)
        BY DEF Inv, Pipe
    <3>2. PICK f : f = WireNos(wire, s)
        OBVIOUS
    <3>3. /\ InLog(s) = 1 .. a /\ Run(f, Len(wire), a, b) /\ mark[s] <= b
          /\ \A j \in 1 .. Len(wire) : FrameNo(wire[j], s) # 0 => FrameNo(wire[j], s) > mark[s]
        BY <2>1, <3>1, <3>2 DEF Flows
    <3>4. \A j \in 1 .. Len(wire) : f[j] = FrameNo(wire[j], s) /\ f[j] \in Nat
        BY <1>3, <3>2, WireNosType
    <3>5. mark[s] <= a
      <4> SUFFICES ASSUME mark[s] > a
                   PROVE  FALSE
          BY Counters
      <4>1. mark[s] \in a + 1 .. b /\ mark[s] \in Nat
          BY <3>3, Counters
      <4>2. PICK j \in 1 .. Len(wire) : f[j] = mark[s]
          BY <3>3, <4>1 DEF Run
      <4>3. f[j] # 0
          BY <4>1, <4>2
      <4> QED  BY <3>3, <3>4, <4>1, <4>2, <4>3
    <3>6. InLog(s)' = InLog(s)
        BY <1>5 DEF InLog
    <3> QED  BY <3>3, <3>5, <3>6, Counters
  <2> QED  BY <2>5, <2>6, <2>7, <2>8, <2>9, <2>10, <2>11, <2>12 DEF Inv
<1>6. CASE /\ wire # <<>> /\ Head(wire).t = "exit" /\ wire' = Tail(wire) /\ log' = log
           /\ sup' = [sup EXCEPT !.pc = over, !.code = Head(wire).code, !.exit = TRUE]
  <2>1. /\ Head(wire) \in Frame /\ Head(wire) = wire[1] /\ 1 \in 1 .. Len(wire) /\ wire' = <<>> /\ srv.pc = "closed"
      BY <1>6, TakeFacts
  <2>2. PICK k : k = Head(wire).code
      OBVIOUS
  <2>3. k \in Codes /\ k # "lost"
      BY <1>6, <2>1, <2>2, FrameFacts, ExecStreamAssumption DEF Codes
  <2>4. vm = "up" => Faithful(k)
      BY <1>6, <2>1, <2>2 DEF Inv, ExitCode
  <2>5. Pipe'
      BY <1>6, <1>10
  <2> QED  BY <1>1, <1>2, <1>6, <2>1, <2>2, <2>3, <2>4, <2>5, OverInv
<1>7. CASE Eof /\ wire' = wire /\ log' = log /\ sup' = [sup EXCEPT !.pc = over, !.code = "lost", !.exit = TRUE]
  <2>1. wire' = <<>> /\ (vm = "halted" \/ srv.pc = "closed")
      BY <1>7 DEF Eof
  <2>2. Pipe'
      BY <1>1, <1>7, PipeKept DEF Inv, Queued
  <2>3. "lost" \in Codes \cup {"lost"}
      OBVIOUS
  <2> QED  BY <1>1, <1>2, <1>7, <2>1, <2>2, <2>3, OverInv
<1> QED  BY <1>2, <1>4, <1>5, <1>6, <1>7 DEF SupEvent

\* The supervisor opens the new log file.
LEMMA ReopenInv ==
    ASSUME Inv, Reopen
    PROVE  Inv'
<1>1. /\ UNCHANGED <<kind, child, kin, made, took, reader, chan, input, srv, vm, rpc, ctl, wire, mark, count>>
      /\ sup.pc = "reopen" /\ note' = [note EXCEPT !.done = TRUE] /\ path' = Len(log')
      /\ \/ log' = log
         \/ path = 0 /\ log' = Append(log, <<>>)
    BY DEF Reopen, guest
<1>2. sup \in Supervisors /\ sup.fd \in 1 .. Len(log) /\ note \in Notes /\ log \in Seq(Seq(Chunks))
    BY DEF Inv, TypeOK
<1>3. PICK pc \in {"end", "select"} : /\ pc = IF sup.exit THEN "end" ELSE "select"
                                      /\ sup' = [sup EXCEPT !.fd = Len(log'), !.pc = pc]
    BY DEF Reopen
<1>4. /\ log' \in Seq(Seq(Chunks)) /\ Len(log') \in Nat /\ Len(log') >= 1
      /\ \A f \in DOMAIN log' : (f \in DOMAIN log /\ log'[f] = log[f]) \/ log'[f] = <<>>
      /\ \A f \in DOMAIN log : f \in DOMAIN log' /\ log'[f] = log[f]
  <2>1. PICK l \in Nat : l = Len(log) /\ l >= 1 /\ DOMAIN log = 1 .. l
    <3>1. Len(log) \in Nat /\ DOMAIN log = 1 .. Len(log)
        BY <1>2, LenProperties
    <3>2. sup.fd \in 1 .. Len(log)
        BY <1>2
    <3>3. Len(log) >= 1
        BY <3>1, <3>2
    <3> QED  BY <3>1, <3>3
  <2>2. CASE log' = log
      BY <1>2, <2>1, <2>2
  <2>3. CASE log' = Append(log, <<>>)
    <3>1. PICK e : e = <<>>
        OBVIOUS
    <3>2. e \in Seq(Chunks)
        BY <3>1
    <3>3. PICK g : g = log'
        OBVIOUS
    <3>4. /\ g \in Seq(Seq(Chunks)) /\ Len(g) = l + 1
          /\ \A i \in 1 .. l : g[i] = log[i]
          /\ g[l + 1] = e
        BY <1>2, <2>1, <2>3, <3>1, <3>2, <3>3, AppendProperties
    <3>5. DOMAIN g = 1 .. l + 1 /\ \A f \in 1 .. l + 1 : f \in 1 .. l \/ f = l + 1
        BY <3>4, LenProperties
    <3>6. \A f \in 1 .. l : f \in 1 .. l + 1
        OBVIOUS
    <3> QED  BY <2>1, <3>1, <3>3, <3>4, <3>5, <3>6
  <2> QED  BY <1>1, <2>2, <2>3
<1>5. /\ sup'.pc = pc /\ sup'.fd = Len(log') /\ sup'.code = sup.code /\ sup'.exit = sup.exit
      /\ sup' \in Supervisors
  <2>1. PICK d \in Nat : d = Len(log')
      BY <1>4
  <2>2. sup' = [sup EXCEPT !.fd = d, !.pc = pc]
      BY <1>3, <2>1
  <2>3. sup' \in Supervisors /\ sup'.pc = pc /\ sup'.fd = d /\ sup'.code = sup.code /\ sup'.exit = sup.exit
      BY <1>2, <2>2 DEF Supervisors
  <2> QED  BY <2>1, <2>3
<1>6. note' \in Notes /\ note'.done /\ note'.request = note.request
    BY <1>1, <1>2 DEF Notes
<1>7. TypeOK'
  <2>1. path' \in 0 .. Len(log') /\ log' \in Seq(Seq(Chunks))
      BY <1>1, <1>4
  <2>2. UNCHANGED <<kind, child, kin, made, took, reader, chan, input, srv, vm, rpc, ctl, wire, mark, count>>
      BY <1>1
  <2>3. sup' \in Supervisors /\ sup'.fd \in 1 .. Len(log') /\ note' \in Notes
      BY <1>4, <1>5, <1>6
  <2>4. TypeOK
      BY DEF Inv
  <2>5. /\ kind' \in Kinds /\ kin' \in {"none", "group", "own"}
        /\ child' \in Children /\ made' \in [Streams -> 0 .. MaxOut] /\ took' \in [Streams -> 0 .. MaxOut]
        /\ reader' \in [Streams -> {"read", "send", "end"}] /\ chan' \in Seq(Chunks) /\ wire' \in Seq(Frame)
        /\ input' \in Seq({"flush", "cancel"}) /\ ctl' \in Seq({"flush", "cancel"})
        /\ srv' \in Servers /\ vm' \in {"up", "down", "halted"}
        /\ rpc' \in {"idle", "call", "wait", "done", "late"}
        /\ mark' \in [Streams -> 0 .. MaxOut] /\ count' \in Counts
      BY <2>2, <2>4 DEF TypeOK
  <2> QED  BY <2>1, <2>3, <2>5 DEF TypeOK
<1>8. \A s \in Streams : InLog(s)' = InLog(s)
  <2>1. \A x : x \in Range(<<>>) <=> FALSE
      BY DEF Range
  <2> QED  BY <1>4, <2>1 DEF InLog
<1>9. Pipe'
  <2> SUFFICES ASSUME NEW s \in Streams
               PROVE  (InOrder(s) /\ \E a, b \in Nat : Flows(s, a, b))'
      BY DEF Pipe
  <2>1. PICK a \in Nat, b \in Nat : Flows(s, a, b)
      BY DEF Inv, Pipe
  <2>2. Flows(s, a, b)'
      BY <1>1, <1>8, <2>1 DEF Flows, Acks, Queued
  <2>3. InOrder(s)
      BY DEF Inv, Pipe
  <2>4. \A f \in DOMAIN log' : \A i \in DOMAIN log'[f] : f \in DOMAIN log /\ i \in DOMAIN log[f] /\ log'[f] = log[f]
    <3>1. DOMAIN <<>> = {}
        OBVIOUS
    <3> QED  BY <1>4, <3>1
  <2>5. InOrder(s)'
      BY <2>3, <2>4 DEF InOrder
  <2> QED  BY <2>2, <2>5
<1>10. Threads'
    BY <1>1 DEF Inv, Threads, Held, Queued
<1>11. OneFlush'
  <2>1. Flushes(ctl)' = Flushes(ctl) /\ Flushes(input)' = Flushes(input) /\ Acks' = Acks
      BY <1>1 DEF Flushes, Acks
  <2> QED  BY <1>1, <1>3, <1>5, <2>1 DEF Inv, OneFlush, Pending, AtMostOne
<1>12. Ended' /\ ExitCode'
    BY <1>1, <1>3, <1>5 DEF Inv, Ended, ExitCode, Faithful, Status
<1>13. Permits'
    BY <1>1, <1>3, <1>4, <1>5, <1>6 DEF Inv, Permits
<1>14. Marked'
    BY <1>1, <1>8 DEF Inv, Marked
<1> QED  BY <1>7, <1>9, <1>10, <1>11, <1>12, <1>13, <1>14 DEF Inv


-----------------------------------------------------------------------------
(* The theorems                                                            *)

\* The invariant holds at the start.
LEMMA InitInv ==
    ASSUME Init
    PROVE  Inv
<1>1. /\ kind \in Kinds /\ kin = "none" /\ chan = <<>> /\ input = <<>> /\ ctl = <<>> /\ wire = <<>>
      /\ child = [st |-> "run", code |-> "none"] /\ vm = "up" /\ path = 1 /\ rpc = "idle"
      /\ log = <<<<>>>>
    BY DEF Init
<1>2. PICK p \in {"in1", "poll"} :
        /\ p = IF kind = "exec" THEN "in1" ELSE "poll"
        /\ srv = [pc |-> p, code |-> "none", pollin |-> FALSE, hup |-> FALSE, stop |-> FALSE, exited |-> FALSE]
    BY DEF Init
<1>3. srv \in Servers /\ srv.pc = p /\ srv.code = "none" /\ ~srv.exited
    BY <1>2 DEF Servers, Codes
<1>4. child \in Children /\ child.st = "run" /\ child.code = "none"
    BY <1>1 DEF Children
<1>5. /\ log \in Seq(Seq(Chunks)) /\ Len(log) = 1 /\ DOMAIN log = 1 .. 1 /\ log[1] = <<>>
  <2>1. PICK e : e = <<>>
      OBVIOUS
  <2>2. e \in Seq(Chunks) /\ log = <<e>>
      BY <1>1, <2>1
  <2>3. log \in Seq(Seq(Chunks)) /\ Len(log) = 1 /\ log[1] = e
      BY <2>2
  <2> QED  BY <2>1, <2>3, LenProperties
<1>6. sup \in Supervisors /\ sup.pc = "select" /\ sup.fd = 1 /\ ~sup.exit
  <2>1. sup = [pc |-> "select", fd |-> 1, code |-> "none", stop |-> "no", exit |-> FALSE] /\ 1 \in 1 .. Len(log)
      BY <1>5 DEF Init
  <2> QED  BY <2>1 DEF Supervisors, Codes
<1>7. note \in Notes /\ ~note.request /\ ~note.done
    BY DEF Init, Notes
<1>8. count \in Counts /\ count.late = 0
    BY ExecStreamAssumption DEF Init, Counts
<1>9. /\ made \in [Streams -> 0 .. MaxOut] /\ took \in [Streams -> 0 .. MaxOut] /\ mark \in [Streams -> 0 .. MaxOut]
      /\ \A s \in Streams : made[s] = 0 /\ took[s] = 0 /\ mark[s] = 0
    BY ExecStreamAssumption DEF Init
<1>10. /\ reader \in [Streams -> {"read", "send", "end"}]
       /\ \A s \in Streams : reader[s] = IF kind = "exec" THEN "read" ELSE "end"
    BY DEF Init
<1>11. TypeOK
  <2>1. chan \in Seq(Chunks) /\ wire \in Seq(Frame) /\ input \in Seq({"flush", "cancel"}) /\ ctl \in Seq({"flush", "cancel"})
      BY <1>1
  <2> QED  BY <1>1, <1>3, <1>4, <1>5, <1>6, <1>7, <1>8, <1>9, <1>10, <2>1
           DEF TypeOK, Servers, Children, Supervisors, Notes, Counts
<1>12. Len(wire) = 0 /\ Len(chan) = 0 /\ Len(ctl) = 0 /\ Len(input) = 0
    BY <1>1
<1>13. Acks = {} /\ Flushes(ctl) = {} /\ Flushes(input) = {}
    BY <1>12 DEF Acks, Flushes
<1>14. \A s \in Streams : Queued(s) = 0
    BY <1>9, <1>10 DEF Queued
<1>15. Pipe
  <2> SUFFICES ASSUME NEW s \in Streams
               PROVE  InOrder(s) /\ Flows(s, 0, 0)
      BY DEF Pipe
  <2>0. DOMAIN <<>> = {}
      OBVIOUS
  <2>1. \A f \in DOMAIN log : DOMAIN log[f] = {}
      BY <1>5, <2>0
  <2>2. InOrder(s)
      BY <2>1 DEF InOrder
  <2>3. InLog(s) = 1 .. 0
      BY <2>1 DEF InLog, Range
  <2>4. PICK f, g : f = WireNos(wire, s) /\ g = ChanNos(chan, s)
      OBVIOUS
  <2>5. Run(f, 0, 0, 0) /\ Run(g, 0, 0, 0)
      BY RunEmpty
  <2> QED  BY <1>12, <1>13, <1>14, <2>2, <2>3, <2>4, <2>5 DEF Flows
<1>16. Threads
    BY <1>1, <1>2, <1>3, <1>9, <1>10, <1>14, ExecStreamAssumption DEF Threads, ExecPlaces, PtyPlaces
<1>17. OneFlush
    BY <1>2, <1>3, <1>6, <1>13 DEF OneFlush, AtMostOne, Pending
<1>18. Ended
    BY <1>6, <1>12 DEF Ended
<1>19. ExitCode
    BY <1>2, <1>3, <1>4, <1>6, <1>12 DEF ExitCode
<1>20. Permits
    BY <1>1, <1>5, <1>6, <1>7, <1>8 DEF Permits
<1>21. Marked
  <2>1. \A s \in Streams : 1 .. mark[s] = {}
      BY <1>9
  <2> QED  BY <2>1 DEF Marked
<1> QED  BY <1>11, <1>15, <1>16, <1>17, <1>18, <1>19, <1>20, <1>21 DEF Inv

\* Every step keeps the invariant.
LEMMA NextInv ==
    ASSUME Inv, [Next]_vars
    PROVE  Inv'
<1>1. CASE \E s \in Streams : Write(s) \/ Read(s) \/ Send(s)
    BY <1>1, WriteInv, ReadInv, SendInv
<1>2. CASE Fork \/ KinExit \/ ChildExit
    BY <1>2, KinInv, ChildInv
<1>3. CASE InputMonitor
    BY <1>3, InputMonitorInv
<1>4. CASE ExecThread
    BY <1>4, InputInv, FlushAckInv, RecvInv, TryWaitInv, FinishInv DEF ExecThread
<1>5. CASE PtyThread
    BY <1>5, PtyPollInv, PtyRelayInv, PtyBreakInv, PtyCheckInv, PtyReapInv DEF PtyThread
<1>6. CASE Shutdown \/ InitReap \/ Halt
    BY <1>6, VmInv
<1>7. CASE Supervisor
    BY <1>7, SupReopenInv, StopInv, SupEventInv, ReopenInv DEF Supervisor
<1>8. CASE StopContainer \/ Rotate \/ ReopenCall \/ ReopenReturn
    BY <1>8, StopInv, CallInv
<1>9. CASE UNCHANGED vars
    BY <1>9, StutterInv
<1> QED  BY <1>1, <1>2, <1>3, <1>4, <1>5, <1>6, <1>7, <1>8, <1>9 DEF Next

\* The invariant holds in every state the transport reaches.
THEOREM Invariance == Spec => []Inv
<1>1. Init => Inv
    BY InitInv
<1>2. Inv /\ [Next]_vars => Inv'
    BY NextInv
<1> QED  BY <1>1, <1>2, PTL DEF Spec

\* Type correctness.
THEOREM TypeCorrect == Spec => []TypeOK
<1>1. Inv => TypeOK
    BY DEF Inv
<1> QED  BY <1>1, Invariance, PTL

\* The log files hold a stream's chunks in order and without a gap, and all of them
\* once the exit frame of an exec workload has been handled, whatever the rotations,
\* the stop and the timeout do.
THEOREM Complete == Spec => []LogComplete
<1>1. Inv => LogComplete
  <2> SUFFICES ASSUME Inv, NEW s \in Streams
               PROVE  /\ InOrder(s)
                      /\ \E n \in 0 .. made[s] : InLog(s) = 1 .. n
                      /\ kind = "exec" /\ sup.pc = "end" /\ sup.code # "lost" => InLog(s) = 1 .. made[s]
      BY DEF LogComplete
  <2>1. PICK a \in Nat, b \in Nat : Flows(s, a, b)
      BY DEF Inv, Pipe
  <2>2. InOrder(s)
      BY DEF Inv, Pipe
  <2>3. PICK f, g : f = WireNos(wire, s) /\ g = ChanNos(chan, s)
      OBVIOUS
  <2>4. InLog(s) = 1 .. a /\ Run(f, Len(wire), a, b) /\ Run(g, Len(chan), b, Queued(s))
      BY <2>1, <2>3 DEF Flows
  <2>5. Queued(s) \in Nat /\ Queued(s) <= made[s] /\ made[s] \in Nat
      BY Counters DEF Inv, Threads, Queued
  <2>6. a <= b /\ b <= Queued(s)
      BY <2>4 DEF Run
  <2>7. a \in 0 .. made[s]
      BY <2>5, <2>6
  <2>8. ASSUME kind = "exec", sup.pc = "end", sup.code # "lost"
        PROVE  a = made[s]
    <3>1. wire = <<>> /\ srv.pc = "closed"
        BY <2>8 DEF Inv, Ended
    <3>2. chan = <<>> /\ reader[s] = "end" /\ took[s] = made[s]
        BY <2>8, <3>1 DEF Inv, Threads
    <3>3. Queued(s) = made[s] /\ Len(wire) = 0 /\ Len(chan) = 0
        BY <3>1, <3>2 DEF Queued
    <3>4. Run(f, 0, a, b) /\ Run(g, 0, b, Queued(s))
        BY <2>4, <3>3
    <3>5. a = b /\ b = Queued(s)
        BY <2>5, <3>4, RunEmpty
    <3> QED  BY <3>3, <3>5
  <2> QED  BY <2>2, <2>4, <2>7, <2>8
<1> QED  BY <1>1, Invariance, PTL

\* What the guest had queued when it took the flush is in the old log file before the
\* supervisor opens the new one.
THEOREM Boundary == Spec => []FlushBoundary
<1>1. Inv => FlushBoundary
    BY DEF Inv, Marked, FlushBoundary
<1> QED  BY <1>1, Invariance, PTL

\* ReopenContainerLog that answers in time finds the supervisor on the file at
\* log_path, as long as no call has timed out.
THEOREM InPlace == Spec => []ReopenedInPlace
<1>1. Inv => ReopenedInPlace
    BY DEF Inv, Permits, ReopenedInPlace
<1> QED  BY <1>1, Invariance, PTL


-----------------------------------------------------------------------------
(* Why a workload is killed                                                *)

\* The supervisor has sent a cancel, or there has been a fault.
Stopped == sup.stop = "sent" \/ count.faults > 0

Cancels(q) == {i \in 1 .. Len(q) : q[i] = "cancel"}

\* Nothing says that the workload is or was to be killed.
Unharmed ==
    /\ Cancels(ctl) = {} /\ Cancels(input) = {} /\ ~srv.stop
    /\ child.code # "kill" /\ srv.code # "kill" /\ sup.code # "kill"
    /\ \A i \in 1 .. Len(wire) : wire[i].t = "exit" => wire[i].code # "kill"
    /\ srv.pc \in {"reap", "broken"} => child.st # "run"

\* As long as the workload is not stopped nothing kills it; a terminal gets no flush
\* and hangs up only when its process has ended.
Stops ==
    /\ Stopped \/ Unharmed
    /\ kind = "pty" => Flushes(ctl) = {}
    /\ srv.pc = "relay" /\ srv.hup => child.st # "run"

\* A cancel is taken from control frames that have one, or queued.
LEMMA CancelFacts ==
    ASSUME NEW q \in Seq({"flush", "cancel"})
    PROVE  /\ "cancel" \in Range(q) => Cancels(q) # {}
           /\ q # <<>> /\ Flushes(q) = {} => Cancels(q) # {}
           /\ q # <<>> /\ Cancels(q) = {} => Head(q) # "cancel" /\ Cancels(Tail(q)) = {}
           /\ q # <<>> /\ Flushes(q) = {} => Flushes(Tail(q)) = {}
           /\ \A x : x # "cancel" /\ Cancels(q) = {} => Cancels(Append(q, x)) = {}
           /\ Flushes(q) = {} => Flushes(Append(q, "cancel")) = {}
<1>1. DOMAIN q = 1 .. Len(q) /\ Len(q) \in Nat /\ \A i \in 1 .. Len(q) : q[i] \in {"flush", "cancel"}
    BY LenProperties
<1>2. "cancel" \in Range(q) => Cancels(q) # {}
    BY <1>1 DEF Range, Cancels
<1>3. ASSUME q # <<>>
      PROVE  /\ 1 \in 1 .. Len(q) /\ Head(q) = q[1] /\ Len(Tail(q)) \in Nat
             /\ \A i \in 1 .. Len(Tail(q)) : i + 1 \in 1 .. Len(q) /\ Tail(q)[i] = q[i + 1]
  <2>1. PICK t : t = Tail(q)
      OBVIOUS
  <2>2. Head(q) = q[1]
      BY <1>3
  <2>3. /\ t \in Seq({"flush", "cancel"}) /\ Len(t) = Len(q) - 1
        /\ \A i \in 1 .. Len(t) : t[i] = q[i + 1]
      BY <1>3, <2>1, HeadTailProperties
  <2>4. Len(t) \in Nat
      BY <2>3, LenProperties
  <2> QED  BY <1>1, <2>1, <2>2, <2>3, <2>4
<1>4. q # <<>> /\ Flushes(q) = {} => Cancels(q) # {}
    BY <1>1, <1>3 DEF Flushes, Cancels
<1>5. q # <<>> /\ Cancels(q) = {} => Head(q) # "cancel" /\ Cancels(Tail(q)) = {}
    BY <1>3 DEF Cancels
<1>6. q # <<>> /\ Flushes(q) = {} => Flushes(Tail(q)) = {}
    BY <1>3 DEF Flushes
<1>7. ASSUME NEW x, x # "cancel", Cancels(q) = {}
      PROVE  Cancels(Append(q, x)) = {}
  <2>1. PICK t : t = Append(q, x)
      OBVIOUS
  <2>2. /\ Len(t) = Len(q) + 1 /\ t[Len(q) + 1] = x
        /\ \A i \in 1 .. Len(q) : t[i] = q[i]
      BY <2>1
  <2>3. \A i \in 1 .. Len(t) : i \in 1 .. Len(q) \/ i = Len(q) + 1
      BY <1>1, <2>2
  <2> QED  BY <1>7, <2>1, <2>2, <2>3 DEF Cancels
<1>8. ASSUME Flushes(q) = {}
      PROVE  Flushes(Append(q, "cancel")) = {}
  <2>1. PICK t : t = Append(q, "cancel")
      OBVIOUS
  <2>2. /\ Len(t) = Len(q) + 1 /\ t[Len(q) + 1] = "cancel"
        /\ \A i \in 1 .. Len(q) : t[i] = q[i]
      BY <2>1
  <2>3. \A i \in 1 .. Len(t) : i \in 1 .. Len(q) \/ i = Len(q) + 1
      BY <1>1, <2>2
  <2> QED  BY <1>8, <2>1, <2>2, <2>3 DEF Flushes
<1> QED  BY <1>2, <1>4, <1>5, <1>6, <1>7, <1>8

\* No step takes back a stop or a fault.
LEMMA StoppedStays ==
    ASSUME Inv, [Next]_vars
    PROVE  Stopped => Stopped'
<1>1. count \in Counts /\ sup \in Supervisors
    BY DEF Inv, TypeOK
<1>2. \/ count' = count \/ count' = [count EXCEPT !.faults = @ + 1]
      \/ count' = [count EXCEPT !.rotations = @ + 1] \/ count' = [count EXCEPT !.late = @ + 1]
    BY DEF Next, vars, guest, host, Fault, ExecThread, PtyThread, Supervisor, Write, Read, Send, Fork, KinExit,
           ChildExit, InputMonitor, Input, FlushAck, Recv, TryWait, Finish, PtyPoll, PtyRelay, PtyBreak, PtyCheck,
           PtyReap, Shutdown, InitReap, Halt, SupReopen, SupStop, SupEvent, Reopen, StopContainer, Rotate,
           ReopenCall, ReopenReturn
<1>3. count.faults > 0 => count'.faults > 0
    BY <1>1, <1>2 DEF Counts
<1>4. \/ UNCHANGED sup \/ SupReopen \/ SupStop \/ SupEvent \/ Reopen \/ StopContainer
    BY DEF Next, vars, guest, host, ExecThread, PtyThread, Supervisor, Write, Read, Send, Fork, KinExit,
           ChildExit, InputMonitor, Input, FlushAck, Recv, TryWait, Finish, PtyPoll, PtyRelay, PtyBreak, PtyCheck,
           PtyReap, Shutdown, InitReap, Halt, Rotate, ReopenCall, ReopenReturn
<1>5. sup.stop = "sent" => sup'.stop = "sent"
  <2>1. CASE UNCHANGED sup
      BY <2>1
  <2>2. CASE SupReopen
      BY <1>1, <2>2 DEF SupReopen, Supervisors
  <2>3. CASE SupStop
      BY <1>1, <2>3 DEF SupStop, Supervisors
  <2>4. CASE SupEvent
    <3>1. \/ sup' = sup
          \/ \E pc \in {"reopen", "select"} : sup' = [sup EXCEPT !.pc = pc]
          \/ \E pc \in {"reopen", "end"} : \E k : sup' = [sup EXCEPT !.pc = pc, !.code = k, !.exit = TRUE]
        BY <2>4 DEF SupEvent
    <3> QED  BY <1>1, <3>1 DEF Supervisors
  <2>5. CASE Reopen
      BY <1>1, <2>5 DEF Reopen, Supervisors
  <2>6. CASE StopContainer
      BY <1>1, <2>6 DEF StopContainer, Supervisors
  <2> QED  BY <1>4, <2>1, <2>2, <2>3, <2>4, <2>5, <2>6
<1> QED  BY <1>3, <1>5 DEF Stopped

\* At the start nothing is stopped.
LEMMA StopsInit ==
    ASSUME Init
    PROVE  Stops
<1>1. /\ ctl = <<>> /\ input = <<>> /\ wire = <<>> /\ child = [st |-> "run", code |-> "none"]
      /\ sup.code = "none" /\ srv.code = "none" /\ srv.stop = FALSE /\ srv.pc \in {"in1", "poll"}
    BY DEF Init
<1>2. Len(ctl) = 0 /\ Len(input) = 0 /\ Len(wire) = 0
    BY <1>1
<1> QED  BY <1>1, <1>2 DEF Stops, Unharmed, Cancels, Flushes

\* What a step of no thread of the guest leaves alone.
LEMMA StepKinds ==
    ASSUME [Next]_vars
    PROVE  \/ Input \/ FlushAck \/ Recv \/ TryWait \/ Finish \/ PtyPoll \/ PtyRelay \/ PtyBreak \/ PtyCheck \/ PtyReap
           \/ ChildExit \/ InitReap \/ InputMonitor
           \/ SupReopen \/ SupStop \/ SupEvent
           \/ /\ UNCHANGED <<kind, child, srv, input, ctl, wire>>
              /\ UNCHANGED sup \/ Reopen \/ StopContainer
  BY DEF Next, vars, guest, host, ExecThread, PtyThread, Supervisor, Write, Read, Send, Fork, KinExit,
         Shutdown, Halt, Reopen, StopContainer, Rotate, ReopenCall, ReopenReturn

\* The records the steps below change.
LEMMA RecordFacts ==
    ASSUME Inv
    PROVE  /\ child \in Children /\ srv \in Servers /\ sup \in Supervisors /\ wire \in Seq(Frame)
           /\ input \in Seq({"flush", "cancel"}) /\ ctl \in Seq({"flush", "cancel"})
           /\ chan \in Seq(Chunks) /\ count \in Counts
  BY DEF Inv, TypeOK

\* A fault stops the workload.
LEMMA FaultStops ==
    ASSUME Inv, Fault
    PROVE  Stopped'
  BY RecordFacts DEF Fault, Counts, Stopped

\* No step harms a workload that is not stopped.
LEMMA UnharmedNext ==
    ASSUME Inv, Stops, Unharmed, ~Stopped', [Next]_vars
    PROVE  Unharmed'
<1>1. /\ child \in Children /\ srv \in Servers /\ sup \in Supervisors /\ wire \in Seq(Frame)
      /\ input \in Seq({"flush", "cancel"}) /\ ctl \in Seq({"flush", "cancel"})
      /\ chan \in Seq(Chunks)
    BY RecordFacts
<1>2. ~Fault
    BY FaultStops
<1>3. CASE Input
  <2>1. Cancels(input) = {} /\ "cancel" \notin Range(input)
      BY <1>1, CancelFacts DEF Unharmed
  <2>2. /\ child' = child /\ input' = <<>> /\ UNCHANGED <<sup, ctl, wire>>
        /\ \E pc \in {"ack1", "ack2", "recv", "wait"} :
             srv' = [srv EXCEPT !.pc = pc, !.stop = FALSE] \/ srv' = [srv EXCEPT !.pc = pc]
    <3>1. child' = child /\ input' = <<>> /\ UNCHANGED <<sup, ctl, wire>> /\ srv.pc \in {"in1", "in2"}
        BY <1>3, <2>1 DEF Input, host
    <3>2. CASE "flush" \in Range(input)
      <4>1. PICK pc \in {"ack1", "ack2"} : srv' = [srv EXCEPT !.pc = pc, !.stop = "cancel" \in Range(input)]
          BY <1>3, <3>2 DEF Input
      <4>2. ("cancel" \in Range(input)) = FALSE
          BY <2>1
      <4>3. srv' = [srv EXCEPT !.pc = pc, !.stop = FALSE]
          BY <4>1, <4>2
      <4> QED  BY <3>1, <4>3
    <3>3. CASE "flush" \notin Range(input)
      <4>1. PICK pc \in {"recv", "wait"} : pc = AfterInput(srv.pc)
          BY DEF AfterInput
      <4>2. srv' = [srv EXCEPT !.pc = pc]
          BY <1>3, <2>1, <3>3, <4>1 DEF Input
      <4> QED  BY <3>1, <4>2
    <3> QED  BY <3>2, <3>3
  <2>3. srv'.pc \in {"ack1", "ack2", "recv", "wait"} /\ ~srv'.stop /\ srv'.code = srv.code
      BY <1>1, <2>2 DEF Unharmed, Servers
  <2>4. Len(input') = 0
      BY <2>2
  <2> QED  BY <2>2, <2>3, <2>4 DEF Unharmed, Cancels
<1>4. CASE FlushAck
  <2>1. PICK m : m = [t |-> "ack"]
      OBVIOUS
  <2>2. PICK q : q = Frames(chan) \o <<m>>
      OBVIOUS
  <2>3. /\ child' = child /\ wire' = wire \o q /\ UNCHANGED <<sup, ctl, input>>
        /\ \E pc \in {"recv", "wait"} : srv' = [srv EXCEPT !.pc = pc]
      BY <1>4, <2>1, <2>2 DEF FlushAck, outcome_cancel, flush_frames, Unharmed, host
  <2>4. m \in Frame /\ m.t = "ack"
      BY <2>1 DEF Frame
  <2>5. q \in Seq(Frame) /\ ChunksThen(q, m)
      BY <1>1, <2>2, <2>4, DrainFrames
  <2>6. \A i \in 1 .. Len(q) : q[i].t # "exit"
      BY <2>4, <2>5 DEF ChunksThen
  <2>7. \A i \in 1 .. Len(wire') : wire'[i].t = "exit" => wire'[i].code # "kill"
      BY <1>1, <2>3, <2>5, <2>6, WireGrows DEF Unharmed
  <2>8. srv'.pc \in {"recv", "wait"} /\ srv'.stop = srv.stop /\ srv'.code = srv.code
      BY <1>1, <2>3 DEF Servers
  <2> QED  BY <2>3, <2>7, <2>8 DEF Unharmed, Cancels
<1>5. CASE Recv
  <2>1. /\ UNCHANGED <<child, sup, ctl, input>> /\ srv' = [srv EXCEPT !.pc = "in2"]
        /\ \/ wire' = wire
           \/ chan # <<>> /\ wire' = wire \o Frames(<<Head(chan)>>)
      BY <1>5 DEF Recv, host
  <2>2. \A i \in 1 .. Len(wire') : wire'[i].t = "exit" => wire'[i].code # "kill"
    <3>1. CASE wire' = wire
        BY <3>1 DEF Unharmed
    <3>2. CASE chan # <<>> /\ wire' = wire \o Frames(<<Head(chan)>>)
      <4>1. PICK h : h = <<Head(chan)>>
          OBVIOUS
      <4>2. h \in Seq(Chunks)
          BY <1>1, <3>2, <4>1, HeadTailProperties
      <4>3. PICK q : q = Frames(h)
          OBVIOUS
      <4>4. q \in Seq(Frame) /\ \A i \in 1 .. Len(q) : q[i].t = "chunk"
          BY <4>2, <4>3, FramesFacts, ExecStreamAssumption
      <4>5. wire' = wire \o q
          BY <3>2, <4>1, <4>3
      <4>6. \A i \in 1 .. Len(wire') : \/ i \in 1 .. Len(wire) /\ wire'[i] = wire[i]
                                       \/ i - Len(wire) \in 1 .. Len(q) /\ wire'[i] = q[i - Len(wire)]
          BY <1>1, <4>4, <4>5, WireGrows
      <4> QED  BY <4>4, <4>6 DEF Unharmed
    <3> QED  BY <2>1, <3>1, <3>2
  <2>3. srv'.pc = "in2" /\ srv'.stop = srv.stop /\ srv'.code = srv.code
      BY <1>1, <2>1 DEF Servers
  <2> QED  BY <2>1, <2>2, <2>3 DEF Unharmed, Cancels
<1>6. CASE TryWait
  <2>1. /\ UNCHANGED <<sup, ctl, input, wire>>
        /\ child' = child \/ child' = [child EXCEPT !.st = "reaped"]
        /\ \/ \E k \in {"zero", "own", "one"} : srv' = [srv EXCEPT !.pc = "join", !.code = k]
           \/ srv' = [srv EXCEPT !.pc = "in1"]
      BY <1>2, <1>6 DEF TryWait, exit_code, host
  <2>2. child'.code = child.code
      BY <1>1, <2>1 DEF Children
  <2>3. srv'.pc \in {"join", "in1"} /\ srv'.stop = srv.stop /\ srv'.code # "kill"
      BY <1>1, <2>1 DEF Servers, Unharmed
  <2> QED  BY <2>1, <2>2, <2>3 DEF Unharmed, Cancels
<1>7. CASE Finish
  <2>0. PICK m : m = [t |-> "exit", code |-> srv.code]
      OBVIOUS
  <2>1. PICK f, g : f = Frames(chan) /\ g = <<m>>
      OBVIOUS
  <2>2. m \in Frame /\ m.t = "exit" /\ m.code # "kill"
      BY <1>1, <2>0 DEF Frame, Servers, Unharmed
  <2>3. /\ f \in Seq(Frame) /\ g \in Seq(Frame) /\ Len(g) = 1 /\ g[1] = m
        /\ \A i \in 1 .. Len(f) : f[i].t = "chunk"
      BY <1>1, <2>1, <2>2, FramesFacts, NoChunk, ExecStreamAssumption
  <2>4. /\ UNCHANGED <<child, sup, ctl, input>> /\ srv' = [srv EXCEPT !.pc = "closed"]
        /\ wire' = (wire \o f) \o g
      BY <1>7, <2>0, <2>1 DEF Finish, host
  <2>5. PICK q : q = f \o g
      OBVIOUS
  <2>6. /\ q \in Seq(Frame) /\ wire' = wire \o q
        /\ \A i \in 1 .. Len(q) : q[i].t = "exit" => q[i].code # "kill"
    <3>1. /\ q \in Seq(Frame) /\ Len(q) = Len(f) + Len(g) /\ Len(f) \in Nat
          /\ \A i \in 1 .. Len(f) + Len(g) : q[i] = IF i <= Len(f) THEN f[i] ELSE g[i - Len(f)]
        BY <2>3, <2>5, ConcatProperties, LenProperties
    <3>2. wire' = wire \o q
        BY <1>1, <2>3, <2>4, <2>5, ConcatAssociative
    <3>3. \A i \in 1 .. Len(q) : i \in 1 .. Len(f) \/ (i = Len(f) + 1 /\ i - Len(f) = 1 /\ ~(i <= Len(f)))
        BY <2>3, <3>1
    <3> QED  BY <2>2, <2>3, <3>1, <3>2, <3>3
  <2>7. \A i \in 1 .. Len(wire') : wire'[i].t = "exit" => wire'[i].code # "kill"
      BY <1>1, <2>6, WireGrows DEF Unharmed
  <2>8. srv'.pc = "closed" /\ srv'.stop = srv.stop /\ srv'.code = srv.code
      BY <1>1, <2>4 DEF Servers
  <2> QED  BY <2>4, <2>7, <2>8 DEF Unharmed, Cancels
<1>8. CASE PtyPoll
  <2>1. kind = "pty" /\ Flushes(ctl) = {} /\ Cancels(ctl) = {}
      BY <1>8, KindFacts DEF PtyPoll, Inv, Threads, ExecPlaces, Stops, Unharmed
  <2>2. ctl = <<>>
      BY <1>1, <2>1, CancelFacts
  <2>3. /\ UNCHANGED <<child, sup, ctl, input, wire>>
        /\ \E x, h : srv' = [srv EXCEPT !.pc = "relay", !.pollin = x, !.hup = h, !.stop = FALSE]
    <3>1. PICK x, h : x = (took["stdout"] < made["stdout"]) /\ h = ~Held
        OBVIOUS
    <3>2. srv' = [srv EXCEPT !.pc = "relay", !.pollin = x, !.hup = h, !.stop = ctl # <<>>]
        BY <1>8, <3>1 DEF PtyPoll
    <3>3. (ctl # <<>>) = FALSE
        BY <2>2
    <3>4. srv' = [srv EXCEPT !.pc = "relay", !.pollin = x, !.hup = h, !.stop = FALSE]
        BY <3>2, <3>3
    <3>5. UNCHANGED <<child, sup, ctl, input, wire>>
        BY <1>8 DEF PtyPoll, host
    <3> QED  BY <3>4, <3>5
  <2>4. srv'.pc = "relay" /\ srv'.stop = FALSE /\ srv'.code = srv.code
      BY <1>1, <2>3 DEF Servers
  <2> QED  BY <2>3, <2>4 DEF Unharmed, Cancels
<1>9. CASE PtyRelay
  <2>1. PICK pc \in {"reap", "check"} : /\ pc = IF srv.hup \/ srv.stop THEN "reap" ELSE "check"
                                        /\ srv' = [srv EXCEPT !.pc = pc]
      BY <1>9 DEF PtyRelay
  <2>2. srv'.pc = pc /\ srv'.stop = srv.stop /\ srv'.code = srv.code /\ (pc = "reap" => srv.hup)
      BY <1>1, <2>1 DEF Servers, Unharmed
  <2>3. PICK n \in 0 .. MaxOut : n = took["stdout"]
      BY ExecStreamAssumption, Counters
  <2>4. PICK q : q = PtyFrames(n, pty_read(n))
      OBVIOUS
  <2>5. q \in Seq(Frame) /\ \A i \in 1 .. Len(q) : q[i].t = "chunk"
    <3>1. "stdout" \in Streams /\ srv.pc = "relay"
        BY <1>9, ExecStreamAssumption DEF PtyRelay
    <3>2. /\ made["stdout"] \in 0 .. MaxOut /\ MaxOut \in Nat /\ n <= made["stdout"]
          /\ srv.pollin => n < made["stdout"]
        BY <2>3, <3>1, Counters DEF Inv, Threads
    <3>3. pty_read(n) \in 0 .. MaxOut /\ n <= pty_read(n)
        BY <3>2 DEF pty_read
    <3> QED  BY <2>4, <3>1, <3>3, PtyFramesRun
  <2>6. UNCHANGED <<child, sup, input>> /\ wire' = wire \o q /\ srv.pc = "relay" /\ ctl' = ctl
      BY <1>9, <2>3, <2>4 DEF PtyRelay, Unharmed, host
  <2>7. \A i \in 1 .. Len(wire') : wire'[i].t = "exit" => wire'[i].code # "kill"
      BY <1>1, <2>5, <2>6, WireGrows DEF Unharmed
  <2>8. pc = "reap" => child.st # "run"
      BY <2>2, <2>6 DEF Stops
  <2> QED  BY <2>2, <2>6, <2>7, <2>8 DEF Unharmed, Cancels
<1>10. CASE PtyBreak
    BY <1>2, <1>10 DEF PtyBreak
<1>11. CASE PtyCheck
  <2>1. PICK ended \in BOOLEAN : ended = (child.st = "zombie" /\ ~srv.exited)
      OBVIOUS
  <2>2. PICK x \in BOOLEAN : x = (srv.exited \/ ended)
      OBVIOUS
  <2>3. PICK k : k = IF ended THEN child.code ELSE srv.code
      OBVIOUS
  <2>4. PICK pc \in {"reap", "poll"} : /\ pc = "reap" => x
                                       /\ srv' = [srv EXCEPT !.exited = x, !.code = k, !.pc = pc, !.pollin = FALSE]
      BY <1>11, <2>1, <2>2, <2>3 DEF PtyCheck
  <2>5. child' = IF ended THEN [child EXCEPT !.st = "reaped"] ELSE child
      BY <1>11, <2>1 DEF PtyCheck
  <2>6. child'.code = child.code /\ child'.st = IF ended THEN "reaped" ELSE child.st
      BY <1>1, <2>5 DEF Children
  <2>7. srv'.pc = pc /\ srv'.stop = srv.stop /\ srv'.code = k /\ k # "kill"
      BY <1>1, <2>3, <2>4 DEF Servers, Unharmed
  <2>8. pc = "reap" => child'.st # "run"
      BY <2>2, <2>4, <2>6 DEF Inv, ExitCode
  <2>9. UNCHANGED <<sup, ctl, input, wire>>
      BY <1>11 DEF PtyCheck, host
  <2> QED  BY <2>6, <2>7, <2>8, <2>9 DEF Unharmed, Cancels
<1>12. CASE PtyReap
  <2>1. /\ UNCHANGED <<sup, ctl, input>> /\ srv' = [srv EXCEPT !.pc = "closed"]
        /\ child.st # "run" /\ (child' = child \/ child' = Killed)
      BY <1>12 DEF PtyReap, Unharmed, host
  <2>2. Killed.code = child.code
      BY <1>1, <2>1 DEF Killed, Children
  <2>3. PICK k : /\ k = CASE srv.exited -> srv.code
                          [] ~srv.exited /\ child.st = "reaped" -> "one"
                          [] OTHER -> Killed.code
                 /\ wire' = IF srv.pc = "broken" THEN wire ELSE wire \o <<[t |-> "exit", code |-> k]>>
      BY <1>12 DEF PtyReap
  <2>4. k \in Codes /\ k # "kill"
      BY <1>1, <2>2, <2>3 DEF Servers, Children, Codes, Unharmed
  <2>5. \A i \in 1 .. Len(wire') : wire'[i].t = "exit" => wire'[i].code # "kill"
    <3>1. PICK m : m = [t |-> "exit", code |-> k]
        OBVIOUS
    <3>2. m \in Frame /\ m.t = "exit" /\ m.code = k
        BY <2>4, <3>1 DEF Frame
    <3>3. PICK q : q = <<m>>
        OBVIOUS
    <3>4. q \in Seq(Frame) /\ Len(q) = 1 /\ q[1] = m
        BY <3>2, <3>3, NoChunk, ExecStreamAssumption
    <3>5. CASE wire' = wire
        BY <3>5 DEF Unharmed
    <3>6. CASE wire' = wire \o q
      <4>1. \A i \in 1 .. Len(wire') : \/ i \in 1 .. Len(wire) /\ wire'[i] = wire[i]
                                       \/ i - Len(wire) \in 1 .. Len(q) /\ wire'[i] = q[i - Len(wire)]
          BY <1>1, <3>4, <3>6, WireGrows
      <4>2. \A i \in 1 .. Len(q) : q[i].code # "kill"
          BY <2>4, <3>2, <3>4
      <4> QED  BY <4>1, <4>2 DEF Unharmed
    <3> QED  BY <2>3, <3>1, <3>3, <3>5, <3>6
  <2>6. srv'.pc = "closed" /\ srv'.stop = srv.stop /\ srv'.code = srv.code
      BY <1>1, <2>1 DEF Servers
  <2> QED  BY <2>1, <2>2, <2>5, <2>6 DEF Unharmed, Cancels
<1>13. CASE ChildExit
  <2>1. child'.st = "zombie" /\ child'.code # "kill" /\ UNCHANGED <<srv, sup, ctl, input, wire>>
      BY <1>13 DEF ChildExit, host
  <2> QED  BY <2>1 DEF Unharmed, Cancels
<1>14. CASE InitReap
  <2>1. child'.st = "reaped" /\ child'.code = child.code /\ UNCHANGED <<srv, sup, ctl, input, wire>>
      BY <1>1, <1>14 DEF InitReap, host, Children
  <2> QED  BY <2>1 DEF Unharmed, Cancels
<1>15. CASE InputMonitor
  <2>1. /\ UNCHANGED <<child, srv, sup, wire>> /\ ctl # <<>>
        /\ input' = Append(input, Head(ctl)) /\ ctl' = Tail(ctl)
      BY <1>15 DEF InputMonitor, host
  <2>2. Cancels(ctl') = {} /\ Cancels(input') = {}
      BY <1>1, <2>1, CancelFacts DEF Unharmed
  <2> QED  BY <2>1, <2>2 DEF Unharmed, Cancels
<1>16. CASE SupReopen
  <2>1. /\ UNCHANGED <<child, srv, input, wire>> /\ sup'.code = sup.code
        /\ ctl' = ctl \/ ctl' = Append(ctl, "flush")
      BY <1>1, <1>16 DEF SupReopen, guest, Supervisors
  <2>2. Cancels(ctl') = {}
      BY <1>1, <2>1, CancelFacts DEF Unharmed
  <2> QED  BY <2>1, <2>2 DEF Unharmed, Cancels
<1>17. CASE SupStop
    BY <1>1, <1>17 DEF SupStop, Supervisors, Stopped
<1>18. CASE SupEvent
  <2>1. UNCHANGED <<child, srv, input, ctl>>
      BY <1>18 DEF SupEvent, guest
  <2>2. CASE wire' = wire /\ (sup' = sup \/ \E pc \in {"reopen", "end"} : sup' = [sup EXCEPT !.pc = pc, !.code = "lost", !.exit = TRUE])
    <3>1. sup'.code # "kill"
        BY <1>1, <2>2 DEF Unharmed, Supervisors
    <3> QED  BY <2>1, <2>2, <3>1 DEF Unharmed, Cancels
  <2>3. CASE wire # <<>> /\ wire' = Tail(wire)
    <3>1. \A i \in 1 .. Len(wire') : wire'[i].t = "exit" => wire'[i].code # "kill"
        BY <2>3, TakeFacts DEF Unharmed
    <3>2. sup'.code # "kill"
      <4>1. Head(wire).t = "exit" => Head(wire).code # "kill"
          BY <2>3, TakeFacts DEF Unharmed
      <4>2. \/ sup' = sup
            \/ \E pc \in {"reopen", "select"} : sup' = [sup EXCEPT !.pc = pc]
            \/ \E pc \in {"reopen", "end"} : \E k : k # "kill" /\ sup' = [sup EXCEPT !.pc = pc, !.code = k, !.exit = TRUE]
        <5>1. PICK k : k = Head(wire).code
            OBVIOUS
        <5>2. \/ sup' = sup
              \/ \E pc \in {"reopen", "select"} : sup' = [sup EXCEPT !.pc = pc]
              \/ /\ Head(wire).t = "exit"
                 /\ \E pc \in {"reopen", "end"} : sup' = [sup EXCEPT !.pc = pc, !.code = k, !.exit = TRUE]
              \/ \E pc \in {"reopen", "end"} : sup' = [sup EXCEPT !.pc = pc, !.code = "lost", !.exit = TRUE]
            BY <1>18, <5>1 DEF SupEvent
        <5> QED  BY <4>1, <5>1, <5>2
      <4> QED  BY <1>1, <4>2 DEF Unharmed, Supervisors
    <3> QED  BY <2>1, <3>1, <3>2 DEF Unharmed, Cancels
  <2> QED  BY <1>18, <2>2, <2>3 DEF SupEvent
<1>19. CASE UNCHANGED <<kind, child, srv, input, ctl, wire>> /\ (UNCHANGED sup \/ Reopen \/ StopContainer)
  <2>1. sup'.code = sup.code
      BY <1>1, <1>19 DEF Reopen, StopContainer, Supervisors
  <2> QED  BY <1>19, <2>1 DEF Unharmed, Cancels
<1> QED  BY <1>3, <1>4, <1>5, <1>6, <1>7, <1>8, <1>9, <1>10, <1>11, <1>12, <1>13, <1>14, <1>15, <1>16,
            <1>17, <1>18, <1>19, StepKinds

\* The PTY thread comes to a pass only by polling.
LEMMA RelayPolled ==
    ASSUME Inv, [Next]_vars, ~PtyPoll
    PROVE  srv' = srv \/ srv'.pc # "relay"
<1>1. srv \in Servers
    BY RecordFacts
<1>2. CASE Input
  <2>1. \E pc \in {"ack1", "ack2", "recv", "wait", "join"} : \E y, k :
          \/ srv' = [srv EXCEPT !.pc = pc, !.stop = y] \/ srv' = [srv EXCEPT !.pc = pc]
          \/ srv' = [srv EXCEPT !.pc = pc, !.code = k]
    <3>1. CASE "flush" \in Range(input)
        BY <1>2, <3>1 DEF Input
    <3>2. CASE "flush" \notin Range(input)
        BY <1>2, <3>2 DEF Input, AfterInput, KillAndStop
    <3> QED  BY <3>1, <3>2
  <2> QED  BY <1>1, <2>1 DEF Servers
<1>3. CASE FlushAck \/ Recv \/ Finish \/ TryWait
  <2>1. \E pc \in {"recv", "wait", "in2", "in1", "join", "closed"} :
          srv' = [srv EXCEPT !.pc = pc] \/ \E k : srv' = [srv EXCEPT !.pc = pc, !.code = k]
      BY <1>3 DEF FlushAck, Recv, Finish, TryWait, KillAndStop
  <2> QED  BY <1>1, <2>1 DEF Servers
<1>4. CASE PtyRelay \/ PtyBreak \/ PtyReap
  <2>1. \E pc \in {"reap", "broken", "check", "closed"} : srv' = [srv EXCEPT !.pc = pc]
      BY <1>4 DEF PtyRelay, PtyBreak, PtyReap
  <2> QED  BY <1>1, <2>1 DEF Servers
<1>5. CASE PtyCheck
  <2>1. \E pc \in {"reap", "poll"} : \E x, k : srv' = [srv EXCEPT !.exited = x, !.code = k, !.pc = pc, !.pollin = FALSE]
      BY <1>5 DEF PtyCheck
  <2> QED  BY <1>1, <2>1 DEF Servers
<1>6. CASE ChildExit \/ InitReap \/ InputMonitor \/ SupReopen \/ SupStop \/ SupEvent
    BY <1>6 DEF ChildExit, InitReap, InputMonitor, SupReopen, SupStop, SupEvent, guest
<1> QED  BY <1>2, <1>3, <1>4, <1>5, <1>6, StepKinds

\* Every step keeps it so.
LEMMA StopsNext ==
    ASSUME Inv, Stops, [Next]_vars
    PROVE  Stops'
<1>1. /\ child \in Children /\ srv \in Servers /\ ctl \in Seq({"flush", "cancel"})
    BY RecordFacts
<1>2. Stopped' \/ Unharmed'
  <2>1. CASE Stopped
      BY <2>1, StoppedStays
  <2>2. CASE Unharmed
      BY <2>2, UnharmedNext
  <2> QED  BY <2>1, <2>2 DEF Stops
<1>3. kind' = "pty" => Flushes(ctl)' = {}
  <2>1. kind' = kind
      BY DEF Next, vars, guest, host, ExecThread, PtyThread, Supervisor, Write, Read, Send, Fork, KinExit,
         ChildExit, InputMonitor, Input, FlushAck, Recv, TryWait, Finish, PtyPoll, PtyRelay, PtyBreak, PtyCheck,
         PtyReap, Shutdown, InitReap, Halt, SupReopen, SupStop, SupEvent, Reopen, StopContainer, Rotate,
         ReopenCall, ReopenReturn
  <2>2. \/ ctl' = ctl \/ kind = "exec" \/ ctl' = Append(ctl, "cancel")
        \/ PtyRelay
      BY DEF Next, vars, guest, host, ExecThread, PtyThread, Supervisor, Write, Read, Send, Fork, KinExit,
         ChildExit, InputMonitor, Input, FlushAck, Recv, TryWait, Finish, PtyPoll, PtyBreak, PtyCheck,
         PtyReap, Shutdown, InitReap, Halt, SupReopen, SupStop, SupEvent, Reopen, StopContainer, Rotate,
         ReopenCall, ReopenReturn
  <2>3. PtyRelay => ctl' = ctl \/ (ctl # <<>> /\ ctl' = Tail(ctl))
      BY DEF PtyRelay, Inv, Threads
  <2>4. Flushes(ctl)' = Flushes(ctl')
      BY DEF Flushes
  <2> QED  BY <1>1, <2>1, <2>2, <2>3, <2>4, CancelFacts DEF Stops
<1>4. srv'.pc = "relay" /\ srv'.hup => child'.st # "run"
  <2>1. child.st # "run" => child'.st # "run"
    <3>1. \/ child' = child \/ child' = [child EXCEPT !.st = "reaped"] \/ child' = Killed
          \/ child' \in [st : {"zombie"}, code : {"zero", "own", "signal"}]
        BY DEF Next, vars, guest, host, ExecThread, PtyThread, Supervisor, Write, Read, Send, Fork, KinExit,
           ChildExit, InputMonitor, Input, FlushAck, Recv, TryWait, Finish, PtyPoll, PtyRelay, PtyBreak, PtyCheck,
           PtyReap, Shutdown, InitReap, Halt, SupReopen, SupStop, SupEvent, Reopen, StopContainer, Rotate,
           ReopenCall, ReopenReturn, KillAndStop
    <3> QED  BY <1>1, <3>1 DEF Killed, Children
  <2>2. CASE PtyPoll
    <3>1. PICK x, h, y : /\ x = (took["stdout"] < made["stdout"]) /\ h = ~Held /\ y = (ctl # <<>>)
                         /\ srv' = [srv EXCEPT !.pc = "relay", !.pollin = x, !.hup = h, !.stop = y]
        BY <2>2 DEF PtyPoll
    <3>2. srv'.hup = h /\ child' = child
        BY <1>1, <2>2, <3>1 DEF Servers, PtyPoll
    <3> QED  BY <3>1, <3>2 DEF Held
  <2>3. CASE ~PtyPoll
    <3>1. srv' = srv \/ srv'.pc # "relay"
        BY <2>3, RelayPolled
    <3> QED  BY <2>1, <3>1 DEF Stops
  <2> QED  BY <2>2, <2>3
<1> QED  BY <1>2, <1>3, <1>4 DEF Stops


\* The exit code that the supervisor records is the workload's own, unless it was told
\* to stop or there was a fault.
THEOREM CodeReported == Spec => []ExitCodeReported
<1>1. Init => Stops
    BY StopsInit
<1>2. Inv /\ Stops /\ [Next]_vars => Stops'
    BY StopsNext
<1>3. Inv /\ Stops => ExitCodeReported
    BY DEF Inv, Ended, ExitCode, Faithful, Stops, Stopped, Unharmed, ExitCodeReported
<1> QED  BY <1>1, <1>2, <1>3, Invariance, PTL DEF Spec


=============================================================================
