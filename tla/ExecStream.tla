------------------------------ MODULE ExecStream -----------------------------
(***************************************************************************)
(* The output of one container workload on its way from the process in the *)
(* guest to the container's log on the host, while the kubelet rotates the *)
(* log and may stop the container.                                         *)
(*                                                                         *)
(* Guest: the process and its descendants; for an exec workload one reader *)
(* thread per stream, the thread that reads control frames and the thread  *)
(* of execute_command_streaming; for a PTY workload the poll loop of       *)
(* relay_pty_data.  Host: the exit supervisor of the container and the RPC *)
(* ReopenContainerLog.  PID 1 of the guest may shut down and reap every    *)
(* child, and the VM may halt at any time.                                 *)
(*                                                                         *)
(* A chunk of output is its stream and its number.  Input to the process,  *)
(* attach clients, log write errors and partial lines are left out.        *)
(***************************************************************************)
EXTENDS Naturals, Sequences, Functions

CONSTANTS
    Kinds,         \* the kinds of workload to consider: "exec", "pty"
    Streams,       \* the streams an exec workload writes to
    MaxOut,        \* bound on the chunks written to each stream
    PipeCap,       \* chunks a pipe or terminal holds
    MaxRotations,  \* bound on log rotations
    MaxFaults      \* bound on time-outs, broken streams, shutdowns and halts

ASSUME ExecStreamAssumption ==
    /\ Kinds \subseteq {"exec", "pty"}
    /\ {"stdout"} \subseteq Streams /\ Streams \subseteq {"stdout", "stderr"}
    /\ MaxOut \in Nat /\ PipeCap \in Nat \ {0}
    /\ MaxRotations \in Nat /\ MaxFaults \in Nat

VARIABLES
    kind,    \* SupervisedWorkload: "exec" or "pty"
    child,   \* the process: running, a zombie or reaped, and how it ended
    kin,     \* a descendant that holds the output: in its group or a session of its own
    made,    \* chunks written to each stream
    took,    \* chunks read from each stream
    reader,  \* the reader threads
    chan,    \* StreamReaderEvents queued for the exec thread
    input,   \* ExecInputEvents queued for the exec thread
    ctl,     \* control frames on their way to the guest
    srv,     \* the thread that serves the connection
    wire,    \* frames on their way to the host
    vm,      \* "up", "down" (PID 1 is shutting down) or "halted"
    sup,     \* the exit supervisor
    log,     \* the log files ever created, each a sequence of chunks
    path,    \* the file at log_path, 0 when there is none
    note,    \* the permits of the two Notify
    rpc,     \* ReopenContainerLog: "idle", "call", "wait", "done" or "late"
    mark,    \* chunks queued by each reader when the guest took the last flush
    count    \* rotations, faults and late answers so far

guest == <<kind, child, kin, made, took, reader, chan, input, srv, vm>>
host  == <<sup, log, path, note, rpc>>
vars  == <<guest, host, ctl, wire, mark, count>>

Init ==
    /\ kind \in Kinds
    /\ child = [st |-> "run", code |-> "none"]
    /\ kin = "none"
    /\ made = [s \in Streams |-> 0]
    /\ took = [s \in Streams |-> 0]
    /\ reader = [s \in Streams |-> IF kind = "exec" THEN "read" ELSE "end"]
    /\ chan = <<>> /\ input = <<>> /\ ctl = <<>> /\ wire = <<>>
    /\ srv = [pc |-> IF kind = "exec" THEN "in1" ELSE "poll", code |-> "none",
              pollin |-> FALSE, hup |-> FALSE, stop |-> FALSE, exited |-> FALSE]
    /\ vm = "up"
    /\ sup = [pc |-> "select", fd |-> 1, code |-> "none", stop |-> "no", exit |-> FALSE]
    /\ log = <<<<>>>> /\ path = 1
    /\ note = [request |-> FALSE, done |-> FALSE]
    /\ rpc = "idle"
    /\ mark = [s \in Streams |-> 0]
    /\ count = [rotations |-> 0, faults |-> 0, late |-> 0]

Fault == count.faults < MaxFaults /\ count' = [count EXCEPT !.faults = @ + 1]

-----------------------------------------------------------------------------
(* The process in the guest                                                *)

\* Some process has the write end of the output open.
Held == child.st = "run" \/ kin # "none"

\* A terminal has one output stream.
StreamsOf(k) == IF k = "pty" THEN {"stdout"} ELSE Streams

Write(s) ==
    /\ vm # "halted" /\ sup.pc # "end" /\ Held /\ s \in StreamsOf(kind)
    /\ made[s] < MaxOut /\ made[s] - took[s] < PipeCap
    /\ made' = [made EXCEPT ![s] = @ + 1]
    /\ UNCHANGED <<kind, child, kin, took, reader, chan, input, srv, vm, host, ctl, wire,
                   mark, count>>

Fork ==
    /\ vm = "up" /\ child.st = "run" /\ kin = "none"
    /\ kin' \in {"group", "own"}
    /\ UNCHANGED <<kind, child, made, took, reader, chan, input, srv, vm, host, ctl, wire,
                   mark, count>>

KinExit ==
    /\ vm # "halted" /\ sup.pc # "end" /\ kin # "none"
    /\ kin' = "none"
    /\ UNCHANGED <<kind, child, made, took, reader, chan, input, srv, vm, host, ctl, wire,
                   mark, count>>

\* The process ends with status 0, with a status of its own, or by a signal.
ChildExit ==
    /\ vm # "halted" /\ child.st = "run"
    /\ child' \in [st : {"zombie"}, code : {"zero", "own", "signal"}]
    /\ UNCHANGED <<kind, kin, made, took, reader, chan, input, srv, vm, host, ctl, wire,
                   mark, count>>

\* kill_child_process_group, terminate_pty_child: SIGKILL to the group, and wait.
Killed     == [child EXCEPT !.st = "reaped", !.code = IF child.st = "run" THEN "kill" ELSE @]
KinKilled  == IF kin = "group" THEN "none" ELSE kin

-----------------------------------------------------------------------------
(* exec_server: the reader and input threads                               *)

Read(s) ==
    /\ vm # "halted" /\ reader[s] = "read"
    /\ \/ /\ took[s] < made[s]
          /\ took' = [took EXCEPT ![s] = @ + 1]
          /\ reader' = [reader EXCEPT ![s] = "send"]
       \/ /\ took[s] = made[s] /\ ~Held
          /\ reader' = [reader EXCEPT ![s] = "end"]
          /\ UNCHANGED took
    /\ UNCHANGED <<kind, child, kin, made, chan, input, srv, vm, host, ctl, wire, mark, count>>

Send(s) ==
    /\ vm # "halted" /\ reader[s] = "send"
    /\ chan' = Append(chan, <<s, took[s]>>)
    /\ reader' = [reader EXCEPT ![s] = "read"]
    /\ UNCHANGED <<kind, child, kin, made, took, input, srv, vm, host, ctl, wire, mark, count>>

\* spawn_exec_input_monitor: the next control frame; none after a cancel.
InputMonitor ==
    /\ vm # "halted" /\ kind = "exec" /\ ctl # <<>> /\ "cancel" \notin Range(input)
    /\ input' = Append(input, Head(ctl))
    /\ ctl' = Tail(ctl)
    /\ UNCHANGED <<kind, child, kin, made, took, reader, chan, srv, vm, host, wire, mark, count>>

-----------------------------------------------------------------------------
(* exec_server: wait_streaming_child and what follows it                   *)

\* A chunk as a frame.
Frames(q) == [i \in DOMAIN q |-> [t |-> "chunk", of |-> q[i]]]

\* Mutant of KillAndStop: the group gets SIGTERM, which the workload may ignore.
KillAndStop_term(pc) ==
    /\ UNCHANGED <<child, kin>>
    /\ srv' = [srv EXCEPT !.pc = pc, !.code = "kill"]

\* Kill the process group and report code 137.
KillAndStop(pc) ==
    /\ child' = Killed /\ kin' = KinKilled
    /\ srv' = [srv EXCEPT !.pc = pc, !.code = "kill"]

\* The next step after the input has been processed.
AfterInput(pc) == IF pc = "in1" THEN "recv" ELSE "wait"

\* drain_exec_input_events: everything queued, up to a cancel.
Input ==
    /\ vm # "halted" /\ srv.pc \in {"in1", "in2"}
    /\ LET flush == "flush" \in Range(input)  cancel == "cancel" \in Range(input) IN
       /\ input' = <<>>
       /\ IF flush
          THEN /\ mark' = [s \in Streams |-> took[s] - (IF reader[s] = "send" THEN 1 ELSE 0)]
               /\ srv' = [srv EXCEPT !.pc = IF srv.pc = "in1" THEN "ack1" ELSE "ack2",
                                     !.stop = cancel]
               /\ UNCHANGED <<child, kin>>
          ELSE /\ IF cancel THEN KillAndStop("join")
                  ELSE srv' = [srv EXCEPT !.pc = AfterInput(@)] /\ UNCHANGED <<child, kin>>
               /\ UNCHANGED mark
    /\ UNCHANGED <<kind, made, took, reader, chan, vm, host, ctl, wire, count>>

\* Mutant of flush_frames: the acknowledgement goes out first.
flush_frames_ack_first == <<[t |-> "ack"]>> \o Frames(chan)

\* process_streaming_input on a flush: the queued output, then the acknowledgement.
flush_frames == Frames(chan) \o <<[t |-> "ack"]>>

\* The cancel found in the same batch of events.
outcome_cancel == srv.stop

FlushAck ==
    /\ vm # "halted" /\ srv.pc \in {"ack1", "ack2"}
    /\ wire' = wire \o flush_frames
    /\ chan' = <<>>
    /\ IF outcome_cancel THEN KillAndStop("join")
       ELSE /\ srv' = [srv EXCEPT !.pc = IF srv.pc = "ack1" THEN "recv" ELSE "wait"]
            /\ UNCHANGED <<child, kin>>
    /\ UNCHANGED <<kind, made, took, reader, input, vm, host, ctl, mark, count>>

\* recv_timeout: one chunk, or none within the poll interval.
Recv ==
    /\ vm # "halted" /\ srv.pc = "recv"
    /\ IF chan = <<>> THEN UNCHANGED <<wire, chan>>
       ELSE wire' = wire \o Frames(<<Head(chan)>>) /\ chan' = Tail(chan)
    /\ srv' = [srv EXCEPT !.pc = "in2"]
    /\ UNCHANGED <<kind, child, kin, made, took, reader, input, vm, host, ctl, mark, count>>

\* Mutants of exit_code: a death by signal counts as a success, unwrap_or_default(),
\* or goes out as a code no process has, unwrap_or(-1).
exit_code_default(c) == IF c = "own" THEN "own" ELSE "zero"
exit_code_raw(c) == IF c \in {"zero", "own"} THEN c ELSE "minus one"

\* status.code().unwrap_or(1): a process that died by a signal has no code.
exit_code(c) == IF c \in {"zero", "own"} THEN c ELSE "one"

\* try_wait: ended, already reaped by PID 1 (code 0), past the timeout, or running.
TryWait ==
    /\ vm # "halted" /\ srv.pc = "wait"
    /\ \/ /\ child.st = "zombie"
          /\ child' = [child EXCEPT !.st = "reaped"]
          /\ srv' = [srv EXCEPT !.pc = "join", !.code = exit_code(child.code)]
          /\ UNCHANGED <<kin, count>>
       \/ /\ child.st = "reaped"
          /\ srv' = [srv EXCEPT !.pc = "join", !.code = "zero"]
          /\ UNCHANGED <<child, kin, count>>
       \/ child.st = "run" /\ Fault /\ KillAndStop("join")
       \/ /\ child.st = "run"
          /\ srv' = [srv EXCEPT !.pc = "in1"]
          /\ UNCHANGED <<child, kin, count>>
    /\ UNCHANGED <<kind, made, took, reader, chan, input, vm, host, ctl, wire, mark>>

\* Mutant of joined: the readers are not waited for.
joined_not == TRUE

\* The reader threads are joined.
joined == \A s \in Streams : reader[s] = "end"

\* execute_command_streaming: join the readers, send what is queued, then the exit.
Finish ==
    /\ vm # "halted" /\ srv.pc = "join" /\ joined
    /\ wire' = wire \o Frames(chan) \o <<[t |-> "exit", code |-> srv.code]>>
    /\ chan' = <<>>
    /\ srv' = [srv EXCEPT !.pc = "closed"]
    /\ UNCHANGED <<kind, child, kin, made, took, reader, input, vm, host, ctl, mark, count>>

-----------------------------------------------------------------------------
(* pty_server: relay_pty_data                                              *)

PtyPoll ==
    /\ vm # "halted" /\ srv.pc = "poll"
    /\ srv' = [srv EXCEPT !.pc = "relay", !.pollin = took["stdout"] < made["stdout"],
                          !.hup = ~Held, !.stop = ctl # <<>>]
    /\ UNCHANGED <<kind, child, kin, made, took, reader, chan, input, vm, host, ctl, wire,
                   mark, count>>

\* The chunks of the terminal after the first n, up to m, as frames.
PtyFrames(n, m) == [i \in 1 .. m - n |-> [t |-> "chunk", of |-> <<"stdout", n + i>>]]

\* How far a pass reads: all there is on a hangup, one chunk if the poll saw output.
pty_read(n) == IF srv.hup THEN made["stdout"] ELSE IF srv.pollin THEN n + 1 ELSE n

\* What POLLIN, POLLHUP and a frame from the host make of one pass: one read, all
\* there is and the end, the end.
PtyRelay ==
    /\ vm # "halted" /\ srv.pc = "relay"
    /\ LET n == took["stdout"] IN
       /\ wire' = wire \o PtyFrames(n, pty_read(n))
       /\ took' = [took EXCEPT !["stdout"] = pty_read(n)]
    /\ srv' = [srv EXCEPT !.pc = IF srv.hup \/ srv.stop THEN "reap" ELSE "check"]
    /\ ctl' = IF srv.stop /\ ~srv.hup THEN Tail(ctl) ELSE ctl
    /\ UNCHANGED <<kind, child, kin, made, reader, chan, input, vm, host, mark, count>>

\* write_data fails in the middle of a pass, for the stream is non-blocking and may be
\* full: the chunk is lost and the loop is over, and the part of a frame that went out
\* may have made the exit frame unreadable.  Nothing is read from the terminal any
\* more, so the lost chunk is left in it.
PtyBreak ==
    /\ vm # "halted" /\ srv.pc = "relay" /\ Fault
    /\ \E k \in took["stdout"] .. pty_read(took["stdout"]) - 1 :
         /\ wire' = wire \o PtyFrames(took["stdout"], k)
         /\ took' = [took EXCEPT !["stdout"] = k]
    /\ \E pc \in {"reap", "broken"} : srv' = [srv EXCEPT !.pc = pc]
    /\ UNCHANGED <<kind, child, kin, made, reader, chan, input, vm, host, ctl, mark>>

\* The exit of the child is noticed after the poll, and ends the loop when that poll
\* saw no output.
PtyCheck ==
    /\ vm # "halted" /\ srv.pc = "check"
    /\ LET ended == child.st = "zombie" /\ ~srv.exited IN
       /\ child' = IF ended THEN [child EXCEPT !.st = "reaped"] ELSE child
       /\ srv' = [srv EXCEPT !.exited = @ \/ ended,
                             !.code = IF ended THEN child.code ELSE @,
                             !.pc = IF (srv.exited \/ ended) /\ ~srv.pollin
                                    THEN "reap" ELSE "poll",
                             !.pollin = FALSE]
    /\ UNCHANGED <<kind, kin, made, took, reader, chan, input, vm, host, ctl, wire, mark, count>>

\* terminate_pty_child if it has not ended, then the exit frame.
PtyReap ==
    /\ vm # "halted" /\ srv.pc \in {"reap", "broken"}
    /\ LET code == CASE srv.exited -> srv.code
                     [] ~srv.exited /\ child.st = "reaped" -> "one"
                     [] OTHER -> Killed.code
       IN  wire' = IF srv.pc = "broken" THEN wire ELSE wire \o <<[t |-> "exit", code |-> code]>>
    /\ IF srv.exited THEN UNCHANGED <<child, kin>> ELSE child' = Killed /\ kin' = KinKilled
    /\ srv' = [srv EXCEPT !.pc = "closed"]
    /\ UNCHANGED <<kind, made, took, reader, chan, input, vm, host, ctl, mark, count>>

-----------------------------------------------------------------------------
(* PID 1 and the VM                                                        *)

\* graceful_shutdown begins: SIGTERM to everyone.
Shutdown ==
    /\ vm = "up" /\ sup.pc # "end" /\ Fault /\ vm' = "down"
    /\ UNCHANGED <<kind, child, kin, made, took, reader, chan, input, srv, host, ctl, wire, mark>>

\* waitpid(-1) of graceful_shutdown.
InitReap ==
    /\ vm = "down" /\ child.st = "zombie"
    /\ child' = [child EXCEPT !.st = "reaped"]
    /\ UNCHANGED <<kind, kin, made, took, reader, chan, input, srv, vm, host, ctl, wire,
                   mark, count>>

\* The end of the VM, after a shutdown or of itself.
Halt ==
    /\ sup.pc # "end"
    /\ \/ vm = "down" /\ UNCHANGED count
       \/ vm = "up" /\ Fault
    /\ vm' = "halted"
    /\ UNCHANGED <<kind, child, kin, made, took, reader, chan, input, srv, host, ctl, wire, mark>>

-----------------------------------------------------------------------------
(* supervisor: spawn_container_exit_supervisor                             *)

\* The stream has ended: nothing more will come.
Eof == wire = <<>> /\ (vm = "halted" \/ srv.pc = "closed")

\* CriLogWriter::write_chunk, to the file the supervisor has open.
write_chunk(c) == log' = [log EXCEPT ![sup.fd] = Append(@, c)]

\* log_reopen.notified(): send the flush and wait for its acknowledgement; a terminal
\* has none, and a flush to a connection the guest has closed may fail.
SupReopen ==
    /\ sup.pc = "select" /\ note.request
    /\ note' = [note EXCEPT !.request = FALSE]
    /\ \/ /\ kind = "exec" /\ vm # "halted"
          /\ ctl' = Append(ctl, "flush") /\ sup' = [sup EXCEPT !.pc = "drain"]
       \/ /\ kind = "pty" \/ vm = "halted" \/ srv.pc = "closed"
          /\ UNCHANGED ctl /\ sup' = [sup EXCEPT !.pc = "reopen"]
    /\ UNCHANGED <<guest, log, path, rpc, wire, mark, count>>

\* stop_rx: cancel the workload.
SupStop ==
    /\ sup.pc = "select" /\ sup.stop = "asked"
    /\ sup' = [sup EXCEPT !.stop = "sent"]
    /\ ctl' = Append(ctl, "cancel")
    /\ UNCHANGED <<guest, log, path, note, rpc, wire, mark, count>>

\* The next event, in the main loop or while waiting for the acknowledgement: a chunk
\* goes to the log, an exit gives the code, the end of the stream leaves none.
SupEvent ==
    /\ sup.pc \in {"select", "drain"}
    /\ LET over == IF sup.pc = "drain" THEN "reopen" ELSE "end" IN
       \/ /\ wire # <<>> /\ Head(wire).t = "chunk"
          /\ write_chunk(Head(wire).of) /\ wire' = Tail(wire)
          /\ UNCHANGED sup
       \/ /\ wire # <<>> /\ Head(wire).t = "ack"
          /\ sup' = [sup EXCEPT !.pc = IF sup.pc = "drain" THEN "reopen" ELSE "select"]
          /\ wire' = Tail(wire) /\ UNCHANGED log
       \/ /\ wire # <<>> /\ Head(wire).t = "exit"
          /\ sup' = [sup EXCEPT !.pc = over, !.code = Head(wire).code, !.exit = TRUE]
          /\ wire' = Tail(wire) /\ UNCHANGED log
       \/ /\ Eof
          /\ sup' = [sup EXCEPT !.pc = over, !.code = "lost", !.exit = TRUE]
          /\ UNCHANGED <<wire, log>>
    /\ UNCHANGED <<guest, path, note, rpc, ctl, mark, count>>

\* CriLogWriter::reopen, which creates the file if there is none, and the
\* notification.
Reopen ==
    /\ sup.pc = "reopen"
    /\ log' = IF path = 0 THEN Append(log, <<>>) ELSE log
    /\ path' = Len(log')
    /\ sup' = [sup EXCEPT !.fd = Len(log'), !.pc = IF sup.exit THEN "end" ELSE "select"]
    /\ note' = [note EXCEPT !.done = TRUE]
    /\ UNCHANGED <<guest, rpc, ctl, wire, mark, count>>

-----------------------------------------------------------------------------
(* The kubelet's calls                                                     *)

\* StopContainer: stop_container_workload asks the supervisor.
StopContainer ==
    /\ sup.pc # "end" /\ sup.stop = "no"
    /\ sup' = [sup EXCEPT !.stop = "asked"]
    /\ UNCHANGED <<guest, log, path, note, rpc, ctl, wire, mark, count>>

\* The kubelet renames the log and calls ReopenContainerLog.
Rotate ==
    /\ rpc \in {"idle", "done", "late"} /\ path # 0 /\ sup.pc # "end"
    /\ count.rotations < MaxRotations
    /\ path' = 0 /\ rpc' = "call"
    /\ count' = [count EXCEPT !.rotations = @ + 1]
    /\ UNCHANGED <<guest, sup, log, note, ctl, wire, mark>>

\* Mutant of reopen_signal: the handler does not wait for the supervisor.
reopen_signal_only == rpc' = "done"

\* The handler waits for the supervisor's answer.
reopen_signal == rpc' = "wait"

\* The supervisor is notified, if it still runs.
ReopenCall ==
    /\ rpc = "call"
    /\ IF sup.pc = "end" THEN rpc' = "idle" /\ UNCHANGED note
       ELSE reopen_signal /\ note' = [note EXCEPT !.request = TRUE]
    /\ UNCHANGED <<guest, sup, log, path, ctl, wire, mark, count>>

\* The supervisor has answered, or 5 seconds have passed.
ReopenReturn ==
    /\ rpc = "wait"
    /\ \/ /\ note.done
          /\ rpc' = "done" /\ note' = [note EXCEPT !.done = FALSE]
          /\ UNCHANGED count
       \/ /\ rpc' = "late" /\ UNCHANGED note
          /\ count' = [count EXCEPT !.late = @ + 1]
    /\ UNCHANGED <<guest, sup, log, path, ctl, wire, mark>>

-----------------------------------------------------------------------------
ExecThread == Input \/ FlushAck \/ Recv \/ TryWait \/ Finish
PtyThread  == PtyPoll \/ PtyRelay \/ PtyBreak \/ PtyCheck \/ PtyReap
Supervisor == SupReopen \/ SupStop \/ SupEvent \/ Reopen

Next ==
    \/ \E s \in Streams : Write(s) \/ Read(s) \/ Send(s)
    \/ Fork \/ KinExit \/ ChildExit
    \/ InputMonitor \/ ExecThread \/ PtyThread
    \/ Shutdown \/ InitReap \/ Halt
    \/ Supervisor
    \/ StopContainer \/ Rotate \/ ReopenCall \/ ReopenReturn

Spec == Init /\ [][Next]_vars

(***************************************************************************)
(* Fairness: every thread and task that can step does; tokio's select!     *)
(* polls its branches in random order, so one that stays ready is taken in *)
(* the end.  Nothing is assumed of the workload, its descendants, the      *)
(* kubelet or the faults.                                                  *)
(***************************************************************************)
Fairness ==
    /\ \A s \in Streams : WF_vars(Read(s) \/ Send(s))
    /\ WF_vars(InputMonitor) /\ WF_vars(ExecThread \/ PtyThread)
    /\ WF_vars(SupEvent \/ Reopen) /\ SF_vars(SupStop)

FairSpec == Spec /\ Fairness

-----------------------------------------------------------------------------
(* Properties                                                              *)

Chunks == Streams \X (1 .. MaxOut)
Codes  == {"none", "zero", "own", "one", "kill", "signal"}
Frame  == [t : {"chunk"}, of : Chunks] \cup [t : {"ack"}] \cup [t : {"exit"}, code : Codes]

Children    == [st : {"run", "zombie", "reaped"}, code : {"none", "zero", "own", "kill", "signal"}]
Servers     == [pc : {"in1", "in2", "ack1", "ack2", "recv", "wait", "join", "poll", "relay",
                      "check", "reap", "broken", "closed"},
                code : Codes, pollin : BOOLEAN, hup : BOOLEAN, stop : BOOLEAN, exited : BOOLEAN]
Supervisors == [pc : {"select", "drain", "reopen", "end"}, fd : Nat,
                code : Codes \cup {"lost"}, stop : {"no", "asked", "sent"}, exit : BOOLEAN]
Notes       == [request : BOOLEAN, done : BOOLEAN]
Counts      == [rotations : 0 .. MaxRotations, faults : 0 .. MaxFaults, late : Nat]

TypeOK ==
    /\ kind \in Kinds /\ child \in Children /\ kin \in {"none", "group", "own"}
    /\ made \in [Streams -> 0 .. MaxOut] /\ took \in [Streams -> 0 .. MaxOut]
    /\ reader \in [Streams -> {"read", "send", "end"}]
    /\ chan \in Seq(Chunks) /\ wire \in Seq(Frame)
    /\ input \in Seq({"flush", "cancel"}) /\ ctl \in Seq({"flush", "cancel"})
    /\ srv \in Servers /\ vm \in {"up", "down", "halted"}
    /\ sup \in Supervisors /\ log \in Seq(Seq(Chunks))
    /\ sup.fd \in 1 .. Len(log) /\ path \in 0 .. Len(log)
    /\ note \in Notes /\ rpc \in {"idle", "call", "wait", "done", "late"}
    /\ mark \in [Streams -> 0 .. MaxOut] /\ count \in Counts

\* The chunks of a stream that the log files hold.
InLog(s) == {n \in 1 .. MaxOut : \E f \in DOMAIN log : <<s, n>> \in Range(log[f])}

\* From file to file, in the order of their creation, and in each of them the chunks
\* of a stream come one after the other.
InOrder(s) ==
    \A f, g \in DOMAIN log : \A i \in DOMAIN log[f], j \in DOMAIN log[g] :
      /\ log[f][i][1] = s /\ log[g][j][1] = s
      /\ f < g \/ (f = g /\ i < j)
      => log[f][i][2] < log[g][j][2]

\* The log files hold a stream's chunks in order, none twice and none left out; and
\* when an exec workload's exit frame has been handled, all of them: no rotation, no
\* stop and no timeout loses output (execute_command_streaming, SupEvent).
LogComplete ==
    \A s \in Streams :
      /\ InOrder(s)
      /\ \E n \in 0 .. made[s] : InLog(s) = 1 .. n
      /\ kind = "exec" /\ sup.pc = "end" /\ sup.code # "lost" => InLog(s) = 1 .. made[s]

\* The boundary a log rotation relies on: what the guest had queued when it took the
\* flush is in the old file before the supervisor opens the new one.
FlushBoundary ==
    sup.pc = "reopen" /\ kind = "exec" /\ vm # "halted" =>
      \A s \in Streams : 1 .. mark[s] \subseteq InLog(s)

\* ReopenContainerLog answers in time only when the supervisor writes to the file now
\* at log_path, unless an earlier call timed out and left its notification behind.
ReopenedInPlace ==
    rpc = "done" /\ count.late = 0 => path # 0 /\ sup.fd = path

\* The code a workload's own end is recorded as: its exit status; a death by signal is
\* 128 plus the signal for a terminal and 1 for an exec workload.
Status(c) == IF kind = "exec" /\ c = "signal" THEN "one" ELSE c

\* The exit code recorded for a container whose VM is up is 137 for a kill only if it
\* was told to stop, timed out or lost its connection; any other code is that of the
\* workload's own end, which no stop, timeout or rotation that raced with it replaced
\* (wait_streaming_child, relay_pty_data, SupEvent).
ExitCodeReported ==
    sup.pc = "end" /\ vm = "up" /\ sup.code # "lost" =>
      IF sup.code = "kill" THEN sup.stop = "sent" \/ count.faults > 0
      ELSE child.st # "run" /\ sup.code = Status(child.code)

\* Output of an exited process that a descendant keeps open: the readers cannot be
\* joined and control frames are no longer looked at.
HeldOpen == child.st # "run" /\ kin # "none"

\* A workload asked to stop is over in the end, whatever the rotation and its output
\* do, unless a descendant holds its output open.
StopEnds == sup.stop = "asked" ~> (sup.pc = "end" \/ HeldOpen)

\* As documented in relay_pty_data: the loop that ends because the child has exited
\* has drained the output that remained.
PtyDrained ==
    kind = "pty" /\ srv.pc = "reap" /\ srv.exited /\ ~srv.stop /\ ~Held /\ vm = "up" =>
      took["stdout"] = made["stdout"]
=============================================================================
