----------------------------- MODULE AtomicFile ------------------------------
(***************************************************************************)
(* What StateFile::save promises ("save state to disk atomically"): a file *)
(* whose whole content is replaced in one step, by the value of a pending  *)
(* request; a request takes effect at most once; a request returns only    *)
(* after it has taken effect; a crash may cut one off before or after.     *)
(***************************************************************************)
CONSTANTS Procs, Values

VARIABLES file,    \* the content a reader finds
          phase,   \* where each process's request is
          arg      \* the value it asks to write

vars == <<file, phase, arg>>

Init ==
    /\ file \in Values
    /\ phase = [p \in Procs |-> "idle"]
    /\ arg \in [Procs -> Values]

Request(p, v) ==
    /\ phase[p] = "idle"
    /\ phase' = [phase EXCEPT ![p] = "pending"]
    /\ arg' = [arg EXCEPT ![p] = v]
    /\ UNCHANGED file

TakeEffect(p) ==
    /\ phase[p] = "pending"
    /\ file' = arg[p]
    /\ phase' = [phase EXCEPT ![p] = "done"]
    /\ UNCHANGED arg

Return(p) ==
    /\ phase[p] = "done"
    /\ phase' = [phase EXCEPT ![p] = "idle"]
    /\ UNCHANGED <<file, arg>>

Crash(p) ==
    /\ phase' = [phase EXCEPT ![p] = "idle"]
    /\ UNCHANGED <<file, arg>>

Next ==
    \E p \in Procs :
        \/ \E v \in Values : Request(p, v)
        \/ TakeEffect(p) \/ Return(p) \/ Crash(p)

Spec == Init /\ [][Next]_vars
=============================================================================
