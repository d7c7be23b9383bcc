---------------------------- MODULE StateFileIO ------------------------------
(***************************************************************************)
(* StateFile::write_to_disk at the level of its system calls: std::fs::    *)
(* write (open with truncation, write, close) of the ONE temporary path    *)
(* boxes.json.tmp, then rename over boxes.json; with the flock of          *)
(* StateLock around it for `save` and `modify`, and without it for the     *)
(* write-back that reconcile() does inside a plain `load`.                 *)
(*                                                                         *)
(* File contents are whole values, or what an interrupted or overlapping   *)
(* write leaves.  An open descriptor follows its inode through a rename.   *)
(***************************************************************************)
CONSTANTS
    Procs,      \* the processes that write boxes.json
    Unlocked,   \* those whose write is the write-back of a plain `load`
    NoProc,     \* the lock is free
    Values,     \* serialised states
    Truncated,  \* the content of a file just truncated
    Garbled,    \* neither empty nor a serialised state
    NoFile      \* no file at the path

ASSUME IOAssumption ==
    /\ Unlocked \subseteq Procs
    /\ NoProc \notin Procs
    /\ Values \cap {Truncated, Garbled, NoFile} = {}
    /\ Truncated # NoFile
    /\ Garbled # NoFile

VARIABLES
    disk,   \* the content of boxes.json
    tmp,    \* the content of boxes.json.tmp
    lock,   \* the holder of the flock
    pc,     \* where each process is in save / write_to_disk
    val,    \* the serialised state it writes
    fd,     \* the path its open descriptor's inode now has
    raced   \* history: two writes of the temporary file have overlapped

vars == <<disk, tmp, lock, pc, val, fd, raced>>

PC == {"idle", "lock", "open", "write", "rename", "return"}

Content == Values \cup {Truncated, Garbled}

\* In particular boxes.json exists at every moment: a reader that finds none would
\* start from an empty list of boxes (StateFile::load).
TypeOK ==
    /\ disk \in Content
    /\ tmp \in Content \cup {NoFile}
    /\ lock \in Procs \cup {NoProc}
    /\ pc \in [Procs -> PC]
    /\ val \in [Procs -> Values]
    /\ fd \in [Procs -> {"none", "tmp", "disk", "unlinked"}]
    /\ raced \in BOOLEAN

Init ==
    /\ disk \in Values
    /\ tmp = NoFile
    /\ lock = NoProc
    /\ pc = [p \in Procs |-> "idle"]
    /\ val \in [Procs -> Values]
    /\ fd = [p \in Procs |-> "none"]
    /\ raced = FALSE

Goto(p, l) == pc' = [pc EXCEPT ![p] = l]

\* save, modify, or the write-back of reconcile(), with what it will write
Begin(p, v) ==
    /\ pc[p] = "idle"
    /\ val' = [val EXCEPT ![p] = v]
    /\ Goto(p, IF p \in Unlocked THEN "open" ELSE "lock")
    /\ UNCHANGED <<disk, tmp, lock, fd, raced>>

\* the guard of StateLock is dropped, if p has one
Unlock(p) == lock' = IF lock = p THEN NoProc ELSE lock

\* StateLock::acquire
Acquire(p) ==
    /\ pc[p] = "lock"
    /\ lock = NoProc
    /\ lock' = p
    /\ Goto(p, "open")
    /\ UNCHANGED <<disk, tmp, val, fd, raced>>

Writing(p) == pc[p] \in {"write", "rename"}

\* Mutants of Create: what stands in the file stays; boxes.json is opened itself;
\* boxes.json is removed to make room for the rename.
CreateKeeping(p) ==
    /\ tmp' = IF tmp = NoFile THEN Truncated ELSE tmp
    /\ fd' = [fd EXCEPT ![p] = "tmp"]
    /\ UNCHANGED disk

CreateInPlace(p) ==
    /\ disk' = Truncated
    /\ fd' = [fd EXCEPT ![p] = "disk"]
    /\ UNCHANGED tmp

CreateUnlinking(p) ==
    /\ tmp' = Truncated
    /\ disk' = NoFile
    /\ fd' = [x \in Procs |-> CASE x = p -> "tmp"
                                [] fd[x] = "disk" -> "unlinked"
                                [] OTHER -> fd[x]]

\* std::fs::write opens the temporary path: created, or truncated as it stands
Create(p) ==
    /\ tmp' = Truncated
    /\ fd' = [fd EXCEPT ![p] = "tmp"]
    /\ UNCHANGED disk

OpenTmp(p) ==
    /\ pc[p] = "open"
    /\ Create(p)
    /\ raced' = (raced \/ \E x \in Procs \ {p} : Writing(x))
    /\ Goto(p, "write")
    /\ UNCHANGED <<lock, val>>

\* Writing v from offset 0 over old content: the tail of a longer one stays.
Over(old, v) == IF old \in {Truncated, v} THEN {v} ELSE {v, Garbled}

\* write into the inode the descriptor refers to, wherever that is by now
WriteTo(p, Result(_)) ==
    \/ /\ fd[p] = "tmp"
       /\ tmp' \in Result(tmp)
       /\ UNCHANGED disk
    \/ /\ fd[p] = "disk"
       /\ disk' \in Result(disk)
       /\ UNCHANGED tmp
    \/ /\ fd[p] = "unlinked"
       /\ UNCHANGED <<disk, tmp>>

WriteData(p) ==
    LET Result(old) == Over(old, val[p])
    IN  /\ pc[p] = "write"
        /\ WriteTo(p, Result)
        /\ fd' = [fd EXCEPT ![p] = "none"]
        /\ Goto(p, "rename")
        /\ UNCHANGED <<lock, val, raced>>

\* rename(2) of a path that another writer has renamed away is an error
Renamable == tmp # NoFile

\* Descriptors open on the temporary file now are on boxes.json.
Rename(p) ==
    /\ pc[p] = "rename"
    /\ Renamable
    /\ disk' = tmp
    /\ tmp' = NoFile
    /\ fd' = [x \in Procs |-> CASE fd[x] = "tmp" -> "disk"
                                [] fd[x] = "disk" -> "unlinked"
                                [] OTHER -> fd[x]]
    /\ Goto(p, "return")
    /\ UNCHANGED <<lock, val, raced>>

\* Another writer renamed the file away: write_to_disk returns an error.
RenameFails(p) ==
    /\ pc[p] = "rename"
    /\ ~Renamable
    /\ Goto(p, "idle")
    /\ Unlock(p)
    /\ UNCHANGED <<disk, tmp, val, fd, raced>>

\* write_to_disk returns, and with it the lock guard, if any, is dropped
Release(p) ==
    /\ pc[p] = "return"
    /\ Unlock(p)
    /\ Goto(p, "idle")
    /\ UNCHANGED <<disk, tmp, val, fd, raced>>

\* The process is killed: the kernel closes its descriptors and so drops its
\* flock; a write under way may have reached the file in part.
Crash(p) ==
    LET Partial(old) == {old, Garbled}
    IN  /\ pc[p] # "idle"
        /\ WriteTo(p, Partial) \/ UNCHANGED <<disk, tmp>>
        /\ fd' = [fd EXCEPT ![p] = "none"]
        /\ Unlock(p)
        /\ Goto(p, "idle")
        /\ UNCHANGED <<val, raced>>

Step(p) ==
    \/ Acquire(p) \/ OpenTmp(p) \/ WriteData(p)
    \/ Rename(p) \/ RenameFails(p) \/ Release(p)

Next ==
    \E p \in Procs : Step(p) \/ Crash(p) \/ \E v \in Values : Begin(p, v)

Spec == Init /\ [][Next]_vars

-----------------------------------------------------------------------------
(* Properties.                                                             *)

\* StateFile::save is documented as atomic: whoever reads boxes.json, at any
\* moment, finds a serialised state.  (`load` takes anything else for an empty
\* list of boxes.)
NoTornRead == disk \in Values

\* The flock excludes the writers that take it, through every crash (StateLock).
LockExcludes ==
    \A p \in Procs \ Unlocked :
        pc[p] \in {"open", "write", "rename", "return"} <=> lock = p

\* As long as no two writes have overlapped, a writer past its open is the only
\* one, its descriptor is on the temporary file, and what it has written stands
\* there until its rename (write_to_disk).
TmpOwned ==
    ~raced => \A p \in Procs :
        /\ Writing(p) => \A x \in Procs : Writing(x) => x = p
        /\ pc[p] = "write" => fd[p] = "tmp" /\ tmp = Truncated
        /\ pc[p] = "rename" => tmp = val[p]
        /\ pc[p] # "write" => fd[p] = "none"

\* A write is pending from its call, done once the rename has happened.
Phase(p) ==
    CASE pc[p] = "idle" -> "idle"
      [] pc[p] = "return" -> "done"
      [] OTHER -> "pending"

A == INSTANCE AtomicFile WITH
        file <- disk, arg <- val, phase <- [p \in Procs |-> Phase(p)]

\* Until two writes overlap, boxes.json is an atomically replaced file: its
\* content changes only by the one effect of a pending write, which returns only
\* after it, through every interleaving and crash.  An overlap is the only way
\* to a torn file.
AtomicUntilRaced == A!Init /\ [][A!Next \/ raced']_(A!vars)
=============================================================================
