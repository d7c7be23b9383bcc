------------------------- MODULE StateFileIO_proofs --------------------------
(***************************************************************************)
(* boxes.json is an atomic file until two writes of boxes.json.tmp         *)
(* overlap, and for good when every writer takes the lock.                 *)
(***************************************************************************)
EXTENDS StateFileIO, TLAPS

\* The inductive invariant.
Inv ==
    /\ TypeOK
    /\ LockExcludes
    /\ ~raced => NoTornRead
    /\ TmpOwned

\* The initial states, where nobody writes.
LEMMA InitInv == Init => Inv
    BY IOAssumption DEF Init, Inv, TypeOK, LockExcludes, NoTornRead, TmpOwned, Content, PC, Writing

\* The type invariant is inductive by itself.
LEMMA NextType == TypeOK /\ [Next]_vars => TypeOK'
<1> SUFFICES ASSUME TypeOK, [Next]_vars
             PROVE  TypeOK'
    OBVIOUS
<1> USE IOAssumption DEF TypeOK, Content, PC, Goto
<1>1. ASSUME NEW p \in Procs, NEW v \in Values, Begin(p, v)
      PROVE  TypeOK'
    BY <1>1 DEF Begin
<1>2. ASSUME NEW p \in Procs, Acquire(p)
      PROVE  TypeOK'
    BY <1>2 DEF Acquire
<1>3. ASSUME NEW p \in Procs, OpenTmp(p)
      PROVE  TypeOK'
    BY <1>3 DEF OpenTmp, Create
<1>4. ASSUME NEW p \in Procs, WriteData(p)
      PROVE  TypeOK'
    BY <1>4 DEF WriteData, WriteTo, Over
<1>5. ASSUME NEW p \in Procs, Rename(p)
      PROVE  TypeOK'
    BY <1>5 DEF Rename, Renamable
<1>6. ASSUME NEW p \in Procs, RenameFails(p) \/ Release(p)
      PROVE  TypeOK'
    BY <1>6 DEF RenameFails, Release, Unlock
<1>7. ASSUME NEW p \in Procs, Crash(p)
      PROVE  TypeOK'
    BY <1>7 DEF Crash, Unlock, WriteTo
<1>8. CASE UNCHANGED vars
    BY <1>8 DEF vars
<1> QED  BY <1>1, <1>2, <1>3, <1>4, <1>5, <1>6, <1>7, <1>8 DEF Next, Step

\* The flock excludes its takers after every step, a crash included.
LEMMA NextLock == TypeOK /\ LockExcludes /\ [Next]_vars => LockExcludes'
<1> SUFFICES ASSUME TypeOK, LockExcludes, [Next]_vars
             PROVE  LockExcludes'
    OBVIOUS
<1> USE IOAssumption DEF TypeOK, LockExcludes, PC, Goto
<1>1. ASSUME NEW p \in Procs, NEW v \in Values, Begin(p, v)
      PROVE  LockExcludes'
    BY <1>1 DEF Begin
<1>2. ASSUME NEW p \in Procs, Acquire(p)
      PROVE  LockExcludes'
    BY <1>2 DEF Acquire
<1>3. ASSUME NEW p \in Procs, OpenTmp(p) \/ WriteData(p) \/ Rename(p)
      PROVE  LockExcludes'
    BY <1>3 DEF OpenTmp, WriteData, Rename
<1>4. ASSUME NEW p \in Procs, RenameFails(p) \/ Release(p) \/ Crash(p)
      PROVE  LockExcludes'
    BY <1>4 DEF RenameFails, Release, Unlock, Crash
<1>5. CASE UNCHANGED vars
    BY <1>5 DEF vars
<1> QED  BY <1>1, <1>2, <1>3, <1>4, <1>5 DEF Next, Step

\* While no writes overlap, ownership of the temporary file and a whole
\* boxes.json survive every step.
LEMMA NextOwned ==
    ASSUME Inv, [Next]_vars
    PROVE  (~raced => NoTornRead)' /\ TmpOwned'
<1> SUFFICES ASSUME ~raced'
             PROVE  NoTornRead' /\ TmpOwned'
    BY DEF TmpOwned
<1>0. ~raced
    BY DEF Next, Step, Begin, Acquire, OpenTmp, WriteData, Rename, RenameFails, Release, Crash, vars
<1> USE <1>0, IOAssumption DEF Inv, TypeOK, Content, PC, NoTornRead, TmpOwned, Writing, Goto
<1>1. ASSUME NEW p \in Procs, NEW v \in Values, Begin(p, v)
      PROVE  NoTornRead' /\ TmpOwned'
    BY <1>1 DEF Begin
<1>2. ASSUME NEW p \in Procs, Acquire(p)
      PROVE  NoTornRead' /\ TmpOwned'
    BY <1>2 DEF Acquire
<1>3. ASSUME NEW p \in Procs, OpenTmp(p)
      PROVE  NoTornRead' /\ TmpOwned'
    BY <1>3 DEF OpenTmp, Create
<1>4. ASSUME NEW p \in Procs, WriteData(p)
      PROVE  NoTornRead' /\ TmpOwned'
    BY <1>4 DEF WriteData, WriteTo, Over
<1>5. ASSUME NEW p \in Procs, Rename(p)
      PROVE  NoTornRead' /\ TmpOwned'
    BY <1>5 DEF Rename, Renamable
<1>6. ASSUME NEW p \in Procs, RenameFails(p) \/ Release(p)
      PROVE  NoTornRead' /\ TmpOwned'
    BY <1>6 DEF RenameFails, Release, Unlock
<1>7. ASSUME NEW p \in Procs, Crash(p)
      PROVE  NoTornRead' /\ TmpOwned'
    BY <1>7 DEF Crash, Unlock, WriteTo
<1>8. CASE UNCHANGED vars
    BY <1>8 DEF vars
<1> QED  BY <1>1, <1>2, <1>3, <1>4, <1>5, <1>6, <1>7, <1>8 DEF Next, Step

\* Every step preserves the invariant.
LEMMA NextInv == Inv /\ [Next]_vars => Inv'
    BY NextType, NextLock, NextOwned DEF Inv

\* The invariant holds in every reachable state.
THEOREM Invariance == Spec => []Inv
    BY InitInv, NextInv, PTL DEF Spec

\* An overlap of two writes is the only way to a torn boxes.json.
THEOREM WholeUntilRaced == Spec => [](~raced => NoTornRead)
<1>1. Inv => (~raced => NoTornRead)
    BY DEF Inv
<1> QED  BY Invariance, <1>1, PTL

\* Every variable keeps its type.
THEOREM TypeCorrect == Spec => []TypeOK
<1>1. Inv => TypeOK
    BY DEF Inv
<1> QED  BY Invariance, <1>1, PTL

\* As long as no two writes have overlapped, a writer past its open is alone and what
\* it wrote stands in boxes.json.tmp until its rename, whoever crashes before it.
THEOREM Owned == Spec => []TmpOwned
<1>1. Inv => TmpOwned
    BY DEF Inv
<1> QED  BY Invariance, <1>1, PTL

\* A step that moves one process and reaches no return maps to a request, a
\* crash, or nothing; the rename maps to the write taking effect.
LEMMA StepRefines ==
    ASSUME Inv, [Next]_vars, ~raced'
    PROVE  [A!Next]_(A!vars)
<1> DEFINE ph == [p \in Procs |-> Phase(p)]
<1>0. ~raced
    BY DEF Next, Step, Begin, Acquire, OpenTmp, WriteData, Rename, RenameFails, Release, Crash, vars
<1>t. TypeOK /\ TypeOK'
    BY NextType DEF Inv
<1> USE <1>0, <1>t, IOAssumption DEF TypeOK, PC, Phase, Goto
<1>1. ASSUME NEW p \in Procs, NEW v \in Values, Begin(p, v)
      PROVE  A!Request(p, v)
  <2>1. pc[p] = "idle" /\ pc'[p] \in {"open", "lock"}
      BY <1>1 DEF Begin
  <2>2. ph' = [ph EXCEPT ![p] = "pending"]
      BY <1>1, <2>1 DEF Begin
  <2> QED  BY <1>1, <2>1, <2>2 DEF Begin, A!Request
<1>2. ASSUME NEW p \in Procs, Acquire(p) \/ OpenTmp(p)
      PROVE  UNCHANGED A!vars
  <2>1. ph' = ph
      BY <1>2 DEF Acquire, OpenTmp
  <2> QED  BY <1>2, <2>1 DEF Acquire, OpenTmp, Create, A!vars
<1>3. ASSUME NEW p \in Procs, WriteData(p)
      PROVE  UNCHANGED A!vars
  <2>1. ph' = ph
      BY <1>3 DEF WriteData
  <2>2. disk' = disk
      BY <1>3 DEF WriteData, WriteTo, Inv, TmpOwned
  <2> QED  BY <1>3, <2>1, <2>2 DEF WriteData, A!vars
<1>4. ASSUME NEW p \in Procs, Rename(p)
      PROVE  A!TakeEffect(p)
  <2>1. tmp = val[p]
      BY <1>4 DEF Rename, Inv, TmpOwned
  <2>2. ph' = [ph EXCEPT ![p] = "done"]
      BY <1>4 DEF Rename, Renamable
  <2> QED  BY <1>4, <2>1, <2>2 DEF Rename, A!TakeEffect
<1>5. ASSUME NEW p \in Procs, RenameFails(p)
      PROVE  A!Crash(p)
  <2>1. ph' = [ph EXCEPT ![p] = "idle"]
      BY <1>5 DEF RenameFails
  <2> QED  BY <1>5, <2>1 DEF RenameFails, A!Crash
<1>6. ASSUME NEW p \in Procs, Release(p)
      PROVE  A!Return(p)
  <2>1. ph' = [ph EXCEPT ![p] = "idle"]
      BY <1>6 DEF Release
  <2> QED  BY <1>6, <2>1 DEF Release, A!Return
<1>7. ASSUME NEW p \in Procs, Crash(p)
      PROVE  A!Crash(p)
  <2>1. ph' = [ph EXCEPT ![p] = "idle"]
      BY <1>7 DEF Crash
  <2>2. disk' = disk
      BY <1>7 DEF Crash, WriteTo, Inv, TmpOwned
  <2> QED  BY <1>7, <2>1, <2>2 DEF Crash, A!Crash
<1>8. CASE UNCHANGED vars
  <2>1. ph' = ph
      BY <1>8 DEF vars
  <2> QED  BY <1>8, <2>1 DEF vars, A!vars
<1> QED  BY <1>1, <1>2, <1>3, <1>4, <1>5, <1>6, <1>7, <1>8 DEF Next, Step, A!Next

\* Initial states map to initial states.
LEMMA InitRefines == Init => A!Init
    BY DEF Init, A!Init, Phase

\* Until two writes overlap, write_to_disk implements an atomically replaced
\* file, whichever writers hold the lock and whoever crashes.
THEOREM Atomic == Spec => AtomicUntilRaced
<1>1. Inv /\ [Next]_vars => [A!Next \/ raced']_(A!vars)
    BY StepRefines
<1> QED  BY Invariance, InitRefines, <1>1, PTL DEF Spec, AtomicUntilRaced

\* When every writer takes the lock no write overlaps another.
LEMMA NeverRaced ==
    ASSUME Unlocked = {}
    PROVE  Inv /\ ~raced /\ [Next]_vars => ~raced'
<1> SUFFICES ASSUME Inv, ~raced, [Next]_vars
             PROVE  ~raced'
    OBVIOUS
<1>1. ASSUME NEW p \in Procs, OpenTmp(p)
      PROVE  ~raced'
    BY <1>1, Unlocked = {} DEF OpenTmp, Inv, LockExcludes, Writing
<1>2. ASSUME NEW p \in Procs, \/ Acquire(p) \/ WriteData(p) \/ Rename(p) \/ RenameFails(p)
                             \/ Release(p) \/ Crash(p) \/ \E v \in Values : Begin(p, v)
      PROVE  ~raced'
    BY <1>2 DEF Acquire, WriteData, Rename, RenameFails, Release, Crash, Begin
<1> QED  BY <1>1, <1>2 DEF Next, Step, vars

\* `save` and `modify` alone, all under StateLock, implement the atomic file
\* for good: the write-back of a plain `load` is what breaks it.
THEOREM LockedIsAtomic ==
    ASSUME Unlocked = {}
    PROVE  Spec => A!Spec
<1>1. Init => ~raced
    BY DEF Init
<1>2. Inv /\ ~raced /\ [Next]_vars => ~raced'
    BY NeverRaced, Unlocked = {}
<1>3. Inv /\ ~raced' /\ [Next]_vars => [A!Next]_(A!vars)
    BY StepRefines
<1> QED  BY Invariance, InitRefines, <1>1, <1>2, <1>3, PTL DEF Spec, A!Spec
=============================================================================
