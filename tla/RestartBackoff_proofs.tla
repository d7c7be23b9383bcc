------------------------ MODULE RestartBackoff_proofs ------------------------
(***************************************************************************)
(* The backoff stays within its bounds, and never resets within            *)
(* STABLE_THRESHOLD of a restart attempt, for every value of the three     *)
(* durations.                                                              *)
(***************************************************************************)
EXTENDS RestartBackoff, TLAPS

\* last_seen_running is never older than the last restart attempt: poll_once
\* calls mark_dead before it boots and cannot mark_running until it is done.
SeenSinceAttempt ==
    /\ seen => entry /\ seenAge <= attemptAge
    /\ pc = "boot" => ~seen

Inv == TypeOK /\ SeenSinceAttempt

\* Cap is at least both thresholds.
LEMMA CapFacts ==
    /\ Cap \in Nat
    /\ MAX_BACKOFF <= Cap
    /\ STABLE_THRESHOLD <= Cap
    BY BackoffAssumption DEF Cap

\* Aging keeps ages in range and in order.
LEMMA OlderFacts ==
    ASSUME NEW x \in 0..Cap, NEW y \in 0..Cap, x <= y
    PROVE  /\ Older(x) \in 0..Cap
           /\ Older(x) <= Older(y)
    BY CapFacts DEF Older, Lesser

\* The Boolean part of the type invariant, which needs no arithmetic.
Flags == entry \in BOOLEAN /\ seen \in BOOLEAN /\ sick \in BOOLEAN

\* A fresh monitor satisfies the invariant.
LEMMA InitInv == Init => Inv
<1> SUFFICES ASSUME Init
             PROVE  Inv
    OBVIOUS
<1>1. Flags
    BY DEF Init, Flags
<1> QED  BY <1>1, BackoffAssumption, CapFacts
         DEF Init, Inv, TypeOK, SeenSinceAttempt, Flags

\* Every step of the clock, of poll_once and of the box's life preserves it.
LEMMA NextInv == Inv /\ [Next]_vars => Inv'
<1> SUFFICES ASSUME Inv, [Next]_vars
             PROVE  Inv'
    OBVIOUS
<1> USE BackoffAssumption, CapFacts DEF Inv, TypeOK, SeenSinceAttempt
<1>1. CASE Tick
  <2>1. Older(attemptAge) \in 0..Cap /\ Older(seenAge) \in 0..Cap
      BY OlderFacts
  <2>2. seen => Older(seenAge) <= Older(attemptAge)
      BY OlderFacts
  <2> QED  BY <1>1, <2>1, <2>2 DEF Tick
<1>2. CASE Observe
  <2>1. Flags'
      BY <1>2 DEF Observe, mark_running, tracker, life, Flags
  <2> QED  BY <1>2, <2>1 DEF Observe, mark_running, tracker, life, Candidate, Flags
<1>3. CASE Skip
    BY <1>3 DEF Skip, tracker, life
<1>4. CASE RestartDead
  <2>1. Flags'
      BY <1>4 DEF RestartDead, mark_dead, life, Flags
  <2> QED  BY <1>4, <2>1 DEF RestartDead, mark_dead, life, Flags
<1>5. CASE RestartUnhealthy
    BY <1>5 DEF RestartUnhealthy, tracker, life
<1>6. CASE Stopped
  <2>1. Flags'
      BY <1>6 DEF Stopped, mark_dead, Flags
  <2> QED  BY <1>6, <2>1 DEF Stopped, mark_dead, Flags
<1>7. ASSUME NEW ok \in BOOLEAN, Booted(ok)
      PROVE  Inv'
  <2>1. Lesser(delay * 2, MAX_BACKOFF) \in MIN_BACKOFF..MAX_BACKOFF
      BY DEF Lesser
  <2>2. Flags'
      BY <1>7 DEF Booted, record_attempt, Flags
  <2> QED  BY <1>7, <2>1, <2>2 DEF Booted, record_attempt, Flags
<1>8. CASE Life
  <2>1. Flags'
      BY <1>8 DEF Life, UserStart, Sicken, Down, tracker, Flags
  <2> QED  BY <1>8, <2>1 DEF Life, UserStart, Sicken, Down, tracker, Flags
<1>9. CASE UNCHANGED vars
    BY <1>9 DEF vars
<1> QED  BY <1>1, <1>2, <1>3, <1>4, <1>5, <1>6, <1>7, <1>8, <1>9 DEF Next, Poll

\* The delay stays between MIN_BACKOFF and MAX_BACKOFF, and every age in range.
THEOREM TypeCorrect == Spec => []TypeOK
<1>1. Inv => TypeOK
    BY DEF Inv
<1> QED  BY InitInv, NextInv, <1>1, PTL DEF Spec

\* The only step that shrinks the delay is mark_running on a long-seen box.
LEMMA StepKeepsDistance ==
    ASSUME Inv, [Next]_vars, delay' < delay
    PROVE  attemptAge >= STABLE_THRESHOLD
<1> USE BackoffAssumption, CapFacts DEF Inv, TypeOK, SeenSinceAttempt
<1>1. CASE Observe
    BY <1>1 DEF Observe, mark_running, tracker
<1>2. ASSUME NEW ok \in BOOLEAN, Booted(ok)
      PROVE  FALSE
    BY <1>2 DEF Booted, record_attempt, Lesser
<1>3. CASE Tick \/ Skip \/ RestartDead \/ RestartUnhealthy \/ Stopped \/ Life \/ UNCHANGED vars
    BY <1>3 DEF Tick, Skip, RestartDead, RestartUnhealthy, Stopped, Life, UserStart, Sicken,
                Down, tracker, vars
<1> QED  BY <1>1, <1>2, <1>3 DEF Next, Poll

\* No reset of the delay within STABLE_THRESHOLD of a restart attempt, whatever
\* users and the box do meanwhile (BackoffEntry::mark_running).
THEOREM ResetDistance == Spec => ResetKeepsDistance
<1>1. Inv /\ [Next]_vars => [delay' < delay => attemptAge >= STABLE_THRESHOLD]_vars
    BY StepKeepsDistance
<1> QED  BY InitInv, NextInv, <1>1, PTL DEF Spec, ResetKeepsDistance
=============================================================================
