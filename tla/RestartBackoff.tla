--------------------------- MODULE RestartBackoff ----------------------------
(***************************************************************************)
(* The restart backoff that the monitor keeps for one box (BackoffEntry,   *)
(* BackoffTracker) and the path poll_once takes through it, interleaved    *)
(* with the box's life: it dies, its health fails, users stop and start it *)
(* at any moment, also while the monitor awaits a stop or a boot.          *)
(*                                                                         *)
(* Instants appear as ages (Instant::elapsed, duration_since), which stop  *)
(* growing at Cap: every comparison is with a threshold of at most Cap.    *)
(***************************************************************************)
EXTENDS Integers

CONSTANTS MIN_BACKOFF, MAX_BACKOFF, STABLE_THRESHOLD

ASSUME BackoffAssumption ==
    /\ MIN_BACKOFF \in Nat \ {0}
    /\ MAX_BACKOFF \in Nat
    /\ MIN_BACKOFF <= MAX_BACKOFF
    /\ STABLE_THRESHOLD \in Nat \ {0}

VARIABLES
    entry,       \* the tracker has an entry for the box
    delay,       \* BackoffEntry.delay
    attemptAge,  \* time since last_attempt
    seen,        \* last_seen_running is Some
    seenAge,     \* time since last_seen_running
    box,         \* "up", or down with the restart policy wanting it ("dead") or
                 \* not ("stopped": by the user, or restart count used up)
    sick,        \* the box is up and its health says unhealthy
    pc,          \* where poll_once is
    cand         \* what the loaded snapshot says: "none", "dead", "unhealthy"

vars == <<entry, delay, attemptAge, seen, seenAge, box, sick, pc, cand>>

tracker == <<entry, delay, attemptAge, seen, seenAge>>
life    == <<box, sick>>

Lesser(x, y) == IF x < y THEN x ELSE y

Cap == IF MAX_BACKOFF < STABLE_THRESHOLD THEN STABLE_THRESHOLD ELSE MAX_BACKOFF

TypeOK ==
    /\ entry \in BOOLEAN
    /\ delay \in MIN_BACKOFF..MAX_BACKOFF
    /\ attemptAge \in 0..Cap
    /\ seen \in BOOLEAN
    /\ seenAge \in 0..Cap
    /\ box \in {"up", "dead", "stopped"}
    /\ sick \in BOOLEAN
    /\ pc \in {"sleep", "check", "stop", "boot"}
    /\ cand \in {"none", "dead", "unhealthy"}

\* An absent entry reads as BackoffEntry::new(): ready at once.
Init ==
    /\ entry = FALSE
    /\ delay = MIN_BACKOFF
    /\ attemptAge = MAX_BACKOFF
    /\ seen = FALSE
    /\ seenAge = 0
    /\ box \in {"up", "dead", "stopped"}
    /\ sick = FALSE
    /\ pc = "sleep"
    /\ cand = "none"

-----------------------------------------------------------------------------
(* The tracker.                                                            *)

Older(age) == Lesser(age + 1, Cap)

\* last_attempt starts at Instant::now() - MAX_BACKOFF, when the entry is made
Tick ==
    /\ attemptAge' = IF entry THEN Older(attemptAge) ELSE attemptAge
    /\ seenAge' = IF seen THEN Older(seenAge) ELSE seenAge
    /\ UNCHANGED <<entry, delay, seen, box, sick, pc, cand>>

ready == ~entry \/ attemptAge >= delay

\* Mutant of record_attempt: no upper limit.
record_attempt_uncapped ==
    /\ entry' = TRUE
    /\ attemptAge' = 0
    /\ delay' = delay * 2

record_attempt ==
    /\ entry' = TRUE
    /\ attemptAge' = 0
    /\ delay' = Lesser(delay * 2, MAX_BACKOFF)

mark_running ==
    /\ entry' = TRUE
    /\ delay' = IF seen /\ seenAge >= STABLE_THRESHOLD THEN MIN_BACKOFF ELSE delay
    /\ seen' = TRUE
    /\ seenAge' = IF seen THEN seenAge ELSE 0
    /\ UNCHANGED attemptAge

\* Mutant of mark_dead: the earlier life goes on counting.
mark_dead_forgotten == UNCHANGED <<seen, seenAge>>

mark_dead ==
    /\ seen' = FALSE
    /\ seenAge' = 0

-----------------------------------------------------------------------------
(* poll_once, as far as this box is concerned.                             *)

Candidate ==
    CASE box = "dead" -> "dead"
      [] box = "up" /\ sick -> "unhealthy"
      [] OTHER -> "none"

\* load the state, note the active boxes, collect the candidates
Observe ==
    /\ pc = "sleep"
    /\ IF box = "up" THEN mark_running ELSE UNCHANGED tracker
    /\ cand' = Candidate
    /\ pc' = "check"
    /\ UNCHANGED life

\* Mutant of Skip: a poll that is too early counts as an attempt.
SkipCounts ==
    /\ pc = "check"
    /\ cand = "none" \/ ~ready
    /\ attemptAge' = 0
    /\ pc' = "sleep"
    /\ cand' = "none"
    /\ UNCHANGED <<entry, delay, seen, seenAge, life>>

\* not a candidate, or one whose delay has not passed: nothing more happens,
\* mark_dead included
Skip ==
    /\ pc = "check"
    /\ cand = "none" \/ ~ready
    /\ pc' = "sleep"
    /\ cand' = "none"
    /\ UNCHANGED <<tracker, life>>

RestartDead ==
    /\ pc = "check"
    /\ cand = "dead"
    /\ ready
    /\ mark_dead
    /\ pc' = "boot"
    /\ UNCHANGED <<entry, delay, attemptAge, life, cand>>

\* the unhealthy process is stopped first, and that is awaited
RestartUnhealthy ==
    /\ pc = "check"
    /\ cand = "unhealthy"
    /\ ready
    /\ pc' = "stop"
    /\ UNCHANGED <<tracker, life, cand>>

Stopped ==
    /\ pc = "stop"
    /\ mark_dead
    /\ box' \in IF box = "stopped" THEN {"dead", "stopped"} ELSE {"dead"}
    /\ sick' = FALSE
    /\ pc' = "boot"
    /\ UNCHANGED <<entry, delay, attemptAge, cand>>

\* boot_from_record ends, with the box up or not
Booted(ok) ==
    /\ pc = "boot"
    /\ record_attempt
    /\ box' = IF ok THEN "up" ELSE box
    /\ pc' = "sleep"
    /\ cand' = "none"
    /\ sick' = (sick /\ ~ok)
    /\ UNCHANGED <<seen, seenAge>>

Poll == Observe \/ Skip \/ RestartDead \/ RestartUnhealthy \/ Stopped
        \/ \E ok \in BOOLEAN : Booted(ok)

-----------------------------------------------------------------------------
(* The box's life.                                                         *)

\* It exits, or a user stops it; should_restart decides what it becomes.
Down(b) ==
    /\ box = "up"
    /\ box' = b
    /\ sick' = FALSE
    /\ UNCHANGED <<tracker, pc, cand>>

UserStart ==
    /\ box # "up"
    /\ box' = "up"
    /\ UNCHANGED <<tracker, sick, pc, cand>>

Sicken ==
    /\ box = "up"
    /\ sick' = ~sick
    /\ UNCHANGED <<tracker, box, pc, cand>>

Life == UserStart \/ Sicken \/ \E b \in {"dead", "stopped"} : Down(b)

Next == Tick \/ Poll \/ Life

Spec == Init /\ [][Next]_vars

\* Time passes, and the monitor's loop keeps polling: tokio's sleep ends, a stop
\* is bounded by its timeout, a boot ends one way or the other.
Fairness == WF_vars(Tick) /\ WF_vars(Poll)

FairSpec == Spec /\ Fairness

-----------------------------------------------------------------------------
(* Properties.                                                             *)

\* A crash loop cannot talk the monitor out of its backoff: whatever users do in
\* between, the delay only ever shrinks once STABLE_THRESHOLD has passed since
\* the last restart attempt (mark_running, mark_dead).
ResetKeepsDistance ==
    [][delay' < delay => attemptAge >= STABLE_THRESHOLD]_vars

\* A box that stays dead is attempted again: the backoff postpones a restart, it
\* never cancels one (ready, record_attempt).
Retried == box = "dead" ~> pc = "boot" \/ box # "dead"
=============================================================================
