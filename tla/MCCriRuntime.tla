---------------------------- MODULE MCCriRuntime -----------------------------
(* Small instances of CriRuntime for TLC. *)
EXTENDS CriRuntime, TLC

CONSTANTS p1, p2, c1, c2

\* Both containers in the pod that runs from the start; or one each.
OnePod == [c \in Containers |-> p1]
OwnPod == [c \in Containers |-> IF c = c1 THEN p1 ELSE p2]

SlotSymmetry == Permutations(Reqs) \cup Permutations(Sups)
=============================================================================
