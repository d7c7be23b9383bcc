----------------------------- MODULE MCBoxState ------------------------------
(* Small instances of BoxState for TLC. *)
EXTENDS BoxState, TLC

CONSTANTS b1, b2

OnFailure == [b \in Boxes |-> "on-failure"]
UnlessStopped == [b \in Boxes |-> "unless-stopped"]
AtMostOne == [b \in Boxes |-> 1]

CliSymmetry == Permutations(Cli)
=============================================================================
