---------------------------- MODULE MCGoalBridge ----------------------------
(* Small instances of the Goal bridge for TLC. *)
EXTENDS GoalBridge, TLC

CONSTANTS j1, j2

\* Two jobs of the thread are interchangeable.
JobSymmetry == Permutations({j1, j2})
=============================================================================
