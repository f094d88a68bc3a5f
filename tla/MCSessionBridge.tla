-------------------------- MODULE MCSessionBridge --------------------------
(* Small instances of session continuation for TLC. *)
EXTENDS SessionBridge, TLC

CONSTANTS j1, j2, p1, p2

\* Two jobs of the thread are interchangeable.
JobSymmetry == Permutations({j1, j2})
=============================================================================
