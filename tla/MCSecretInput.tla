--------------------------- MODULE MCSecretInput ---------------------------
(* A small instance of the one-time handles for TLC. *)
EXTENDS SecretInput, TLC

CONSTANTS a, b, c, j1, j2

\* Two handles whose envelope fits, and one that is too large with any other.
PayloadSize == [h \in Handles |-> IF h = c THEN 5 ELSE 2]

\* The two small handles are interchangeable, and so are the jobs.
SecretSymmetry == Permutations({a, b}) \cup Permutations({j1, j2})
=============================================================================
