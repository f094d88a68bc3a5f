--------------------------- MODULE MCJobLifecycle ---------------------------
(* Small instances of JobLifecycle.                                        *)
EXTENDS JobLifecycle, TLC

CONSTANTS j1, j2, s1, s2
ServerSymmetry == Permutations({s1, s2})
=============================================================================
