---------------------------- MODULE MCLauncher ----------------------------
(* The process tree has a fixed shape; TLC needs no further definitions. *)
EXTENDS Launcher
=============================================================================
