--------------------------- MODULE MCTaskScheduler ---------------------------
(***************************************************************************)
(* Instances of TaskScheduler for TLC: the shipped configuration with its  *)
(* one worker, and two pollers one of which is unreliable.                 *)
(***************************************************************************)
EXTENDS TaskScheduler

=============================================================================
