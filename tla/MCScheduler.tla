---------------------------- MODULE MCScheduler ----------------------------
(* Model-checking instance of Scheduler: with three struct addresses and   *)
(* three pids a queue of three, the removal of its middle and the reuse of *)
(* a freed address all occur.  Liveness is checked, so no symmetry is      *)
(* declared.                                                               *)
EXTENDS Scheduler
=============================================================================
