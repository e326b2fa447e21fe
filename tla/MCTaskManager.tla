---------------------------- MODULE MCTaskManager ----------------------------
(* TaskManager on small instances. *)
EXTENDS TaskManager

CONSTANTS t1, c1, c2
==============================================================================
