---------------------------- MODULE MCContinuation ----------------------------
(* Continuation on small instances. *)
EXTENDS Continuation

CONSTANTS t1, t2, h1, h2
===============================================================================
