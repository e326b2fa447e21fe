------------------------------ MODULE MCTransfer ------------------------------
(* Transfer on small instances. *)
EXTENDS Transfer

CONSTANTS e1, e2
===============================================================================
