---------------------------- MODULE MCExecWorkspace ----------------------------
(* ExecWorkspace on small instances. *)
EXTENDS ExecWorkspace

CONSTANTS f1, d
===============================================================================
