----------------------------- MODULE MCBoardMerge -----------------------------
(* BoardMerge on small instances. *)
EXTENDS BoardMerge

CONSTANTS t1, t2, f1, f2, w1, w2

\* The change-sets overlap, and the first has a file of its own.
MCEdits == [t \in Task |-> IF t = t1 THEN {f1, f2} ELSE {f1}]
MCCargo == [t \in Task |-> IF t = t1 THEN {"files"} ELSE {"files", "empty", "void"}]
================================================================================
