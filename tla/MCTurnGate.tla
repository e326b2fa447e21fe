------------------------------ MODULE MCTurnGate ------------------------------
(* TurnGate on a small instance. *)
EXTENDS TurnGate

CONSTANTS s, b, k, c1, c2, t1, t2, none

\* In steer mode s and b interject; otherwise they are text like any other.
MCMarks == [m \in Message |-> CASE m = s -> 2 [] m = b -> 1 [] OTHER -> 0]
===============================================================================
