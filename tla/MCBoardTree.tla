----------------------------- MODULE MCBoardTree -----------------------------
(* BoardTree on a parent with two children, the second of which depends on the first. *)
EXTENDS BoardTree, TLC

CONSTANTS d1, d2, top, first, second, extra, none

ParentOf == (top :> none @@ first :> top @@ second :> top @@ extra :> top)
DepsOf == [i \in Issue |-> IF i = second THEN {first} ELSE {}]
=============================================================================
