------------------------------ MODULE SettleOnce ------------------------------
(***************************************************************************)
(* What a task manager promises whoever waits for a task, whatever threads *)
(* report results to it: a task that is opened is settled at most once,    *)
(* the first reported outcome is the one that counts, and the completion   *)
(* callback hears that outcome at most once.  TaskManager is shown to      *)
(* implement this specification.                                           *)
(***************************************************************************)
EXTENDS Sequences

CONSTANTS Task,        \* the task ids
          Outcome,     \* the outcomes a task may be settled with
          Unsettled    \* stands for "no outcome yet"

VARIABLES live,        \* live[t]: the store has a row for t
          outcome,     \* outcome[t]: what t was settled with, or Unsettled
          heard        \* heard[t]: the outcomes the callback was given for t

vars == <<live, outcome, heard>>

Init ==
    /\ live = [t \in Task |-> FALSE]
    /\ outcome = [t \in Task |-> Unsettled]
    /\ heard = [t \in Task |-> <<>>]

Open(t) ==
    /\ ~live[t]
    /\ live' = [live EXCEPT ![t] = TRUE]
    /\ outcome' = [outcome EXCEPT ![t] = Unsettled]
    /\ heard' = [heard EXCEPT ![t] = <<>>]

Settle(t, v) ==
    /\ live[t]
    /\ outcome[t] = Unsettled
    /\ outcome' = [outcome EXCEPT ![t] = v]
    /\ UNCHANGED <<live, heard>>

\* The callback may still be running when the row is already deleted.
Announce(t) ==
    /\ outcome[t] # Unsettled
    /\ heard[t] = <<>>
    /\ heard' = [heard EXCEPT ![t] = <<outcome[t]>>]
    /\ UNCHANGED <<live, outcome>>

Forget(S) ==
    /\ live' = [t \in Task |-> live[t] /\ t \notin S]
    /\ UNCHANGED <<outcome, heard>>

Next ==
    \/ \E t \in Task :
          \/ Open(t)
          \/ \E v \in Outcome : Settle(t, v)
          \/ Announce(t)
    \/ \E S \in SUBSET Task : Forget(S)

Spec == Init /\ [][Next]_vars
===============================================================================
