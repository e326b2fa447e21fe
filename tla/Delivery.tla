------------------------------- MODULE Delivery -------------------------------
(***************************************************************************)
(* What the transfer of execution records promises: the sender gives up    *)
(* its copy of a record only when the receiver holds all of it, and what   *)
(* the receiver holds it gives up only while the sender still keeps one to *)
(* put in its place.  Transfer is shown to implement this specification.   *)
(***************************************************************************)
EXTENDS Naturals

CONSTANT Content       \* the versions of the record, numbered from 1

VARIABLES outgoing,    \* the version the sender still keeps, or 0
          kept,        \* the versions the receiver holds completely
          void         \* two calls have met at the receiver: nothing is promised any more

vars == <<outgoing, kept, void>>

Init ==
    /\ outgoing = 0
    /\ kept = {}
    /\ void = FALSE

Post(v) ==
    /\ outgoing = 0
    /\ outgoing' = v
    /\ UNCHANGED <<kept, void>>

Arrive ==
    /\ outgoing # 0
    /\ kept' = kept \cup {outgoing}
    /\ UNCHANGED <<outgoing, void>>

Replace(S) ==
    /\ outgoing # 0
    /\ kept' = kept \ S
    /\ UNCHANGED <<outgoing, void>>

Clear ==
    /\ outgoing \in kept
    /\ outgoing' = 0
    /\ UNCHANGED <<kept, void>>

Meet == void'

Next ==
    \/ \E v \in Content : Post(v)
    \/ Arrive
    \/ \E S \in SUBSET Content : Replace(S)
    \/ Clear
    \/ Meet

Spec == Init /\ [][Next]_vars
===============================================================================
