------------------------------ MODULE IssueLedger ------------------------------
(***************************************************************************)
(* What the board's store keeps of one issue: its status and the rows of   *)
(* issue_dispatch, and what must hold of them whoever writes to the store. *)
(* BoardDispatch and BoardReview have the writers.                         *)
(***************************************************************************)
EXTENDS Naturals, Sequences

VARIABLES
    status,    \* of the issue
    rows,      \* the states of its issue_dispatch rows, in the order of their claims
    shocks     \* operations by hand, notices of an oversized record, crashes, emergency stops
               \* and seals of the model's endpoint so far

RowState == {"dispatched", "running", "done", "failed", "cancelled"}

Active(r) == rows[r] \in {"dispatched", "running"}
HasActive == \E r \in DOMAIN rows : Active(r)

\* However dispatches, sweeps, rebalancing and reviews interleave, the issue has at most one
\* active row, the last one: try_claim_dispatch decides, whatever the gates before it saw.
OneActive == \A r \in DOMAIN rows : Active(r) => r = Len(rows)

\* A send that fails late, a delivery or a verdict never brings a closed issue back
\* (rollback_dispatch_failure, can_transition).  A cancelled issue leaves that status when somebody
\* reopens it, for backlog; an issue that is done only by a rollback, by hand or on the notice of an
\* oversized record, and then for in_review and without a dispatch.
ClosedStaysClosed ==
    [][ /\ status = "done" /\ status' # "done" =>
               status' = "in_review" /\ rows' = rows /\ shocks' # shocks
        /\ status = "cancelled" /\ status' # "cancelled" =>
               status' = "backlog" /\ shocks' # shocks ]_<<status, rows, shocks>>
================================================================================
