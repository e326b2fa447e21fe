----------------------------- MODULE BoardDispatch -----------------------------
(***************************************************************************)
(* The dispatch ledger of the board: how an issue is handed to a worker    *)
(* and how its status follows (nemesis-board/src/store.rs, the dispatch    *)
(* part of nemesis-web/src/handlers/board.rs, board_dispatch.rs and        *)
(* autopilot.rs of the gateway).  Every call of the store is one           *)
(* transaction under its lock; between two calls of a handler anything can *)
(* happen.                                                                 *)
(*                                                                         *)
(* One issue without parent or dependency is modelled (the tree is in      *)
(* BoardTree); the load that other issues put on a worker is an input, and *)
(* so is whether a worker matches.  Assignees and texts are left out, and  *)
(* so is the comment that a cancellation did not reach the worker.  A send *)
(* ends within 30 s, long before a dispatch times out.  A delivery goes to *)
(* review at once, as without a project repository; deliveries that are    *)
(* merged first are in BoardMerge.                                         *)
(***************************************************************************)
EXTENDS Naturals, Sequences, FiniteSets, IssueStatus, IssueLedger

CONSTANTS Thread,          \* threads that run a handler
          MaxRows,         \* bound on the dispatches of the issue
          MaxSendRetries,  \* board.budget.max_send_retries, not 0
          MaxShocks        \* bound on what happens from outside: operations by hand, notices
                           \* of an oversized record, crashes of the gateway, emergency stops,
                           \* seals of the model's endpoint

ASSUME RetryAssumption == MaxSendRetries \in Nat \ {0}
ASSUME DispatchBoundAssumption == {MaxRows, MaxShocks} \subseteq Nat

VARIABLES
    mark,      \* the last system comment is a send-failure mark that is not older than the
               \* end of the last row
    attempts,  \* the send-failure marks on the issue
    parkable,  \* its origin_type is "planner", or some system comment says that its automatic
               \* dispatch is deferred
    concluded, \* an auto_decide entry follows the last entry into in_review
    estop,     \* the emergency stop is engaged
    sealed,    \* the model's endpoint is unavailable: frozen_now.  BoardReview says how it changes.
    thr,       \* thr[d]: the handler that thread d runs
    call,      \* call[r]: the task that sends row r to its worker
    job,       \* the active row has reached its worker
    settle,    \* settle[r]: the thread that ended row r has not looked at the status yet
    due,       \* reviews spawned and not begun
    \* History
    stranded,  \* the issue was left in progress with no active row and nobody to move it, or
               \* a delivery was taken for a send failure, or a row was claimed for an issue that
               \* had moved on
    told       \* since the issue was last sent to review somebody was asked to look at it, or
               \* somebody moved it there by hand

store == <<status, parkable, rows, mark, attempts, concluded, estop>>
tasks == <<thr, call, job, settle, due>>
bounds == <<shocks, stranded, told>>
dispatchVars == <<store, tasks, bounds>>

-------------------------------------------------------------------------------
Row == 1..MaxRows

Idle == [pc |-> "idle", kind |-> "none", prev |-> "none", row |-> 0]
NoCall == [at |-> "none", prev |-> "none"]

At(d, pc) == thr[d].pc = pc
Goto(d, pc) == thr' = [thr EXCEPT ![d].pc = pc]
Begin(d, pc, kind, row) == thr' = [thr EXCEPT ![d] = [Idle EXCEPT !.pc = pc, !.kind = kind, !.row = row]]
Free(d) == thr' = [thr EXCEPT ![d] = Idle]
Sending(r, at) == call[r].at = at
CallTo(r, at) == call' = [call EXCEPT ![r].at = at]

\* Row r is claimed and its sender is not through.
Unsent(r) == ~Sending(r, "none") \/ \E d \in Thread : At(d, "advance") /\ thr[d].row = r

\* Rows that running handlers may still claim: the bound MaxRows covers them.
Claiming == {d \in Thread : thr[d].pc \in {"gate", "claim", "steal"}}
RowLeft == Len(rows) + Cardinality(Claiming) < MaxRows

DispatchInit ==
    /\ status = "backlog" /\ parkable \in BOOLEAN /\ rows = <<>>
    /\ mark = FALSE /\ attempts = 0
    /\ thr = [d \in Thread |-> Idle]
    /\ call = [r \in Row |-> NoCall]
    /\ job = FALSE
    /\ settle = [r \in Row |-> FALSE]
    /\ concluded = FALSE /\ estop = FALSE /\ due = 0
    /\ shocks = 0 /\ stranded = FALSE /\ told = FALSE

-------------------------------------------------------------------------------
(* The ledger: calls of the store *)

\* A system comment other than a send-failure mark
Comment == mark' = FALSE

\* finish_dispatch, cancel_dispatch and fail_dispatch: only an active row is ended; it is the
\* last one, and its end makes the marks before it stale.  What its worker does from now on has
\* no effect on the board.
End(r, state) ==
    /\ rows' = IF Active(r) THEN [rows EXCEPT ![r] = state] ELSE rows
    /\ mark' = (mark /\ ~Active(r))
    /\ job' = (job /\ ~Active(r))

\* A plausible bug: the earlier status is restored whatever happened since.
RollbackUnchecked(prev) == status' = prev

\* rollback_dispatch_failure
Rollback(prev) ==
    status' = IF status = "in_progress" /\ prev # "in_progress" /\ ~HasActive THEN prev ELSE status

\* list_dispatch_park_candidates
ParkCandidate == status \in {"backlog", "todo"} /\ parkable

\* list_send_failure_candidates
InSendPool ==
    status \in {"backlog", "todo", "in_review"} /\ mark /\ rows # <<>> /\ rows[Len(rows)] = "failed"

\* replay_stuck_reviews: the issue is in review, some row has ended by itself, and nothing was
\* decided since it entered.
Replayed ==
    status = "in_review" /\ ~concluded /\ \E r \in DOMAIN rows : rows[r] \in {"done", "failed"}

-------------------------------------------------------------------------------
(* dispatch_issue_core *)

\* The handler is back from dispatch_issue_core with an error; a rebalance and a review act on it.
Failed(d) ==
    thr' = [thr EXCEPT ![d] = IF thr[d].kind \in {"manual", "sweep"} THEN Idle
                              ELSE [Idle EXCEPT !.pc = "err", !.kind = thr[d].kind]]

\* ... or with success: a review records it, a rebalance has commented on it.
Succeeded(d) ==
    thr' = [thr EXCEPT ![d] = IF thr[d].kind # "review" THEN Idle
                              ELSE [Idle EXCEPT !.pc = "ok", !.kind = "review"]]

\* issue.dispatch: somebody dispatches the issue.
Dispatch(d) ==
    /\ At(d, "idle") /\ RowLeft /\ shocks < MaxShocks
    /\ shocks' = shocks + 1
    /\ Begin(d, "gate", "manual", 0)
    /\ UNCHANGED <<store, call, job, settle, due, stranded, told>>

\* The gates on status and active rows.  The status that is read here is the one that the
\* rest of the handler believes in.
Gate(d) ==
    /\ At(d, "gate")
    /\ IF ~estop /\ status \in {"backlog", "todo", "in_progress", "in_review"} /\ ~HasActive
       THEN thr' = [thr EXCEPT ![d].pc = "claim", ![d].prev = status]
       ELSE Failed(d)
    /\ UNCHANGED <<store, call, job, settle, due, bounds>>

\* The cluster refuses (no client, unknown node, anchors): nothing is written; or
\* push_dispatch_baseline fails: a comment is.
Refuse(d) ==
    /\ At(d, "claim")
    /\ Failed(d)
    /\ \/ Comment /\ told' = TRUE
       \/ UNCHANGED <<mark, told>>
    /\ UNCHANGED <<status, parkable, rows, attempts, concluded, estop, call, job, settle, due, shocks,
                   stranded>>

\* A plausible bug: the claim trusts the gate.
ClaimUnchecked(d) ==
    /\ At(d, "claim")
    /\ rows' = Append(rows, "dispatched")
    /\ thr' = [thr EXCEPT ![d].pc = "advance", ![d].row = Len(rows) + 1]
    /\ UNCHANGED <<status, parkable, mark, attempts, concluded, estop, call, job, settle, due, bounds>>

\* try_claim_dispatch
Claim(d) ==
    /\ At(d, "claim")
    /\ IF HasActive
       THEN Failed(d) /\ UNCHANGED rows
       ELSE /\ rows' = Append(rows, "dispatched")
            /\ thr' = [thr EXCEPT ![d].pc = "advance", ![d].row = Len(rows) + 1]
    /\ UNCHANGED <<status, parkable, mark, attempts, concluded, estop, call, job, settle, due, bounds>>

\* The issue goes to in_progress, unless the handler believes that it is there, and the send
\* is spawned; if it cannot go there, the claim is given back.
Advance(d) ==
    LET r == thr[d].row
        prev == thr[d].prev
    IN
    /\ At(d, "advance")
    /\ IF prev = "in_progress" \/ CanTransition(status, "in_progress")
       THEN /\ status' = IF prev = "in_progress" THEN status ELSE "in_progress"
            /\ call' = [call EXCEPT ![r] = [at |-> "sending", prev |-> prev]]
            /\ Succeeded(d)
            /\ mark' = (mark /\ thr[d].kind # "rebalance")
            /\ stranded' = (stranded \/ status' # "in_progress")
            /\ UNCHANGED <<rows, job>>
       ELSE /\ End(r, "failed") /\ Failed(d)
            /\ stranded' = (stranded \/ status = "in_progress")
            /\ UNCHANGED <<status, call>>
    /\ UNCHANGED <<parkable, attempts, concluded, estop, settle, due, shocks, told>>

-------------------------------------------------------------------------------
(* The task that sends the row, and the worker *)

\* The request reaches the worker, which accepts it.
Deliver(r) ==
    /\ Sending(r, "sending") /\ Active(r) /\ ~job
    /\ job' = TRUE
    /\ UNCHANGED <<store, thr, call, settle, due, bounds>>

\* The acknowledgement arrives.
Acked(r) ==
    /\ Sending(r, "sending") /\ (Active(r) => job)
    /\ call' = [call EXCEPT ![r] = NoCall]
    /\ UNCHANGED <<store, thr, job, settle, due, bounds>>

\* The worker refuses, the connection fails, or no acknowledgement came in time: finish_dispatch,
\* and whether it won is not looked at.
SendFails(r) ==
    /\ Sending(r, "sending")
    /\ End(r, "failed")
    /\ CallTo(r, "rollback")
    /\ UNCHANGED <<status, parkable, attempts, concluded, estop, thr, settle, due, bounds>>

\* A dispatch that found the issue in progress leaves it there; one whose worker has answered
\* all the same takes the issue back before it is moved to review.
SendRollback(r) ==
    /\ Sending(r, "rollback")
    /\ Rollback(call[r].prev)
    /\ call' = [call EXCEPT ![r] = [NoCall EXCEPT !.at = "mark"]]
    /\ stranded' = (stranded \/ (status' = "in_progress" /\ ~HasActive)
                              \/ (status' # status /\ settle[r]))
    /\ UNCHANGED <<parkable, rows, mark, attempts, concluded, estop, thr, job, settle, due, shocks, told>>

SendMark(r) ==
    /\ Sending(r, "mark")
    /\ mark' = ~HasActive /\ attempts' = attempts + 1
    /\ call' = [call EXCEPT ![r] = NoCall]
    /\ UNCHANGED <<status, parkable, rows, concluded, estop, thr, job, settle, due, bounds>>

\* The worker starts and its task_started event marks the row as running.  A lost event is
\* an answer without a start.
Started(r) ==
    /\ r \in DOMAIN rows /\ rows[r] = "dispatched" /\ job
    /\ rows' = [rows EXCEPT ![r] = "running"]
    /\ UNCHANGED <<status, parkable, mark, attempts, concluded, estop, tasks, bounds>>

-------------------------------------------------------------------------------
(* The end of a dispatch *)

\* write_back_board_dispatch, from the callback or from the poll: the first end of the row wins.
WriteBack(r, outcome) ==
    /\ r \in DOMAIN rows /\ Active(r) /\ job
    /\ End(r, outcome)
    /\ settle' = [settle EXCEPT ![r] = TRUE]
    /\ UNCHANGED <<status, parkable, attempts, concluded, estop, thr, call, due, bounds>>

\* A plausible bug: a row that has started never times out.
TimeoutQueued(r) ==
    /\ r \in DOMAIN rows /\ rows[r] = "dispatched" /\ ~Unsent(r)
    /\ End(r, "failed")
    /\ settle' = [settle EXCEPT ![r] = TRUE]
    /\ UNCHANGED <<status, parkable, attempts, concluded, estop, thr, call, due, bounds>>

\* sweep_dispatch_timeouts: the row is too old, or its worker is gone.
Timeout(r) ==
    /\ r \in DOMAIN rows /\ Active(r)
    /\ ~Unsent(r)
    /\ End(r, "failed")
    /\ settle' = [settle EXCEPT ![r] = TRUE]
    /\ UNCHANGED <<status, parkable, attempts, concluded, estop, thr, call, due, bounds>>

\* Whoever ended the row sends the issue to review, if it is still in progress.
Move(r) ==
    /\ settle[r]
    /\ settle' = [settle EXCEPT ![r] = FALSE]
    /\ IF status = "in_progress"
       THEN status' = "in_review" /\ due' = due + 1 /\ concluded' = FALSE /\ told' = FALSE
       ELSE UNCHANGED <<status, due, concluded, told>>
    /\ UNCHANGED <<parkable, rows, mark, attempts, estop, thr, call, job, shocks, stranded>>

-------------------------------------------------------------------------------
(* sweep_parked_dispatches: one sweep at a time *)

\* PARK_SWEEP_LOCK
Sweeping == \E d \in Thread : thr[d].kind = "sweep"

\* dispatch_subissue_auto: the dispatch begins; or no worker matches, or the worker has its
\* fill, and the ticker comments on it (other sweeps are silent).  Only the first of the two
\* comments makes the issue a candidate of later sweeps.
AutoDispatch(d) ==
    /\ status \in {"backlog", "todo"} /\ ~HasActive
    /\ \/ RowLeft /\ Begin(d, "gate", "sweep", 0) /\ UNCHANGED <<mark, parkable>>
       \/ Comment /\ (parkable' = TRUE \/ UNCHANGED parkable) /\ UNCHANGED thr

\* The issues that are deferred
SweepPark(d) ==
    /\ At(d, "idle") /\ ~Sweeping /\ ~estop /\ ~sealed /\ ParkCandidate
    /\ AutoDispatch(d)
    /\ UNCHANGED <<status, rows, attempts, concluded, estop, call, job, settle, due, bounds>>

\* Then the send failures: the budget is spent, or the issue is sent again after the backoff
\* (an issue in review goes straight to dispatch_issue_core).
SweepPool(d) ==
    /\ At(d, "idle") /\ ~Sweeping /\ ~estop /\ ~sealed /\ InSendPool
    /\ IF attempts > MaxSendRetries
       THEN Comment /\ told' = TRUE /\ UNCHANGED <<thr, parkable>>
       ELSE /\ UNCHANGED told
            /\ \/ AutoDispatch(d)
               \/ /\ status = "in_review" /\ RowLeft
                  /\ Begin(d, "gate", "sweep", 0) /\ UNCHANGED <<mark, parkable>>
    /\ UNCHANGED <<status, rows, attempts, concluded, estop, call, job, settle, due, shocks, stranded>>

-------------------------------------------------------------------------------
(* Cancelling, rebalancing, changes by hand, crashes *)

\* rebalance_queued_to_worker has listed a row that its worker has not started.
Rebalance(d) ==
    /\ At(d, "idle") /\ RowLeft
    /\ rows # <<>> /\ rows[Len(rows)] = "dispatched"
    /\ Begin(d, "steal", "rebalance", Len(rows))
    /\ UNCHANGED <<store, call, job, settle, due, bounds>>

\* It cancels the row and dispatches the issue again.  cancel_dispatch says whether it won;
\* only an error of the store stops the handler.  A row that is still being sent is taken from
\* under its sender.
Steal(d) ==
    /\ At(d, "steal")
    /\ End(thr[d].row, "cancelled")
    /\ thr' = [thr EXCEPT ![d].pc = "gate"]
    /\ stranded' = (stranded \/ Unsent(thr[d].row) \/ ~Active(thr[d].row))
    /\ UNCHANGED <<status, parkable, attempts, concluded, estop, call, settle, due, shocks, told>>

\* The issue could not be dispatched again: it is left without a row, with a comment.
RebalanceFails(d) ==
    /\ At(d, "err") /\ thr[d].kind = "rebalance"
    /\ Free(d) /\ Comment
    /\ stranded' = (stranded \/ (status = "in_progress" /\ ~HasActive))
    /\ told' = TRUE
    /\ UNCHANGED <<status, parkable, rows, attempts, concluded, estop, call, job, settle, due, shocks>>

\* issue.cancel looks for an active row ...
Cancel(d) ==
    /\ At(d, "idle") /\ shocks < MaxShocks
    /\ shocks' = shocks + 1
    /\ IF HasActive THEN Begin(d, "cancel", "none", Len(rows)) ELSE Begin(d, "close", "none", 0)
    /\ UNCHANGED <<store, call, job, settle, due, stranded, told>>

\* ... ends it, or gives up when it has ended by itself ...
CancelRow(d) ==
    /\ At(d, "cancel")
    /\ End(thr[d].row, "cancelled")
    /\ IF Active(thr[d].row) THEN Begin(d, "close", "none", 0) ELSE Free(d)
    /\ UNCHANGED <<status, parkable, attempts, concluded, estop, call, settle, due, bounds>>

\* ... and then the issue is cancelled.
Close(d) ==
    /\ At(d, "close")
    /\ Free(d)
    /\ status' = IF CanTransition(status, "cancelled") THEN "cancelled" ELSE status
    /\ UNCHANGED <<parkable, rows, mark, attempts, concluded, estop, call, job, settle, due, bounds>>

\* issue.status, issue.move, issue.reopen: any legal change.  Reopening and skipping the
\* review leave a comment.
Human(to) ==
    /\ shocks < MaxShocks /\ CanTransition(status, to)
    /\ status' = to /\ shocks' = shocks + 1
    /\ mark' = (mark /\ status # "cancelled" /\ ~(to = "done" /\ status # "in_review"))
    /\ concluded' = (concluded /\ to # "in_review")
    /\ stranded' = (stranded \/ (to = "in_progress" /\ ~HasActive))
    /\ told' = (told \/ to = "in_review")
    /\ UNCHANGED <<parkable, rows, attempts, estop, tasks>>

\* note_overlimit: the execution record of a dispatch is too large to be sent.  Everybody
\* concerned is told, and an issue that is done goes back to in_review, past the state machine
\* (rollback_done_to_in_review).  Nothing reviews it there.  audit.rollback does the same by hand
\* to an issue that is done and was decided upon automatically, hence dispatched
\* (rollback_decision).
TakeBack ==
    /\ rows # <<>> /\ shocks < MaxShocks
    /\ shocks' = shocks + 1
    /\ status' = IF status = "done" THEN "in_review" ELSE status
    /\ Comment /\ told' = TRUE
    /\ UNCHANGED <<parkable, rows, attempts, concluded, estop, tasks, stranded>>

\* The gateway stops and starts: its tasks are gone, the store and the workers are not.  The
\* emergency stop is not persisted.  replay_stuck_reviews then looks for reviews that were cut.
Crash ==
    /\ shocks < MaxShocks
    /\ shocks' = shocks + 1
    /\ thr' = [d \in Thread |-> Idle]
    /\ call' = [r \in Row |-> NoCall]
    /\ settle' = [r \in Row |-> FALSE]
    /\ due' = IF Replayed THEN 1 ELSE 0
    /\ stranded' = (stranded \/ (status = "in_progress" /\ ~HasActive))
    /\ estop' = FALSE
    /\ UNCHANGED <<status, parkable, rows, mark, attempts, concluded, job, told>>

-------------------------------------------------------------------------------
SendStep(r) == Acked(r) \/ SendFails(r) \/ SendRollback(r) \/ SendMark(r)
EndStep(r) == Timeout(r) \/ Move(r)
HandlerStep(d) ==
    \/ Gate(d) \/ Refuse(d) \/ Claim(d) \/ Advance(d) \/ RebalanceFails(d)
    \/ Steal(d) \/ CancelRow(d) \/ Close(d)

DispatchNext ==
    \/ \E d \in Thread :
          Dispatch(d) \/ SweepPark(d) \/ SweepPool(d) \/ Rebalance(d) \/ Cancel(d) \/ HandlerStep(d)
    \/ \E r \in Row :
          Deliver(r) \/ SendStep(r) \/ Started(r) \/ EndStep(r)
          \/ \E outcome \in {"done", "failed"} : WriteBack(r, outcome)
    \/ \E to \in Status : Human(to)
    \/ TakeBack
=============================================================================
