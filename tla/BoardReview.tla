------------------------------ MODULE BoardReview ------------------------------
(***************************************************************************)
(* The automatic review of a delivered issue (review_issue and its replay, *)
(* nemesisbot/src/board_review.rs) on top of the dispatch ledger, with the *)
(* emergency stop.                                                         *)
(*                                                                         *)
(* A review runs for minutes in a task of its own: it reads the issue,     *)
(* asks the model for a verdict, looks at the status again and then acts.  *)
(* The prompt, the panel of judges, the anchors and the memory of earlier  *)
(* failures only choose among the verdicts, which are inputs here; the     *)
(* second stage, which asks a worker for evidence, is left out.  The       *)
(* switches board.auto_review and board.unavailable.freeze are on, as they *)
(* are by default, and the gateway is the master.                          *)
(*                                                                         *)
(* When calls of the model cannot connect, its endpoint is sealed: reviews *)
(* that begin are suspended and noted in a file, and a probe lifts the     *)
(* seal and resumes them (board_unavailable.rs of the gateway and of       *)
(* nemesis-web).  Only the probe resumes: a seal that somebody releases,   *)
(* or that another answer of the model lifts, leaves the files where they  *)
(* are.                                                                    *)
(***************************************************************************)
EXTENDS BoardDispatch

CONSTANTS MaxRedispatch    \* board.max_redispatch

ASSUME RedispatchAssumption == MaxRedispatch \in Nat

VARIABLES
    parked,    \* estop_parked holds the issue
    suspended, \* board/interruptions has a file for the issue
    \* History
    muted      \* a decision was recorded, and what was decided did not happen; or a review was
               \* suspended, and the seal was lifted by something else than the probe

seal == <<sealed, suspended>>
reviewVars == <<seal, parked, muted>>
vars == <<dispatchVars, reviewVars>>

Init ==
    /\ DispatchInit
    /\ sealed = FALSE /\ suspended = FALSE /\ parked = FALSE /\ muted = FALSE

-------------------------------------------------------------------------------
\* estop_fuse_engaged: the issue waits for the release.
Fuse(d) == estop /\ parked' = TRUE /\ Free(d)

\* record_auto_decide
Decided == concluded' = TRUE

\* record_llm_success, whose result is not looked at: an answer lifts the seal and resumes nothing.
Answered ==
    /\ sealed' = FALSE
    /\ muted' = (muted \/ (sealed /\ suspended))
    /\ UNCHANGED <<suspended, shocks>>

\* record_llm_failure: the failure is one too many of the connection, and the endpoint is sealed
\* (write_trip_interruptions); or it is not.
Unanswered ==
    /\ \/ /\ ~sealed /\ shocks < MaxShocks
          /\ sealed' = TRUE /\ suspended' = TRUE /\ shocks' = shocks + 1
       \/ UNCHANGED <<seal, shocks>>
    /\ UNCHANGED muted

\* A spawned review begins: it is parked, or finds the issue elsewhere, or the endpoint sealed, or
\* calls the model.
ReviewBegin(d) ==
    /\ At(d, "idle") /\ due > 0
    /\ due' = due - 1
    /\ \/ Fuse(d)
       \/ ~estop /\ status # "in_review" /\ UNCHANGED <<thr, parked>>
       \/ /\ ~estop /\ status = "in_review" /\ UNCHANGED parked
          /\ Begin(d, IF sealed THEN "suspend" ELSE "judge", "review", Len(rows))
    /\ UNCHANGED <<store, call, job, settle, bounds, seal, muted>>

\* write_interruption: the review is given up for now, or for good if the seal is gone already.
Suspend(d) ==
    /\ At(d, "suspend")
    /\ Free(d)
    /\ suspended' = TRUE /\ muted' = (muted \/ ~sealed)
    /\ UNCHANGED <<store, call, job, settle, due, bounds, sealed, parked>>

\* review_still_relevant: the issue is no longer in review, and the verdict is dropped.
ReviewStale(d) ==
    /\ At(d, "judge") /\ status # "in_review"
    /\ Free(d) /\ Decided
    /\ Answered \/ Unanswered
    /\ UNCHANGED <<status, parkable, rows, mark, attempts, estop, call, job, settle, due, stranded,
                   told, parked>>

\* The verdict is Pass: the issue is accepted, or, without auto_accept, proposed to a human.
VerdictPass(d) ==
    /\ At(d, "judge") /\ status = "in_review"
    /\ \/ Goto(d, "accept") /\ UNCHANGED <<concluded, told>>
       \/ Free(d) /\ Decided /\ told' = TRUE
    /\ Answered
    /\ UNCHANGED <<status, parkable, rows, mark, attempts, estop, call, job, settle, due, stranded, parked>>

\* The verdict is Fail: another round, if rounds are left; a dispatch that was never sent
\* counts as one.  Otherwise, or if the model is not sure, a human decides.
VerdictFail(d) ==
    /\ At(d, "judge") /\ status = "in_review"
    /\ \/ thr[d].row - 1 < MaxRedispatch /\ Goto(d, "record") /\ UNCHANGED <<concluded, told>>
       \/ Free(d) /\ Decided /\ told' = TRUE
    /\ Answered
    /\ UNCHANGED <<status, parkable, rows, mark, attempts, estop, call, job, settle, due, stranded, parked>>

\* The review itself failed.  It is tried again some times, which is a longer call of the model
\* unless it meets the seal; then a human is asked, and nothing is recorded.
ReviewError(d) ==
    /\ At(d, "judge") /\ status = "in_review"
    /\ Unanswered
    /\ \/ sealed' /\ Free(d) /\ due' = due + 1 /\ UNCHANGED <<told, parked>>
       \/ Fuse(d) /\ told' = TRUE /\ UNCHANGED due
       \/ Free(d) /\ told' = TRUE /\ UNCHANGED <<due, parked>>
    /\ UNCHANGED <<store, call, job, settle, stranded>>

\* auto_accept_and_settle
Accept(d) ==
    /\ At(d, "accept")
    /\ \/ Fuse(d) /\ UNCHANGED <<status, concluded>>
       \/ /\ ~estop /\ Free(d) /\ UNCHANGED parked
          /\ IF CanTransition(status, "done")
             THEN status' = "done" /\ Decided
             ELSE UNCHANGED <<status, concluded>>
    /\ UNCHANGED <<parkable, rows, mark, attempts, estop, call, job, settle, due, bounds, seal, muted>>

\* The decision to dispatch again is recorded before it is carried out ...
Record(d) ==
    /\ At(d, "record")
    /\ Goto(d, "recorded") /\ Decided
    /\ UNCHANGED <<status, parkable, rows, mark, attempts, estop, call, job, settle, due, bounds, reviewVars>>

\* ... then come the emergency stop, the budget, somebody else's dispatch ...
Redispatch(d) ==
    /\ At(d, "recorded")
    /\ \/ Fuse(d) /\ UNCHANGED told
       \/ ~estop /\ Free(d) /\ told' = TRUE /\ UNCHANGED parked
       \/ ~estop /\ HasActive /\ Free(d) /\ UNCHANGED <<parked, told>>
       \/ ~estop /\ ~HasActive /\ RowLeft /\ Goto(d, "gate") /\ UNCHANGED <<parked, told>>
    /\ UNCHANGED <<store, call, job, settle, due, shocks, stranded, seal, muted>>

\* ... and the outcome of dispatch_issue_core.  Under the emergency stop nothing is left to do
\* after the release; somebody else's dispatch takes precedence; else a human is asked.
ReviewReturns(d) ==
    /\ thr[d].kind = "review" /\ thr[d].pc \in {"ok", "err"}
    /\ Free(d)
    /\ \/ At(d, "ok") /\ Decided /\ UNCHANGED <<mark, told, muted>>
       \/ At(d, "err") /\ estop /\ muted' = TRUE /\ UNCHANGED <<mark, concluded, told>>
       \/ At(d, "err") /\ ~estop /\ HasActive /\ UNCHANGED <<mark, concluded, told, muted>>
       \/ At(d, "err") /\ ~estop /\ ~HasActive /\ Comment /\ Decided /\ told' = TRUE /\ UNCHANGED muted
    /\ UNCHANGED <<status, parkable, rows, attempts, estop, call, job, settle, due, shocks,
                   stranded, seal, parked>>

-------------------------------------------------------------------------------
\* The emergency stop, and its release: spawn_estop_resume_watcher respawns what is parked and
\* replays what was cut.
Engage ==
    /\ ~estop /\ shocks < MaxShocks
    /\ estop' = TRUE /\ shocks' = shocks + 1
    /\ UNCHANGED <<status, parkable, rows, mark, attempts, concluded, tasks, stranded, told, reviewVars>>

\* A plausible bug: the parked reviews are forgotten.
ReleaseForgetting ==
    /\ estop
    /\ estop' = FALSE /\ parked' = FALSE
    /\ UNCHANGED <<status, parkable, rows, mark, attempts, concluded, tasks, bounds, seal, muted>>

Release ==
    /\ estop
    /\ estop' = FALSE /\ parked' = FALSE
    /\ due' = due + (IF parked \/ Replayed THEN 1 ELSE 0)
    /\ UNCHANGED <<status, parkable, rows, mark, attempts, concluded, thr, call, job, settle, bounds, seal,
                   muted>>

\* The endpoint is sealed by the failures of other reviews and plans ...
Seal ==
    /\ ~sealed /\ shocks < MaxShocks
    /\ sealed' = TRUE /\ shocks' = shocks + 1
    /\ UNCHANGED <<store, tasks, stranded, told, suspended, parked, muted>>

\* ... and the seal is lifted by their answers, or by hand (unavailable.release).
Unseal ==
    /\ sealed /\ Answered
    /\ UNCHANGED <<store, tasks, stranded, told, parked>>

\* probe_loop: the endpoint answers, and resume_interruptions respawns what was suspended.
Probe ==
    /\ sealed /\ ~estop
    /\ sealed' = FALSE /\ suspended' = FALSE
    /\ due' = due + (IF suspended THEN 1 ELSE 0)
    /\ UNCHANGED <<store, thr, call, job, settle, bounds, parked, muted>>

\* An issue that is sent to review is a new case.
Case ==
    /\ muted' = (muted /\ due' = due)
    /\ UNCHANGED <<seal, parked>>

\* A crash loses the parked issue, the handlers, the reviews, the marks to be set and the seal, and
\* with it the occasion for the probe; what counts as decided is not replayed.
CrashCase ==
    LET cut == \/ parked \/ suspended \/ due > 0
               \/ \E d \in Thread : ~At(d, "idle")
               \/ \E r \in Row : Sending(r, "mark")
    IN
    /\ parked' = FALSE /\ sealed' = FALSE
    /\ muted' = (muted \/ (concluded /\ cut))
    /\ UNCHANGED suspended

ReviewStep(d) ==
    \/ ReviewBegin(d) \/ Suspend(d) \/ ReviewStale(d) \/ VerdictPass(d) \/ VerdictFail(d) \/ ReviewError(d)
    \/ Accept(d) \/ Record(d) \/ Redispatch(d) \/ ReviewReturns(d)

Next ==
    \/ DispatchNext /\ Case
    \/ Crash /\ CrashCase
    \/ \E d \in Thread : ReviewStep(d)
    \/ Engage \/ Release \/ Seal \/ Unseal \/ Probe

Spec == Init /\ [][Next]_vars

\* Threads, sends and sweeps run; the emergency stop is released some day, and some day the model
\* answers the probe; the worker owes nothing, but the timeout does.  Reviews take their turn: they
\* are tasks of their own.
Fairness ==
    /\ \A d \in Thread : WF_vars((HandlerStep(d) /\ Case) \/ ReviewStep(d))
    /\ SF_vars(\E d \in Thread : ReviewBegin(d))
    /\ SF_vars((\E d \in Thread : SweepPool(d)) /\ Case)
    /\ \A r \in Row : WF_vars(SendStep(r) /\ Case) /\ WF_vars(EndStep(r) /\ Case)
    /\ WF_vars(Release \/ Probe)

FairSpec == Spec /\ Fairness

-------------------------------------------------------------------------------
ThreadState ==
    [pc : {"idle", "gate", "claim", "advance", "ok", "err", "steal", "cancel", "close",
           "suspend", "judge", "accept", "record", "recorded"},
     kind : {"none", "manual", "sweep", "rebalance", "review"},
     prev : Status \cup {"none"}, row : 0..MaxRows]

\* Types; the active row, if any, is the last one.
TypeOK ==
    /\ status \in Status /\ rows \in Seq(RowState) /\ Len(rows) <= MaxRows
    /\ {parkable, mark, concluded, estop, sealed, suspended, stranded, parked, told, muted} \subseteq BOOLEAN
    /\ attempts \in 0..MaxRows /\ due \in Nat
    /\ thr \in [Thread -> ThreadState]
    /\ call \in [Row -> [at : {"none", "sending", "rollback", "mark"}, prev : Status \cup {"none"}]]
    /\ job \in BOOLEAN /\ settle \in [Row -> BOOLEAN]
    /\ shocks \in 0..MaxShocks

\* No issue is in progress for ever: an answer, a timeout or a failed send takes it out of that
\* status, except in the cases that `stranded' names.
InProgressEnds == []<>(status # "in_progress" \/ stranded)

\* No issue is in review for ever without being accepted, dispatched again or shown to somebody, also
\* when its review was parked by the emergency stop, suspended by the seal or cut by a crash.
\* Excepted are a decision that was recorded and cut before it was carried out, and a suspended
\* review whose seal was lifted by something else than the probe (`muted'), the `stranded' cases,
\* and an issue that waits for a send that the bound MaxRows does not allow.
InReviewIsAttended ==
    []<>(status # "in_review" \/ told \/ muted \/ stranded \/ (InSendPool /\ ~RowLeft))
================================================================================
