------------------------------- MODULE BoardTree -------------------------------
(***************************************************************************)
(* The tree of issues: how the end of an issue moves its ancestors, starts *)
(* what depends on it or cancels what hangs on it, and how a parent is     *)
(* reviewed and closed (sync_parent_status, on_issue_settled,              *)
(* cascade_cancel_dependents and dispatch_subissue_auto of                 *)
(* nemesis-web/src/handlers/board.rs, review_parent_issue of               *)
(* nemesisbot/src/board_review.rs).                                        *)
(*                                                                         *)
(* Handlers and reviews run on threads; every call of the store is one     *)
(* step.  The life of a leaf is abridged, BoardReview has it in full: here *)
(* a claim and its move to in_progress are one step, and a delivery is     *)
(* accepted sooner or later.  Of the emergency stop only the parked        *)
(* reviews are here: they count as spawned, and begin after the release.   *)
(* The switches board.auto_review, unavailable.freeze and auto_close_parent*)
(* are on; without the last one a parent stops in review for a person.     *)
(***************************************************************************)
EXTENDS Integers, FiniteSets, IssueStatus

CONSTANTS
    Issue,      \* the issues, those that a review may create included
    Rework,     \* the issues that a review may create ("返工：")
    Parent,     \* Parent[i]: parent_issue_id, or NoIssue
    Deps,       \* Deps[i]: dependencies_of
    NoIssue,
    Thread,
    MaxHand,    \* bound on what happens from outside: issues closed, started or taken back by
                \* hand, notices of an oversized record, seals of the model's endpoint
    MaxCrash

ASSUME TreeAssumption ==
    /\ NoIssue \notin Issue /\ IsFiniteSet(Issue) /\ Rework \subseteq Issue
    /\ Parent \in [Issue -> Issue \cup {NoIssue}] /\ Deps \in [Issue -> SUBSET Issue]
    /\ \A i \in Rework : Deps[i] = {}
    /\ {MaxHand, MaxCrash} \subseteq Nat

VARIABLES
    exists,     \* the issues in the store
    statusOf,   \* statusOf[i]: the status of issue i
    row,        \* row[i]: the issue has an active dispatch
    concluded,  \* concluded[i]: a decision is recorded since the issue entered in_review
    escalated,  \* escalated[i]: that decision is parent_escalate_human
    due,        \* due[i]: reviews of parent i that were spawned and have not begun, or are parked
    thr,        \* thr[d]: the handler on thread d
    sealed,     \* frozen_now: the model's endpoint is unavailable
    suspended,  \* the parents whose review board/interruptions has a file for
    hand, crashes,
    \* History
    told,       \* told[i]: somebody was asked to look at the issue, or has reopened it
    struck      \* a crash or a stale decision cut what was going on

store == <<exists, statusOf, row, concluded, escalated>>
seal == <<sealed, suspended>>
history == <<told, struck>>
vars == <<store, due, thr, seal, hand, crashes, history>>

-------------------------------------------------------------------------------
Terminal == {"done", "cancelled"}

Children(p) == {i \in exists : Parent[i] = p}
Dependents(i) == {j \in exists : i \in Deps[j]}
Parents == {Parent[i] : i \in Issue} \ {NoIssue}
IsLeaf(i) == Children(i) = {}

\* descendants: breadth first, over the children or over dependents and children
Reach(next(_), root) ==
    LET layer[n \in 0..Cardinality(Issue)] ==
            IF n = 0 THEN {root} ELSE LET last == layer[n - 1] IN last \cup UNION {next(i) : i \in last}
    IN layer
Subtree(p) == Reach(Children, p)[Cardinality(Issue)] \ {p}

\* A plausible bug: only the dependents are followed.
DownstreamDependents(i) == Dependents(i)

Downstream(i) == Children(i) \cup Dependents(i)

Cascade(i) == Reach(Downstream, i)[Cardinality(Issue)] \ {i}

Distance(i, j) == CHOOSE n \in 0..Cardinality(Issue) :
                      /\ j \in Reach(Downstream, i)[n]
                      /\ \A m \in 0..(n - 1) : j \notin Reach(Downstream, i)[m]

AllDone(p) == \A i \in Subtree(p) : statusOf[i] = "done"
Gap(p) == \E i \in Subtree(p) : statusOf[i] = "cancelled"

Idle == [pc |-> "idle", task |-> "none", issue |-> NoIssue, cur |-> NoIssue,
         seen |-> "none", whole |-> FALSE, left |-> {}, old |-> {}, stopped |-> {}, undone |-> FALSE]

At(d, pc) == thr[d].pc = pc
Goto(d, pc) == thr' = [thr EXCEPT ![d].pc = pc]
Free(d) == thr' = [thr EXCEPT ![d] = Idle]
Run(d, state) == thr' = [thr EXCEPT ![d] = state]
Set(i, to) == statusOf' = [statusOf EXCEPT ![i] = to]

Init ==
    /\ exists = Issue \ Rework
    /\ statusOf = [i \in Issue |-> "backlog"]
    /\ row = [i \in Issue |-> FALSE]
    /\ concluded = [i \in Issue |-> FALSE] /\ escalated = [i \in Issue |-> FALSE]
    /\ due = [i \in Issue |-> 0]
    /\ thr = [d \in Thread |-> Idle]
    /\ sealed = FALSE /\ suspended = {}
    /\ hand = 0 /\ crashes = 0
    /\ told = [i \in Issue |-> FALSE] /\ struck = FALSE

-------------------------------------------------------------------------------
(* on_issue_settled: the ancestors first *)

\* The rest of the handler once issue i is settled.  A cancelled issue takes others with it.
Settling(i, to) ==
    [Idle EXCEPT !.pc = IF Parent[i] = NoIssue THEN "settled" ELSE "sync",
                 !.task = to, !.issue = i, !.cur = Parent[i]]

\* sync_parent_status goes up one level, or is through (or gives up on an error).
Resume(d) == IF thr[d].task = "cascade" THEN "cascade" ELSE "settled"
Up(d) ==
    LET p == Parent[thr[d].cur] IN
    thr' = [thr EXCEPT ![d].pc = IF p = NoIssue THEN Resume(d) ELSE "sync", ![d].cur = p,
                       ![d].seen = "none", ![d].whole = FALSE]
GiveUp(d) ==
    thr' = [thr EXCEPT ![d].pc = Resume(d), ![d].cur = NoIssue, ![d].seen = "none", ![d].whole = FALSE]

\* sync_one_parent reads the parent and its subtree.  A parent that is closed only gets a comment
\* about what is missing.
SyncRead(d) ==
    LET p == thr[d].cur IN
    /\ At(d, "sync")
    /\ IF statusOf[p] \in Terminal \/ (~AllDone(p) /\ ~Gap(p))
       THEN Up(d) /\ told' = [told EXCEPT ![p] = @ \/ Gap(p)]
       ELSE /\ thr' = [thr EXCEPT ![d].seen = statusOf[p], ![d].whole = AllDone(p),
                                  ![d].pc = IF statusOf[p] \in {"backlog", "todo", "blocked"}
                                            THEN "raise" ELSE "enter"]
            /\ UNCHANGED told
    /\ UNCHANGED <<store, due, seal, hand, crashes, struck>>

SyncRaise(d) ==
    LET p == thr[d].cur IN
    /\ At(d, "raise")
    /\ IF CanTransition(statusOf[p], "in_progress")
       THEN Set(p, "in_progress") /\ Goto(d, "enter")
       ELSE GiveUp(d) /\ UNCHANGED statusOf
    /\ UNCHANGED <<exists, row, concluded, escalated, due, seal, hand, crashes, history>>

\* A plausible bug: a parent that is in review already is not reviewed again.
SyncEnterOnce(d) ==
    LET p == thr[d].cur IN
    /\ At(d, "enter")
    /\ IF thr[d].seen # "in_review" /\ CanTransition(statusOf[p], "in_review")
       THEN /\ Up(d) /\ Set(p, "in_review")
            /\ concluded' = [concluded EXCEPT ![p] = FALSE]
            /\ told' = [told EXCEPT ![p] = ~thr[d].whole]
            /\ due' = IF thr[d].whole THEN [due EXCEPT ![p] = @ + 1] ELSE due
       ELSE GiveUp(d) /\ UNCHANGED <<statusOf, concluded, told, due>>
    /\ UNCHANGED <<exists, row, escalated, seal, hand, crashes, struck>>

\* The parent enters review; when all is done its review is spawned, else a human is asked.
SyncEnter(d) ==
    LET p == thr[d].cur
        reached == thr[d].seen = "in_review" \/ CanTransition(statusOf[p], "in_review")
    IN
    /\ At(d, "enter")
    /\ IF reached THEN Up(d) ELSE GiveUp(d)
    /\ IF reached /\ thr[d].seen # "in_review"
       THEN /\ Set(p, "in_review")
            /\ concluded' = [concluded EXCEPT ![p] = FALSE]
            /\ told' = [told EXCEPT ![p] = ~thr[d].whole]
       ELSE UNCHANGED <<statusOf, concluded, told>>
    /\ due' = IF reached /\ thr[d].whole THEN [due EXCEPT ![p] = @ + 1] ELSE due
    /\ UNCHANGED <<exists, row, escalated, seal, hand, crashes, struck>>

\* Then the others: a cancelled issue is followed downstream, else its dependents may start.
Settled(d) ==
    LET i == thr[d].issue
        others == IF thr[d].task = "cancelled" THEN Cascade(i) ELSE Dependents(i)
    IN
    /\ At(d, "settled")
    /\ thr' = [thr EXCEPT ![d].pc = IF thr[d].task = "cancelled" THEN "cascade" ELSE "depend",
                          ![d].left = others, ![d].old = {j \in others : statusOf[j] \in Terminal}]
    /\ UNCHANGED <<store, due, seal, hand, crashes, history>>

-------------------------------------------------------------------------------
(* cascade_cancel_dependents *)

\* The next issue of the list, nearest first, by the status that the list was made with.  Its
\* dispatch is cancelled; behind an issue that could not be cancelled nothing is.
CascadeNext(d) ==
    /\ At(d, "cascade")
    /\ \/ thr[d].left = {} /\ Free(d) /\ UNCHANGED row
       \/ \E j \in thr[d].left :
             /\ \A k \in thr[d].left : Distance(thr[d].issue, j) <= Distance(thr[d].issue, k)
             /\ IF j \in thr[d].old \/ Parent[j] \in thr[d].stopped \/ Deps[j] \cap thr[d].stopped # {}
                THEN thr' = [thr EXCEPT ![d].left = @ \ {j}] /\ UNCHANGED row
                ELSE /\ thr' = [thr EXCEPT ![d].left = @ \ {j}, ![d].cur = j, ![d].pc = "kill"]
                     /\ row' = [row EXCEPT ![j] = FALSE]
    /\ UNCHANGED <<exists, statusOf, concluded, escalated, due, seal, hand, crashes, history>>

\* Issue i is on the list that thread d works off: a child that it gets now is not.
OnList(d, i) ==
    /\ thr[d].task \in {"cancelled", "cascade"}
    /\ i \in thr[d].left \/ (At(d, "kill") /\ thr[d].cur = i)

CascadeKill(d) ==
    LET j == thr[d].cur IN
    /\ At(d, "kill")
    /\ IF CanTransition(statusOf[j], "cancelled")
       THEN /\ Set(j, "cancelled")
            /\ thr' = [thr EXCEPT ![d].cur = Parent[j],
                                  ![d].pc = IF Parent[j] = NoIssue THEN "cascade" ELSE "sync",
                                  ![d].task = "cascade"]
            /\ UNCHANGED struck
       ELSE /\ thr' = [thr EXCEPT ![d].stopped = @ \cup {j}, ![d].pc = "cascade"]
            /\ struck' = TRUE
            /\ UNCHANGED statusOf
    /\ UNCHANGED <<exists, row, concluded, escalated, due, seal, hand, crashes, told>>

-------------------------------------------------------------------------------
(* dispatch_subissue_auto *)

\* A plausible bug: the dependencies are not looked at.
MayStartAtOnce(i) ==
    /\ i \in exists /\ statusOf[i] \in {"backlog", "todo"} /\ ~row[i]
    /\ Parent[i] # NoIssue => statusOf[Parent[i]] # "cancelled"

\* The gates: nothing started, every dependency done, the parent not cancelled.  What they saw can
\* change before the dispatch.
MayStart(i) ==
    /\ i \in exists /\ statusOf[i] \in {"backlog", "todo"} /\ ~row[i]
    /\ \A j \in Deps[i] : statusOf[j] = "done"
    /\ Parent[i] # NoIssue => statusOf[Parent[i]] # "cancelled"

\* The dependents of a settled issue, one after the other, or the child that a review has created
Depend(d) ==
    /\ At(d, "depend")
    /\ \/ thr[d].left = {} /\ thr[d].task # "rework" /\ Free(d)
       \/ \E i \in thr[d].left :
             thr' = [thr EXCEPT ![d].left = @ \ {i},
                                ![d].cur = IF MayStart(i) THEN i ELSE NoIssue,
                                ![d].pc = IF MayStart(i) THEN "launch" ELSE "depend"]
    /\ UNCHANGED <<store, due, seal, hand, crashes, history>>

\* The sweep of parked issues
Sweep(d) ==
    /\ At(d, "idle") /\ ~sealed /\ \A e \in Thread : thr[e].task # "sweep"
    /\ \E i \in exists : MayStart(i) /\ IsLeaf(i)
          /\ Run(d, [Idle EXCEPT !.pc = "launch", !.task = "sweep", !.cur = i])
    /\ UNCHANGED <<store, due, seal, hand, crashes, history>>

\* dispatch_issue_core: its own gate looks at the status and at active rows, not at dependencies.
Startable(i) == ~row[i] /\ statusOf[i] \in {"backlog", "todo", "in_progress", "in_review"}
Start(i) == Set(i, "in_progress") /\ row' = [row EXCEPT ![i] = TRUE]

\* The thread is through with the dispatch; a remediation that gets an error asks a human.
Leave(d, pc) ==
    thr' = [thr EXCEPT ![d].pc = pc, ![d].undone = FALSE,
                       ![d].cur = IF pc \in {"lift", "block"} THEN @ ELSE NoIssue]
Failing(d) == IF thr[d].task = "rework" THEN "escalate" ELSE "depend"

\* The dispatch of an issue that passed the gates before; then the parent is looked at.
Launch(d) ==
    LET i == thr[d].cur
        p == Parent[i]
        low == p # NoIssue /\ statusOf[p] \in {"backlog", "todo", "blocked"}
    IN
    /\ At(d, "launch")
    /\ IF Startable(i)
       THEN Start(i) /\ Leave(d, IF low THEN "lift" ELSE "depend")
       ELSE Leave(d, Failing(d)) /\ UNCHANGED <<statusOf, row>>
    /\ UNCHANGED <<exists, concluded, escalated, due, seal, hand, crashes, told, struck>>

\* The cluster refuses, or the emergency stop does.
Refuse(d) ==
    /\ At(d, "launch")
    /\ Leave(d, Failing(d))
    /\ UNCHANGED <<store, due, seal, hand, crashes, history>>

\* No worker matches, or it has its fill: the issue waits.  mark_parent_blocked_if_stalled finds a
\* parent under which nothing has started.
Wait(d) ==
    LET p == Parent[thr[d].cur]
        stalled == /\ p # NoIssue /\ statusOf[p] \in {"backlog", "todo"}
                   /\ \A i \in Children(p) : statusOf[i] \in {"backlog", "todo"} /\ ~row[i]
    IN
    /\ At(d, "launch")
    /\ Leave(d, IF stalled THEN "block" ELSE "depend")
    /\ UNCHANGED <<store, due, seal, hand, crashes, history>>

\* What was seen of the parent is acted on; by now the parent may have moved on.
MoveParent(d) ==
    LET p == Parent[thr[d].cur]
        to == IF At(d, "lift") THEN "in_progress" ELSE "blocked"
    IN
    /\ thr[d].pc \in {"lift", "block"}
    /\ Leave(d, "depend")
    /\ IF CanTransition(statusOf[p], to) THEN Set(p, to) ELSE UNCHANGED statusOf
    /\ struck' = (struck \/ statusOf[p] \in {"in_progress", "in_review"}
                          \/ \E e \in Thread : thr[e].pc \in {"raise", "enter"} /\ thr[e].cur = p)
    /\ UNCHANGED <<exists, row, concluded, escalated, due, seal, hand, crashes, told>>

-------------------------------------------------------------------------------
(* Leaves *)

\* write_back_board_dispatch, for an answer or a timeout: the issue enters review, and a parent that
\* somebody has dispatched is reviewed as a parent.
Answer(i) ==
    /\ row[i]
    /\ row' = [row EXCEPT ![i] = FALSE]
    /\ IF statusOf[i] = "in_progress"
       THEN /\ Set(i, "in_review") /\ concluded' = [concluded EXCEPT ![i] = FALSE]
            /\ due' = IF IsLeaf(i) THEN due ELSE [due EXCEPT ![i] = @ + 1]
            /\ told' = [told EXCEPT ![i] = FALSE]
       ELSE UNCHANGED <<statusOf, concluded, due, told>>
    /\ UNCHANGED <<exists, escalated, thr, seal, hand, crashes, struck>>

\* auto_accept_and_settle
Accept(d, i) ==
    /\ At(d, "idle") /\ i \in exists /\ IsLeaf(i) /\ statusOf[i] = "in_review"
    /\ Set(i, "done") /\ Run(d, Settling(i, "done"))
    /\ UNCHANGED <<exists, row, concluded, escalated, due, seal, hand, crashes, history>>

\* issue.status and issue.move to done, and issue.cancel, which ends the dispatch
ByHand(d, i, to) ==
    /\ At(d, "idle") /\ i \in exists /\ hand < MaxHand /\ CanTransition(statusOf[i], to)
    /\ hand' = hand + 1
    /\ Set(i, to) /\ Run(d, Settling(i, to))
    /\ row' = [row EXCEPT ![i] = @ /\ to # "cancelled"]
    /\ UNCHANGED <<exists, concluded, escalated, due, seal, crashes, history>>

\* Neither the parent nor a dependency is cancelled.
MayReopen(i) ==
    /\ Parent[i] # NoIssue => statusOf[Parent[i]] # "cancelled"
    /\ \A j \in Deps[i] : statusOf[j] # "cancelled"

\* issue.dispatch, project.resume and the automatic dispatch after an assignment go to
\* dispatch_issue_core without the gates on dependencies and parent.
DispatchByHand(i) ==
    /\ i \in exists /\ hand < MaxHand /\ Startable(i)
    /\ hand' = hand + 1
    /\ Start(i)
    /\ UNCHANGED <<exists, concluded, escalated, due, thr, seal, crashes, told, struck>>

\* audit.rollback of an automatic decision, or note_overlimit on the record of a dispatch: an issue
\* that is done goes back to in_review, past the state machine, and somebody is told.  Neither its
\* parent nor what depends on it is looked at.  (One that was closed by hand, and neither dispatched
\* nor decided upon, has nothing to take back: the model does not tell it apart.)
TakeBack(i) ==
    /\ i \in exists /\ hand < MaxHand /\ statusOf[i] = "done"
    /\ hand' = hand + 1
    /\ Set(i, "in_review") /\ told' = [told EXCEPT ![i] = TRUE]
    /\ thr' = [d \in Thread |->
                  IF At(d, "launch") /\ i \in Deps[thr[d].cur]
                  THEN [thr[d] EXCEPT !.undone = TRUE] ELSE thr[d]]
    /\ struck' = (struck \/ ~MayReopen(i) \/ \E e \in Thread : thr[e].task \in {"cancelled", "cascade"})
    /\ UNCHANGED <<exists, row, concluded, escalated, due, seal, crashes>>

\* reopen_issue: the issue is read, checked and then changed.
ReopenCheck(d, i) ==
    /\ At(d, "idle") /\ i \in exists /\ statusOf[i] = "cancelled" /\ MayReopen(i)
    /\ Run(d, [Idle EXCEPT !.pc = "reopen", !.cur = i])
    /\ UNCHANGED <<store, due, seal, hand, crashes, history>>

Reopen(d) ==
    LET i == thr[d].cur IN
    /\ At(d, "reopen")
    /\ Free(d)
    /\ IF CanTransition(statusOf[i], "backlog") THEN Set(i, "backlog") ELSE UNCHANGED statusOf
    /\ struck' = (struck \/ ~MayReopen(i) \/ \E e \in Thread : thr[e].task \in {"cancelled", "cascade"})
    /\ told' = [told EXCEPT ![i] = TRUE]
    /\ UNCHANGED <<exists, row, concluded, escalated, due, seal, hand, crashes>>

-------------------------------------------------------------------------------
(* review_parent_issue *)

\* A review that was escalated is left to the human; a subtree with a gap as well.  When the endpoint
\* is sealed the review is suspended (checking the seal and writing the file are one step here; in
\* BoardReview they are two).
ReviewBegin(d, p) ==
    LET wanted == statusOf[p] = "in_review" /\ ~(concluded[p] /\ escalated[p]) IN
    /\ At(d, "idle") /\ due[p] > 0
    /\ due' = [due EXCEPT ![p] = @ - 1]
    /\ suspended' = IF wanted /\ sealed THEN suspended \cup {p} ELSE suspended
    /\ IF wanted /\ ~sealed /\ ~Gap(p)
       THEN Run(d, [Idle EXCEPT !.pc = "judge", !.task = "review", !.issue = p])
       ELSE UNCHANGED thr
    /\ UNCHANGED <<store, sealed, hand, crashes, history>>

Conclude(p) == concluded' = [concluded EXCEPT ![p] = TRUE]

\* The model answers, which lifts the seal and resumes nothing (record_llm_success).
\* review_still_relevant, once: the verdict on an issue that has left review is dropped.
Relevant(d) ==
    /\ At(d, "judge") /\ statusOf[thr[d].issue] = "in_review"
    /\ Goto(d, "verdict") /\ sealed' = FALSE
    /\ UNCHANGED <<store, due, suspended, hand, crashes, history>>

Stale(d) ==
    LET p == thr[d].issue IN
    /\ At(d, "judge") /\ statusOf[p] # "in_review"
    /\ Free(d) /\ Conclude(p) /\ sealed' = FALSE
    /\ escalated' = [escalated EXCEPT ![p] = FALSE]
    /\ UNCHANGED <<exists, statusOf, row, due, suspended, hand, crashes, told, struck>>

\* The call fails, perhaps as the one too many that seals the endpoint; a human is asked.
ReviewError(d) ==
    LET p == thr[d].issue IN
    /\ At(d, "judge")
    /\ Free(d) /\ told' = [told EXCEPT ![p] = TRUE]
    /\ \/ /\ ~sealed /\ hand < MaxHand
          /\ sealed' = TRUE /\ suspended' = suspended \cup {p} /\ hand' = hand + 1
       \/ UNCHANGED <<seal, hand>>
    /\ UNCHANGED <<store, due, crashes, struck>>

\* Pass: the decision is recorded, then the parent is closed and settled.
Pass(d) ==
    LET p == thr[d].issue IN
    /\ At(d, "verdict")
    /\ Goto(d, "close") /\ Conclude(p)
    /\ escalated' = [escalated EXCEPT ![p] = FALSE]
    /\ UNCHANGED <<exists, statusOf, row, due, seal, hand, crashes, told, struck>>

Close(d) ==
    LET p == thr[d].issue IN
    /\ At(d, "close")
    /\ IF CanTransition(statusOf[p], "done")
       THEN Set(p, "done") /\ Run(d, Settling(p, "done"))
       ELSE Free(d) /\ UNCHANGED statusOf
    /\ UNCHANGED <<exists, row, concluded, escalated, due, seal, hand, crashes, history>>

\* Fail: try_parent_remediation creates a child for what is missing, without another look at the
\* parent, which may be on the list of a cascade by now, and puts it through the gates; ...
Remedy(d) ==
    LET p == thr[d].issue IN
    /\ At(d, "verdict")
    /\ \E i \in Rework \ exists :
          /\ Parent[i] = p
          /\ exists' = exists \cup {i}
          /\ thr' = [thr EXCEPT ![d].pc = "depend", ![d].left = {i}, ![d].task = "rework"]
    /\ struck' = (struck \/ statusOf[p] # "in_review" \/ \E e \in Thread : OnList(e, p))
    /\ UNCHANGED <<statusOf, row, concluded, escalated, due, seal, hand, crashes, told>>

\* ... this is recorded when that is done.
RemedyRecord(d) ==
    LET p == thr[d].issue IN
    /\ At(d, "depend") /\ thr[d].task = "rework" /\ thr[d].left = {}
    /\ Free(d) /\ Conclude(p)
    /\ escalated' = [escalated EXCEPT ![p] = FALSE]
    /\ UNCHANGED <<exists, statusOf, row, due, seal, hand, crashes, told, struck>>

\* ... or, with no round left, nothing to work on or a child that could not be dispatched, a human
\* is asked.
Escalate(d) ==
    LET p == thr[d].issue IN
    /\ thr[d].pc \in {"verdict", "escalate"}
    /\ Free(d) /\ Conclude(p)
    /\ escalated' = [escalated EXCEPT ![p] = TRUE]
    /\ told' = [told EXCEPT ![p] = TRUE]
    /\ UNCHANGED <<exists, statusOf, row, due, seal, hand, crashes, struck>>

-------------------------------------------------------------------------------
\* The endpoint is sealed by the failures of other calls; their answers or unavailable.release lift
\* the seal; so does the probe, which resumes what was suspended (resume_interruptions).
Seal ==
    /\ ~sealed /\ hand < MaxHand
    /\ sealed' = TRUE /\ hand' = hand + 1
    /\ UNCHANGED <<store, due, thr, suspended, crashes, history>>

Unseal ==
    /\ sealed /\ sealed' = FALSE
    /\ UNCHANGED <<store, due, thr, suspended, hand, crashes, history>>

Probe ==
    /\ sealed /\ sealed' = FALSE
    /\ due' = [p \in Issue |-> due[p] + IF p \in suspended THEN 1 ELSE 0]
    /\ suspended' = {}
    /\ UNCHANGED <<store, thr, hand, crashes, history>>

\* The gateway stops and starts: replay_stuck_reviews spawns the review of a parent in review whose
\* children are done and for which nothing is recorded.
Replayed(p) ==
    /\ statusOf[p] = "in_review" /\ ~concluded[p]
    /\ ~IsLeaf(p) /\ \A i \in Children(p) : statusOf[i] = "done"

Crash ==
    /\ crashes < MaxCrash
    /\ crashes' = crashes + 1
    /\ thr' = [d \in Thread |-> Idle] /\ sealed' = FALSE
    /\ due' = [p \in Issue |-> IF p \in exists /\ Replayed(p) THEN 1 ELSE 0]
    /\ struck' = (struck \/ (\E d \in Thread : thr[d].task \in {"done", "cancelled", "cascade"})
                          \/ (\E d \in Thread : thr[d].task = "review" /\ concluded[thr[d].issue])
                          \/ \E p \in Issue : due[p] > 0 /\ concluded[p])
    /\ UNCHANGED <<store, suspended, hand, told>>

Step(d) ==
    \/ SyncRead(d) \/ SyncRaise(d) \/ SyncEnter(d) \/ Settled(d)
    \/ CascadeNext(d) \/ CascadeKill(d)
    \/ Depend(d) \/ Launch(d) \/ Refuse(d) \/ Wait(d) \/ MoveParent(d)
    \/ Reopen(d) \/ Relevant(d) \/ Stale(d) \/ ReviewError(d) \/ Pass(d) \/ Close(d)
    \/ Remedy(d) \/ RemedyRecord(d) \/ Escalate(d)

Next ==
    \/ \E d \in Thread :
          \/ Step(d) \/ Sweep(d)
          \/ \E i \in Issue : \/ Accept(d, i) \/ ReviewBegin(d, i) \/ ReopenCheck(d, i)
                              \/ \E to \in Terminal : ByHand(d, i, to)
    \/ \E i \in Issue : Answer(i) \/ DispatchByHand(i) \/ TakeBack(i)
    \/ Seal \/ Unseal \/ Probe
    \/ Crash

Spec == Init /\ [][Next]_vars

\* Handlers run to their end, spawned reviews get their turn, a dispatch ends by an answer or by its
\* timeout, and some day the model answers the probe.
Fairness ==
    /\ \A d \in Thread : WF_vars(Step(d))
    /\ \A p \in Parents : SF_vars(\E d \in Thread : ReviewBegin(d, p)) /\ WF_vars(Answer(p))
    /\ WF_vars(Probe)

FairSpec == Spec /\ Fairness

-------------------------------------------------------------------------------
\* Unless somebody starts it by hand, no worker starts on an issue before everything that it depends
\* on is done, whatever happened between the gates and the dispatch (dispatch_subissue_auto).  A
\* dependency that was done is taken for done also when it is taken back in between.
StartsAfterDependencies ==
    [][\A i \in Issue : ~row[i] /\ row'[i] /\ hand' = hand =>
           \E d \in Thread :
               /\ At(d, "launch") /\ thr[d].cur = i
               /\ thr[d].undone \/ \A j \in Deps[i] : statusOf[j] = "done"]_vars

\* When all threads are at rest, nothing that hangs on a cancelled issue is still to be worked on:
\* cascade_cancel_dependents follows children and dependents.  Excepted are the `struck' cases: a
\* crash, a reopening, a rollback or a remediation that crosses the cascade, an issue that was done
\* first, and an issue that is reopened or taken back under a cancelled one.
CancelReachesAll ==
    ~struck /\ (\A d \in Thread : At(d, "idle")) =>
        \A i, j \in exists : statusOf[i] = "cancelled" /\ (Parent[j] = i \/ i \in Deps[j])
                               => statusOf[j] \in Terminal

\* No parent whose subtree is done stays open for ever without being shown to somebody, also after a
\* round of rework and when two children end at once (sync_one_parent, replay_stuck_reviews).
\* Excepted are crashes between the end of a child and the move of its parent, crashes of a review
\* whose decision is recorded, decisions about the parent that were stale when they were carried
\* out, and a suspended review whose seal was lifted by something else than the probe.
ParentIsClosed ==
    \A p \in Parents :
        []<>(\/ p \notin exists \/ IsLeaf(p) \/ ~AllDone(p) \/ statusOf[p] \in Terminal
             \/ told[p] \/ struck \/ (p \in suspended /\ ~sealed))
================================================================================
