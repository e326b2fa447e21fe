-------------------------------- MODULE PeerTask --------------------------------
(***************************************************************************)
(* A delegated task from end to end.  Node A dispatches it (gateway,       *)
(* cluster_init.rs), keeps a row in tasks.db and a snapshot of the         *)
(* conversation, learns the outcome from B's callback or from its own      *)
(* recovery poll (cluster.rs), and resumes the conversation.  Node B       *)
(* executes the task and reports it (peer_chat_handler.rs).  Requests and  *)
(* answers get lost, and both nodes crash.                                 *)
(*                                                                         *)
(* TaskManager, Continuation and ClusterWorker model the parts in detail;  *)
(* here each is reduced to what the other node can observe of it.          *)
(***************************************************************************)
EXTENDS Naturals, Sequences

CONSTANTS Task,       \* ids of delegated tasks, made by A
          MaxTries,   \* MAX_CALLBACK_RETRIES
          MaxCrashA, MaxCrashB   \* bounds on the number of crashes

ASSUME BoundAssumption == MaxTries \in Nat \ {0} /\ MaxCrashA \in Nat /\ MaxCrashB \in Nat

VARIABLES
    \* Node A
    request,    \* request[t]: the turn that dispatches t
    row,        \* tasks.db
    snap,       \* the continuation snapshots on disk
    bus,        \* bus[t]: published continuations of t that nobody took yet
    cont,       \* cont[t]: the continuation handler of t
    inbound,    \* inbound[t]: the thread that serves B's callback for t
    poll,       \* the recovery loop
    expired,    \* tasks older than the safety net
    replies,    \* replies[t]: what the session history shows for t
    \* Node B
    worker,     \* worker[t]: B's execution of t
    tries,      \* tries[t]: failed attempts to report t
    stored,     \* the result store: what query_task_result answers
    crashA, crashB,
    \* History
    first,      \* first[t]: the first outcome A learned in this process run
    struck,     \* tasks whose row was settled, but not their reply, when A crashed
    closed      \* tasks whose continuation ended without a reply

vars == <<request, row, snap, bus, cont, inbound, poll, expired, replies, worker, tries, stored,
          crashA, crashB, first, struck, closed>>

-------------------------------------------------------------------------------
\* What A can learn of a task.
Outcome == {"result", "not found", "timed out"}

NoSnap == [kind |-> "none", home |-> FALSE, slot |-> "", final |-> FALSE]
Snap   == [kind : {"none", "snapshot"}, home : BOOLEAN, slot : Outcome \cup {""}, final : BOOLEAN]

Idle     == [at |-> "idle", outcome |-> ""]
IdlePoll == [at |-> "idle", work |-> {}, task |-> "", outcome |-> ""]

\* The turn of t is still on its way to the snapshot that knows its session.
Dispatching(t) == request[t] \in {"calling", "acked", "registered"}

Init ==
    /\ request = [t \in Task |-> "none"]
    /\ row = [t \in Task |-> "absent"]
    /\ snap = [t \in Task |-> NoSnap]
    /\ bus = [t \in Task |-> <<>>]
    /\ cont = [t \in Task |-> Idle]
    /\ inbound = [t \in Task |-> "idle"]
    /\ poll = IdlePoll
    /\ expired = {}
    /\ replies = [t \in Task |-> <<>>]
    /\ worker = [t \in Task |-> "none"]
    /\ tries = [t \in Task |-> 0]
    /\ stored = [t \in Task |-> "none"]
    /\ crashA = 0 /\ crashB = 0
    /\ first = [t \in Task |-> ""]
    /\ struck = {} /\ closed = {}

-------------------------------------------------------------------------------
(* A: dispatching.                                                         *)

\* The placeholder snapshot is written before the request leaves.
Dispatch(t) ==
    /\ request[t] = "none"
    /\ request' = [request EXCEPT ![t] = "calling"]
    /\ snap' = [snap EXCEPT ![t] = [NoSnap EXCEPT !.kind = "snapshot"]]
    /\ UNCHANGED <<row, bus, cont, inbound, poll, expired, replies, worker, tries, stored,
                   crashA, crashB, first, struck, closed>>

\* B takes the request: placeholder "running", row and queue entry.  A may have
\* given up on the call or crashed since it left.
Accept(t) ==
    /\ request[t] \in {"calling", "lost", "crashed"} /\ worker[t] = "none"
    /\ worker' = [worker EXCEPT ![t] = "working"]
    /\ stored' = [stored EXCEPT ![t] = "running"]
    /\ UNCHANGED <<request, row, snap, bus, cont, inbound, poll, expired, replies, tries,
                   crashA, crashB, first, struck, closed>>

\* B is offline or refuses: the task does not exist, the placeholder goes.
Refused(t) ==
    /\ request[t] = "calling" /\ worker[t] = "none"
    /\ request' = [request EXCEPT ![t] = "refused"]
    /\ snap' = [snap EXCEPT ![t] = NoSnap]
    /\ UNCHANGED <<row, bus, cont, inbound, poll, expired, replies, worker, tries, stored,
                   crashA, crashB, first, struck, closed>>

\* Any other failure of the request: the placeholder stays, the turn goes on
\* without the task.
RequestLost(t) ==
    /\ request[t] = "calling"
    /\ request' = [request EXCEPT ![t] = "lost"]
    /\ UNCHANGED <<row, snap, bus, cont, inbound, poll, expired, replies, worker, tries, stored,
                   crashA, crashB, first, struck, closed>>

Acknowledged(t) ==
    /\ request[t] = "calling" /\ worker[t] # "none"
    /\ request' = [request EXCEPT ![t] = "acked"]
    /\ UNCHANGED <<row, snap, bus, cont, inbound, poll, expired, replies, worker, tries, stored,
                   crashA, crashB, first, struck, closed>>

\* The row is only registered after the acknowledgement.
Register(t) ==
    /\ request[t] = "acked"
    /\ request' = [request EXCEPT ![t] = "registered"]
    /\ row' = IF row[t] = "absent" THEN [row EXCEPT ![t] = "Pending"] ELSE row
    /\ UNCHANGED <<snap, bus, cont, inbound, poll, expired, replies, worker, tries, stored,
                   crashA, crashB, first, struck, closed>>

\* The turn replaces the placeholder by the snapshot that knows the session.
SaveSnapshot(t) ==
    /\ request[t] = "registered"
    /\ request' = [request EXCEPT ![t] = "saved"]
    /\ snap' = [snap EXCEPT ![t] = [kind |-> "snapshot", home |-> TRUE, slot |-> "", final |-> FALSE]]
    /\ UNCHANGED <<row, bus, cont, inbound, poll, expired, replies, worker, tries, stored,
                   crashA, crashB, first, struck, closed>>

-------------------------------------------------------------------------------
(* A: what both paths do with an outcome.                                  *)

\* The conditional update of TaskManager: the first outcome stays.
Settle(t, outcome) ==
    row' = IF row[t] = "Pending"
           THEN [row EXCEPT ![t] = IF outcome = "result" THEN "Completed" ELSE "Failed"]
           ELSE row

Publish(t, outcome) ==
    /\ bus' = [bus EXCEPT ![t] = Append(@, outcome)]
    /\ first' = [first EXCEPT ![t] = IF @ = "" THEN outcome ELSE @]

-------------------------------------------------------------------------------
(* B: executing and reporting.                                             *)

Execute(t) ==
    /\ worker[t] = "working"
    /\ worker' = [worker EXCEPT ![t] = "reporting"]
    /\ tries' = [tries EXCEPT ![t] = 0]
    /\ UNCHANGED <<request, row, snap, bus, cont, inbound, poll, expired, replies, stored,
                   crashA, crashB, first, struck, closed>>

\* A serves peer_chat_callback: first it publishes the continuation ...
CallbackPublish(t) ==
    /\ worker[t] = "reporting" /\ inbound[t] = "idle"
    /\ Publish(t, "result")
    /\ inbound' = [inbound EXCEPT ![t] = "settle"]
    /\ UNCHANGED <<request, row, snap, cont, poll, expired, replies, worker, tries, stored,
                   crashA, crashB, struck, closed>>

\* ... then it settles the row and answers, if B is still on the line.
CallbackSettle(t) ==
    /\ inbound[t] \in {"settle", "orphan"}
    /\ Settle(t, "result")
    /\ inbound' = [inbound EXCEPT ![t] = IF @ = "settle" THEN "answer" ELSE "idle"]
    /\ UNCHANGED <<request, snap, bus, cont, poll, expired, replies, worker, tries, stored,
                   crashA, crashB, first, struck, closed>>

\* The answer arrives: B forgets the task.
CallbackAnswered(t) ==
    /\ inbound[t] = "answer"
    /\ inbound' = [inbound EXCEPT ![t] = "idle"]
    /\ worker' = [worker EXCEPT ![t] = "done"]
    /\ stored' = [stored EXCEPT ![t] = "none"]
    /\ UNCHANGED <<request, row, snap, bus, cont, poll, expired, replies, tries, crashA, crashB,
                   first, struck, closed>>

\* After the last attempt the result is kept on disk.
KeepResult(t) ==
    /\ worker' = [worker EXCEPT ![t] = "done"]
    /\ stored' = [stored EXCEPT ![t] = "done"]

\* An attempt fails: A is not reached, or its answer is lost.
CallbackFails(t) ==
    /\ worker[t] = "reporting" /\ inbound[t] \in {"idle", "answer"}
    /\ inbound' = [inbound EXCEPT ![t] = "idle"]
    /\ tries' = [tries EXCEPT ![t] = @ + 1]
    /\ IF tries[t] + 1 < MaxTries THEN UNCHANGED <<worker, stored>> ELSE KeepResult(t)
    /\ UNCHANGED <<request, row, snap, bus, cont, poll, expired, replies, crashA, crashB, first,
                   struck, closed>>

-------------------------------------------------------------------------------
(* A: poll_stale_pending_tasks.                                            *)

PollTick ==
    /\ poll.at = "idle" /\ poll.work = {}
    /\ \E t \in Task : row[t] = "Pending"
    /\ poll' = [poll EXCEPT !.work = {t \in Task : row[t] = "Pending"}]
    /\ UNCHANGED <<request, row, snap, bus, cont, inbound, expired, replies, worker, tries, stored,
                   crashA, crashB, first, struck, closed>>

PollNext(t, at, outcome) ==
    poll' = [poll EXCEPT !.at = at, !.work = @ \ {t}, !.task = t, !.outcome = outcome]

\* One task of the list: past the safety net it is timed out, else B is asked.
\* "running" and a failed query leave the task for the next tick.
PollVisit(t) ==
    /\ poll.at = "idle" /\ t \in poll.work
    /\ \/ t \in expired /\ PollNext(t, "settle", "timed out")
       \/ t \notin expired /\ stored[t] = "done" /\ PollNext(t, "settle", "result")
       \/ t \notin expired /\ stored[t] = "none" /\ PollNext(t, "settle", "not found")
       \/ t \notin expired /\ stored[t] = "running" /\ poll' = [poll EXCEPT !.work = @ \ {t}]
    /\ UNCHANGED <<request, row, snap, bus, cont, inbound, expired, replies, worker, tries, stored,
                   crashA, crashB, first, struck, closed>>

PollQueryLost(t) ==
    /\ poll.at = "idle" /\ t \in poll.work \ expired
    /\ poll' = [poll EXCEPT !.work = @ \ {t}]
    /\ UNCHANGED <<request, row, snap, bus, cont, inbound, expired, replies, worker, tries, stored,
                   crashA, crashB, first, struck, closed>>

\* A plausible bug: B's copy is confirmed, and so deleted, before it is recorded.
PollSettleConfirming ==
    LET t == poll.task IN
    /\ poll.at = "settle"
    /\ stored' = IF poll.outcome = "result" /\ stored[t] = "done"
                 THEN [stored EXCEPT ![t] = "none"] ELSE stored
    /\ poll' = [poll EXCEPT !.at = "publish"]
    /\ UNCHANGED <<request, row, snap, bus, cont, inbound, expired, replies, worker, tries,
                   crashA, crashB, first, struck, closed>>

PollSettle ==
    /\ poll.at = "settle"
    /\ Settle(poll.task, poll.outcome)
    /\ poll' = [poll EXCEPT !.at = "publish"]
    /\ UNCHANGED <<request, snap, bus, cont, inbound, expired, replies, worker, tries, stored,
                   crashA, crashB, first, struck, closed>>

\* A plausible bug: a timed-out or unknown task is failed, but the agent is not
\* told (the state of the code before CD2).
PollPublishOnlyResults ==
    /\ poll.at = "publish"
    /\ IF poll.outcome = "result" THEN Publish(poll.task, poll.outcome) ELSE UNCHANGED <<bus, first>>
    /\ poll' = [poll EXCEPT !.at = IF poll.outcome = "result" THEN "confirm" ELSE "idle"]
    /\ UNCHANGED <<request, row, snap, cont, inbound, expired, replies, worker, tries, stored,
                   crashA, crashB, struck, closed>>

\* The agent is told whether or not the row was still open.
PollPublish ==
    /\ poll.at = "publish"
    /\ Publish(poll.task, poll.outcome)
    /\ poll' = [poll EXCEPT !.at = IF poll.outcome = "result" THEN "confirm" ELSE "idle"]
    /\ UNCHANGED <<request, row, snap, cont, inbound, expired, replies, worker, tries, stored,
                   crashA, crashB, struck, closed>>

\* confirm_delivery_with: best effort.
PollConfirm(reached) ==
    LET t == poll.task IN
    /\ poll.at = "confirm"
    /\ stored' = IF reached THEN [stored EXCEPT ![t] = "none"] ELSE stored
    /\ poll' = [poll EXCEPT !.at = "idle"]
    /\ UNCHANGED <<request, row, snap, bus, cont, inbound, expired, replies, worker, tries,
                   crashA, crashB, first, struck, closed>>

-------------------------------------------------------------------------------
(* A: the continuation, as Continuation models it in detail.               *)

\* A continuation is taken from the bus; it is dropped if the task is being
\* handled or has no snapshot, and only cleaned up if its reply is persisted.
TakeContinuation(t) ==
    /\ bus[t] # <<>> /\ ~Dispatching(t)
    /\ bus' = [bus EXCEPT ![t] = Tail(@)]
    /\ cont' = IF cont[t].at # "idle" \/ snap[t].kind = "none" THEN cont
               ELSE [cont EXCEPT ![t] = [at |-> IF snap[t].final THEN "finish" ELSE "merge",
                                         outcome |-> Head(bus[t])]]
    /\ UNCHANGED <<request, row, snap, inbound, poll, expired, replies, worker, tries, stored,
                   crashA, crashB, first, struck, closed>>

\* A plausible bug: the newest outcome always wins.
MergedNewest(t) == cont[t].outcome

\* merge_real_tool_result keeps an outcome that is already there.
Merged(t) == IF snap[t].slot = "" THEN cont[t].outcome ELSE snap[t].slot

Merge(t) ==
    /\ cont[t].at = "merge"
    /\ snap' = [snap EXCEPT ![t].slot = Merged(t)]
    /\ cont' = [cont EXCEPT ![t] = [at |-> "reply", outcome |-> Merged(t)]]
    /\ UNCHANGED <<request, row, bus, inbound, poll, expired, replies, worker, tries, stored,
                   crashA, crashB, first, struck, closed>>

\* The model answers: the reply is persisted and the snapshot marked (one step
\* here).  Without a session, or without an answer, there is no reply.
Reply(t) ==
    /\ cont[t].at = "reply"
    /\ \/ /\ snap[t].home
          /\ replies' = [replies EXCEPT ![t] = Append(@, cont[t].outcome)]
          /\ snap' = [snap EXCEPT ![t].final = TRUE]
          /\ UNCHANGED closed
       \/ /\ closed' = closed \cup {t}
          /\ UNCHANGED <<replies, snap>>
    /\ cont' = [cont EXCEPT ![t].at = "finish"]
    /\ UNCHANGED <<request, row, bus, inbound, poll, expired, worker, tries, stored, crashA,
                   crashB, first, struck>>

Finish(t) ==
    /\ cont[t].at = "finish"
    /\ snap' = [snap EXCEPT ![t] = NoSnap]
    /\ cont' = [cont EXCEPT ![t] = Idle]
    /\ UNCHANGED <<request, row, bus, inbound, poll, expired, replies, worker, tries, stored,
                   crashA, crashB, first, struck, closed>>

-------------------------------------------------------------------------------
(* The environment.                                                        *)

\* The task is older than stale_task_safety_net.
Expire(t) ==
    /\ row[t] = "Pending" /\ t \notin expired
    /\ expired' = expired \cup {t}
    /\ UNCHANGED <<request, row, snap, bus, cont, inbound, poll, replies, worker, tries, stored,
                   crashA, crashB, first, struck, closed>>

\* A plausible bug: the rows of recovered snapshots are not registered again.
RebuiltNothing(rows, files) == rows

\* first_start: a snapshot without a row is registered as Pending; one whose row
\* exists is skipped.
Rebuilt(rows, files) ==
    [t \in Task |-> IF files[t].kind = "snapshot" /\ rows[t] = "absent" THEN "Pending" ELSE rows[t]]

\* A restarts: tasks.db, the snapshots and the session history survive.
RestartA ==
    /\ crashA < MaxCrashA
    /\ crashA' = crashA + 1
    /\ row' = Rebuilt(row, snap)
    /\ request' = [t \in Task |-> IF Dispatching(t) THEN "crashed" ELSE request[t]]
    /\ bus' = [t \in Task |-> <<>>]
    /\ cont' = [t \in Task |-> Idle]
    /\ inbound' = [t \in Task |-> "idle"]
    /\ poll' = IdlePoll
    /\ first' = [t \in Task |-> snap[t].slot]
    /\ struck' = struck \cup {t \in Task : row[t] \in {"Completed", "Failed"}
                                           /\ snap[t].kind = "snapshot" /\ ~snap[t].final}
    /\ UNCHANGED <<snap, expired, replies, worker, tries, stored, crashB, closed>>

\* B restarts: kept results survive, placeholders do not, and a task is executed
\* again exactly if it was in tasks.json (see ClusterWorker).
RestartB ==
    /\ crashB < MaxCrashB
    /\ crashB' = crashB + 1
    /\ \E again \in SUBSET {t \in Task : worker[t] \in {"working", "reporting"}} :
          worker' = [t \in Task |-> CASE t \in again -> "working"
                                      [] worker[t] = "none" -> "none"
                                      [] OTHER -> "done"]
    /\ stored' = [t \in Task |-> IF stored[t] = "running" THEN "none" ELSE stored[t]]
    /\ inbound' = [t \in Task |-> CASE inbound[t] = "settle" -> "orphan"
                                     [] inbound[t] = "answer" -> "idle"
                                     [] OTHER -> inbound[t]]
    /\ UNCHANGED <<request, row, snap, bus, cont, poll, expired, replies, tries, crashA,
                   first, struck, closed>>

-------------------------------------------------------------------------------
TurnStep(t) == Refused(t) \/ RequestLost(t) \/ Acknowledged(t) \/ Register(t) \/ SaveSnapshot(t)

WorkerStep(t) == Execute(t) \/ CallbackPublish(t) \/ CallbackAnswered(t) \/ CallbackFails(t)

PollStep ==
    \/ PollTick
    \/ \E t \in Task : PollVisit(t)
    \/ PollSettle
    \/ PollPublish
    \/ \E reached \in BOOLEAN : PollConfirm(reached)

ContStep(t) == TakeContinuation(t) \/ Merge(t) \/ Reply(t) \/ Finish(t)

Next ==
    \/ \E t \in Task :
          \/ Dispatch(t) \/ Accept(t) \/ TurnStep(t)
          \/ WorkerStep(t) \/ CallbackSettle(t)
          \/ PollQueryLost(t) \/ ContStep(t) \/ Expire(t)
    \/ PollStep
    \/ RestartA
    \/ RestartB

Spec == Init /\ [][Next]_vars

\* Turns, the agent of B, the poll and the continuations keep running, RPCs end
\* by their timeouts, and time passes.  No query of the poll and no callback
\* need ever get through: the safety net is what ends a task then.
Fairness ==
    /\ \A t \in Task :
          /\ WF_vars(TurnStep(t)) /\ WF_vars(WorkerStep(t)) /\ WF_vars(CallbackSettle(t))
          /\ WF_vars(ContStep(t)) /\ WF_vars(Expire(t))
    /\ WF_vars(PollTick)
    /\ WF_vars(\E t \in Task : PollVisit(t) \/ PollQueryLost(t))
    /\ WF_vars(PollSettle \/ PollPublish \/ \E reached \in BOOLEAN : PollConfirm(reached))

FairSpec == Spec /\ Fairness

-------------------------------------------------------------------------------
(* Properties.                                                             *)

\* Every variable has its type, and a handler at work has its snapshot.
TypeOK ==
    /\ request \in [Task -> {"none", "calling", "acked", "registered", "saved", "lost", "refused", "crashed"}]
    /\ row \in [Task -> {"absent", "Pending", "Completed", "Failed"}]
    /\ snap \in [Task -> Snap]
    /\ bus \in [Task -> Seq(Outcome)]
    /\ cont \in [Task -> [at : {"idle", "merge", "reply", "finish"}, outcome : Outcome \cup {""}]]
    /\ inbound \in [Task -> {"idle", "settle", "answer", "orphan"}]
    /\ poll \in [at : {"idle", "settle", "publish", "confirm"}, work : SUBSET Task,
                 task : Task \cup {""}, outcome : Outcome \cup {""}]
    /\ replies \in [Task -> Seq(Outcome)]
    /\ worker \in [Task -> {"none", "working", "reporting", "done"}]
    /\ stored \in [Task -> {"none", "running", "done"}]
    /\ tries \in [Task -> 0..MaxTries]
    /\ crashA \in 0..MaxCrashA /\ crashB \in 0..MaxCrashB
    /\ first \in [Task -> Outcome \cup {""}]
    /\ expired \subseteq Task /\ struck \subseteq Task /\ closed \subseteq Task
    /\ \A t \in Task : cont[t].at # "idle" => snap[t].kind = "snapshot"

\* The user sees one reply, and it is built on the outcome A learned first, by
\* callback or by poll: a late "not found" does not replace a result that a
\* crash interrupted, nor does a late result contradict a reply.
FirstLearnedIsShown ==
    \A t \in Task :
        /\ Len(replies[t]) <= 1
        /\ cont[t].at \in {"reply", "finish"} /\ replies[t] # <<>> => replies[t] = <<snap[t].slot>>
        /\ snap[t].slot # "" => snap[t].slot = first[t]

\* B gives up a kept result only when A's row is settled on disk: the poll
\* confirms after complete_callback.
KeptUntilRecorded ==
    [][\A t \in Task : stored[t] = "done" /\ stored'[t] = "none"
            => row[t] \in {"Completed", "Failed"}]_vars

\* Whatever is lost and wherever B crashes, a conversation that was saved is
\* resumed, unless the model had no answer or A crashed in the window between
\* settling the row and finishing the reply.
RepliedUnlessStruck ==
    \A t \in Task :
        (request[t] = "saved") ~> (replies[t] # <<>> \/ t \in closed \cup struck)

\* A dispatch that A's crash cut off leaves no snapshot behind: first_start
\* registers it, so that the poll settles it and the handler reclaims the file.
CutDispatchIsReclaimed ==
    \A t \in Task : (request[t] = "crashed") ~> (snap[t].kind = "none" \/ t \in struck)

===============================================================================
