------------------------------ MODULE TaskManager ------------------------------
(***************************************************************************)
(* The life of a cluster task on the node that dispatched it               *)
(* (crates/nemesis-cluster/src/task_manager.rs): RPC handler threads and   *)
(* the recovery poll settle tasks concurrently, a background loop deletes  *)
(* old ones and times out the ones nobody answered, an operator deletes    *)
(* tasks, and the process may be restarted at any point.                   *)
(*                                                                         *)
(* The store is either the process's memory or tasks.db (Durable).  Every  *)
(* store operation is one critical section and so one step; a call that    *)
(* makes several of them is several steps, which other threads interleave. *)
(***************************************************************************)
EXTENDS Naturals, Sequences

CONSTANTS Task,        \* task ids: fresh UUIDs, so at most one creation per process run
          Caller,      \* threads that report a result (RPC handlers, recovery poll)
          Result,      \* what they report
          Durable,     \* TRUE: SqliteTaskStore, FALSE: InMemoryTaskStore
          MaxRestart   \* bound on the number of restarts

\* The cleanup loop settles tasks too: it is one more thread.
CleanupLoop == "cleanup"
Thread == Caller \cup {CleanupLoop}

ASSUME CallerAssumption == CleanupLoop \notin Caller
ASSUME DurableAssumption == Durable \in BOOLEAN
ASSUME MaxRestartAssumption == MaxRestart \in Nat

VARIABLES
    store,      \* the task table
    expired,    \* expired[t]: t was created longer than pending_timeout ago
    aged,       \* aged[t]: t was settled more than two hours ago
    callback,   \* an on_complete callback is installed
    loop,       \* the cleanup loop: its callback, phase and worklist
    call,       \* call[h]: how far thread h is in settling a task
    seen,       \* the ids created or loaded since the process started
    restarts,   \* how often the process was restarted
    \* History: what the outside has observed of the task's current row.
    outcome,    \* the outcome the store settled t with
    heard,      \* heard[t]: the outcomes the callback was given for t
    told        \* told[t]: the statuses for which a settle call returned true

vars == <<store, expired, aged, callback, loop, call, seen, restarts, outcome, heard, told>>

-------------------------------------------------------------------------------
Terminal == {"Completed", "Failed", "Cancelled"}
Open     == {"Pending", "Running"}
Status   == Open \cup Terminal

TimedOut  == "timed out"
Null      == "null"
Unsettled == [status |-> "Pending", result |-> Null]

AnyResult == Result \cup {TimedOut, Null}
Row       == [status : Status \cup {"Absent"}, result : AnyResult, stamped : BOOLEAN]
Outcome   == [status : Terminal, result : AnyResult]

Absent     == [status |-> "Absent", result |-> Null, stamped |-> FALSE]
PendingRow == [status |-> "Pending", result |-> Null, stamped |-> FALSE]

Present(t) == store[t].status # "Absent"

\* The part of a row that a callback looks at.
OutcomeOf(row) == [status |-> row.status, result |-> row.result]

IdleCall == [at |-> "idle", task |-> "", status |-> "Pending", got |-> Unsettled]
Call     == [at : {"idle", "won", "fire", "lost"}, task : Task \cup {""},
             status : Status, got : Outcome \cup {Unsettled}]

Won(t, status)  == [at |-> "won", task |-> t, status |-> status, got |-> Unsettled]
Lost(t, status) == [at |-> "lost", task |-> t, status |-> status, got |-> Unsettled]
Read(k, row)    == [at |-> "fire", task |-> k.task, status |-> k.status, got |-> OutcomeOf(row)]

\* A plausible bug: only Pending tasks are timed out.
PhasesWithoutRunning == <<"Completed", "Failed", "Cancelled", "Pending", "Pending">>

\* Phase i of a cleanup pass works on the tasks listed with status Phases[i].
Phases == <<"Completed", "Failed", "Cancelled", "Pending", "Running">>

LoopOff  == [on |-> FALSE, callback |-> FALSE, phase |-> 0, work |-> {}]
Loop     == [on : BOOLEAN, callback : BOOLEAN, phase : 0..5, work : SUBSET Task]

Init ==
    /\ store = [t \in Task |-> Absent]
    /\ expired = [t \in Task |-> FALSE]
    /\ aged = [t \in Task |-> FALSE]
    /\ callback = FALSE
    /\ loop = LoopOff
    /\ call = [h \in Thread |-> IdleCall]
    /\ seen = {}
    /\ restarts = 0
    /\ outcome = [t \in Task |-> Unsettled]
    /\ heard = [t \in Task |-> <<>>]
    /\ told = [t \in Task |-> {}]

-------------------------------------------------------------------------------
(* The task store.                                                         *)

\* update_result_if_status when its condition holds: the row is rewritten and
\* a terminal status stamps completed_at.
Updated(t, status, result) ==
    [store EXCEPT ![t] = [status  |-> status, result |-> result,
                          stamped |-> @.stamped \/ status \in Terminal]]

\* A plausible bug: get, check and update as the trait's fallback does them, with
\* the check already stale when the update is made.
UpdateResultUnchecked(t, expected, status, result) ==
    /\ Present(t)
    /\ store' = Updated(t, status, result)

\* The conditional update: one critical section, so exactly one of several
\* concurrent calls finds an expected status.
UpdateResultIfStatus(t, expected, status, result) ==
    /\ store[t].status \in expected
    /\ store' = Updated(t, status, result)

Create(t) ==
    /\ ~Present(t)
    /\ store' = [store EXCEPT ![t] = PendingRow]

-------------------------------------------------------------------------------
(* The operations.                                                         *)

\* submit / create_task_with_peer; a second creation of an id is refused.
Submit(t) ==
    /\ t \notin seen
    /\ Create(t)
    /\ seen' = seen \cup {t}
    /\ expired' = [expired EXCEPT ![t] = FALSE]
    /\ aged' = [aged EXCEPT ![t] = FALSE]
    /\ outcome' = [outcome EXCEPT ![t] = Unsettled]
    /\ heard' = [heard EXCEPT ![t] = <<>>]
    /\ told' = [told EXCEPT ![t] = {}]
    /\ UNCHANGED <<callback, loop, call, restarts>>

AssignTask(t) ==
    /\ UpdateResultIfStatus(t, {"Pending"}, "Running", Null)
    /\ UNCHANGED <<expired, aged, callback, loop, call, seen, restarts, outcome, heard, told>>

\* settle_task, first step: the conditional update.  The winner goes on to
\* read the row back; a call that finds the task settled goes on to compare.
\* A call for an unknown task returns false and changes nothing.
SettleTask(c, t, status, result) ==
    /\ call[c].at = "idle"
    /\ \/ /\ UpdateResultIfStatus(t, Open, status, result)
          /\ outcome' = [outcome EXCEPT ![t] = [status |-> status, result |-> result]]
          /\ call' = [call EXCEPT ![c] = Won(t, status)]
       \/ /\ store[t].status \in Terminal
          /\ call' = [call EXCEPT ![c] = Lost(t, status)]
          /\ UNCHANGED <<store, outcome>>
    /\ UNCHANGED <<expired, aged, callback, loop, seen, restarts, heard, told>>

\* complete_callback: an "error" report fails the task, any other completes it.
CompleteCallback(c, t, reported, result) ==
    SettleTask(c, t, IF reported = "error" THEN "Failed" ELSE "Completed", result)

\* settle_task, second step of the winner: store.get.  If the row is already
\* gone the call returns true without a callback.
ReadBack(c) ==
    LET t == call[c].task IN
    /\ call[c].at = "won"
    /\ \/ /\ Present(t)
          /\ call' = [call EXCEPT ![c] = Read(@, store[t])]
          /\ UNCHANGED told
       \/ /\ ~Present(t)
          /\ call' = [call EXCEPT ![c] = IdleCall]
          /\ told' = [told EXCEPT ![t] = @ \cup {call[c].status}]
    /\ UNCHANGED <<store, expired, aged, callback, loop, seen, restarts, outcome, heard>>

\* settle_task, last step of the winner: fire_callback, then return true.
FireCallback(c) ==
    LET t == call[c].task IN
    /\ call[c].at = "fire"
    /\ heard' = IF callback THEN [heard EXCEPT ![t] = Append(@, call[c].got)] ELSE heard
    /\ told' = [told EXCEPT ![t] = @ \cup {call[c].status}]
    /\ call' = [call EXCEPT ![c] = IdleCall]
    /\ UNCHANGED <<store, expired, aged, callback, loop, seen, restarts, outcome>>

\* A plausible bug: a repeated settle is reported as a success of its own.
CompareLostAlwaysTrue(c) ==
    LET t == call[c].task IN
    /\ call[c].at = "lost"
    /\ told' = [told EXCEPT ![t] = @ \cup {call[c].status}]
    /\ call' = [call EXCEPT ![c] = IdleCall]
    /\ UNCHANGED <<store, expired, aged, callback, loop, seen, restarts, outcome, heard>>

\* A plausible bug: a repeated settle fires the callback again.
CompareLostFires(c) ==
    LET t == call[c].task IN
    /\ call[c].at = "lost"
    /\ heard' = [heard EXCEPT ![t] = Append(@, outcome[t])]
    /\ call' = [call EXCEPT ![c] = IdleCall]
    /\ UNCHANGED <<store, expired, aged, callback, loop, seen, restarts, outcome, told>>

\* settle_task after Ok(false): true if the task is already in the wanted
\* state (the first result is kept), false if it is in another or gone.
CompareLost(c) ==
    LET t == call[c].task IN
    /\ call[c].at = "lost"
    /\ told' = IF store[t].status = call[c].status
               THEN [told EXCEPT ![t] = @ \cup {call[c].status}] ELSE told
    /\ call' = [call EXCEPT ![c] = IdleCall]
    /\ UNCHANGED <<store, expired, aged, callback, loop, seen, restarts, outcome, heard>>

\* delete_task, the dashboard's "cancel".
DeleteTask(t) ==
    /\ Present(t)
    /\ store' = [store EXCEPT ![t] = Absent]
    /\ UNCHANGED <<expired, aged, callback, loop, call, seen, restarts, outcome, heard, told>>

SetCallback ==
    /\ ~callback
    /\ callback' = TRUE
    /\ UNCHANGED <<store, expired, aged, loop, call, seen, restarts, outcome, heard, told>>

-------------------------------------------------------------------------------
(* The background loop: cleanup_completed on every tick.                   *)

\* start: the loop keeps the callback installed at this moment.
StartLoop ==
    /\ ~loop.on
    /\ loop' = [LoopOff EXCEPT !.on = TRUE, !.callback = callback]
    /\ UNCHANGED <<store, expired, aged, callback, call, seen, restarts, outcome, heard, told>>

\* stop: the stop signal is only read between two passes.
StopLoop ==
    /\ loop.on /\ loop.phase = 0
    /\ loop' = LoopOff
    /\ UNCHANGED <<store, expired, aged, callback, call, seen, restarts, outcome, heard, told>>

\* list_by_status for the next phase; after the last one the pass is over.
ListPhase ==
    /\ loop.on /\ loop.work = {} /\ call[CleanupLoop].at = "idle"
    /\ loop' = IF loop.phase = 5 THEN [loop EXCEPT !.phase = 0]
               ELSE [loop EXCEPT !.phase = @ + 1,
                                 !.work = {t \in Task : store[t].status = Phases[loop.phase + 1]}]
    /\ UNCHANGED <<store, expired, aged, callback, call, seen, restarts, outcome, heard, told>>

\* Phases 1 to 3: delete a task that was settled more than two hours ago.
VisitSettled(t) ==
    /\ loop.phase \in 1..3 /\ t \in loop.work
    /\ loop' = [loop EXCEPT !.work = @ \ {t}]
    /\ store' = IF aged[t] THEN [store EXCEPT ![t] = Absent] ELSE store
    /\ UNCHANGED <<expired, aged, callback, call, seen, restarts, outcome, heard, told>>

\* A plausible bug: the loop fires whether or not its update took effect.
VisitOpenIgnoringResult(t) ==
    /\ loop.phase \in 4..5 /\ t \in loop.work /\ call[CleanupLoop].at = "idle"
    /\ expired[t]
    /\ IF store[t].status = Phases[loop.phase]
       THEN /\ store' = Updated(t, "Failed", TimedOut)
            /\ outcome' = [outcome EXCEPT ![t] = [status |-> "Failed", result |-> TimedOut]]
       ELSE UNCHANGED <<store, outcome>>
    /\ call' = [call EXCEPT ![CleanupLoop] = Won(t, "Failed")]
    /\ loop' = [loop EXCEPT !.work = @ \ {t}]
    /\ UNCHANGED <<expired, aged, callback, seen, restarts, heard, told>>

\* Phases 4 and 5: fail a task that waited too long, unless it has left the
\* listed status since.  Only the step that really failed it goes on to fire.
VisitOpen(t) ==
    /\ loop.phase \in 4..5 /\ t \in loop.work /\ call[CleanupLoop].at = "idle"
    /\ \/ /\ expired[t]
          /\ UpdateResultIfStatus(t, {Phases[loop.phase]}, "Failed", TimedOut)
          /\ outcome' = [outcome EXCEPT ![t] = [status |-> "Failed", result |-> TimedOut]]
          /\ call' = [call EXCEPT ![CleanupLoop] = Won(t, "Failed")]
       \/ /\ ~expired[t] \/ store[t].status # Phases[loop.phase]
          /\ UNCHANGED <<store, outcome, call>>
    /\ loop' = [loop EXCEPT !.work = @ \ {t}]
    /\ UNCHANGED <<expired, aged, callback, seen, restarts, heard, told>>

\* A plausible bug: a timeout is recorded but announced to nobody.
LoopReadBackSilently ==
    /\ call[CleanupLoop].at = "won"
    /\ call' = [call EXCEPT ![CleanupLoop] = IdleCall]
    /\ UNCHANGED <<store, expired, aged, callback, loop, seen, restarts, outcome, heard, told>>

\* The timed-out task is read back, if the loop has a callback to give it to.
LoopReadBack ==
    LET t == call[CleanupLoop].task IN
    /\ call[CleanupLoop].at = "won"
    /\ call' = [call EXCEPT ![CleanupLoop] =
                    IF loop.callback /\ Present(t) THEN Read(@, store[t]) ELSE IdleCall]
    /\ UNCHANGED <<store, expired, aged, callback, loop, seen, restarts, outcome, heard, told>>

LoopFire ==
    LET t == call[CleanupLoop].task IN
    /\ call[CleanupLoop].at = "fire"
    /\ heard' = [heard EXCEPT ![t] = Append(@, call[CleanupLoop].got)]
    /\ call' = [call EXCEPT ![CleanupLoop] = IdleCall]
    /\ UNCHANGED <<store, expired, aged, callback, loop, seen, restarts, outcome, told>>

-------------------------------------------------------------------------------
(* The environment.                                                        *)

\* A task passes its pending timeout.
Expire(t) ==
    /\ Present(t) /\ ~expired[t]
    /\ expired' = [expired EXCEPT ![t] = TRUE]
    /\ UNCHANGED <<store, aged, callback, loop, call, seen, restarts, outcome, heard, told>>

\* Two hours pass after completed_at.
Age(t) ==
    /\ store[t].stamped /\ ~aged[t]
    /\ aged' = [aged EXCEPT ![t] = TRUE]
    /\ UNCHANGED <<store, expired, callback, loop, call, seen, restarts, outcome, heard, told>>

\* The process ends between any two steps and is started again.  Threads, the
\* loop and the installed callback are gone; tasks.db survives.  first_start may
\* register an id again only if the store has no row for it.
Restart ==
    /\ restarts < MaxRestart
    /\ restarts' = restarts + 1
    /\ store' = IF Durable THEN store ELSE [t \in Task |-> Absent]
    /\ callback' = FALSE
    /\ loop' = LoopOff
    /\ call' = [h \in Thread |-> IdleCall]
    /\ seen' = {t \in Task : store'[t].status # "Absent"}
    /\ UNCHANGED <<expired, aged, outcome, heard, told>>

-------------------------------------------------------------------------------
CallerStep(c) ==
    \/ ReadBack(c)
    \/ FireCallback(c)
    \/ CompareLost(c)

LoopStep ==
    \/ ListPhase
    \/ \E t \in Task : VisitSettled(t) \/ VisitOpen(t)
    \/ LoopReadBack
    \/ LoopFire

Next ==
    \/ \E t \in Task :
          \/ Submit(t)
          \/ AssignTask(t)
          \/ DeleteTask(t)
          \/ Expire(t)
          \/ Age(t)
          \/ \E c \in Caller, reported \in {"success", "error"}, r \in Result :
                CompleteCallback(c, t, reported, r)
    \/ \E c \in Caller : CallerStep(c)
    \/ LoopStep
    \/ SetCallback
    \/ StartLoop
    \/ StopLoop
    \/ Restart

Spec == Init /\ [][Next]_vars

\* Threads run, time passes, and the loop is ticked while it is on.
Fairness ==
    /\ \A c \in Caller : WF_vars(CallerStep(c))
    /\ WF_vars(LoopStep)
    /\ \A t \in Task : WF_vars(Expire(t)) /\ WF_vars(Age(t))

FairSpec == Spec /\ Fairness

-------------------------------------------------------------------------------
(* Properties.                                                             *)

\* Every variable has its type; a row carries completed_at exactly when its
\* status is terminal (update_result stamps terminal rows only).
TypeOK ==
    /\ store \in [Task -> Row]
    /\ \A t \in Task : store[t].stamped <=> store[t].status \in Terminal
    /\ expired \in [Task -> BOOLEAN]
    /\ aged \in [Task -> BOOLEAN]
    /\ callback \in BOOLEAN
    /\ loop \in Loop
    /\ call \in [Thread -> Call]
    /\ seen \subseteq Task
    /\ restarts \in Nat
    /\ outcome \in [Task -> Outcome \cup {Unsettled}]
    /\ heard \in [Task -> Seq(Outcome)]
    /\ told \in [Task -> SUBSET Terminal]

\* However many handler threads, polls and timeouts settle a task, the callback
\* of settle_task and of cleanup_completed hears of it at most once, and hears
\* the outcome that the store settled it with: no duplicate continuation.
HeardOnce ==
    \A t \in Task : heard[t] \in {<<>>, <<outcome[t]>>}

\* No two calls of settle_task are told that they succeeded with different
\* final states of one task, whatever was interleaved between their steps.
AnswersAgree ==
    \A t \in Task : told[t] \subseteq {outcome[t].status}

\* A settled row never changes again; it can only be deleted.  The late answer,
\* the timeout and the re-assignment of settle_task, cleanup_completed and
\* assign_task all lose against the first outcome.
SettledIsFinal ==
    [][\A t \in Task : store[t].status \in Terminal => store'[t] \in {store[t], Absent}]_vars

\* The manager implements SettleOnce: opened, settled once, announced once.
SO == INSTANCE SettleOnce WITH live <- [t \in Task |-> Present(t)]
SettlesOnce == SO!Spec

\* While the cleanup loop stays on, no task stays Pending or Running: it is
\* answered, timed out by cleanup_completed, or deleted.
EveryTaskIsSettled ==
    <>[](loop.on) =>
        \A t \in Task : (store[t].status \in Open) ~> (store[t].status \notin Open)

\* If the callback is installed before the loop is started and before the first
\* task is submitted, and the process is not restarted, every settled task that
\* is not deleted meanwhile is announced.
SettledIsHeard ==
    [](restarts = 0) /\ [](loop.on => loop.callback) /\ [](seen # {} => callback) =>
        \A t \in Task : (store[t].status \in Terminal) ~> (heard[t] # <<>> \/ ~Present(t))
===============================================================================
