----------------------------- MODULE ClusterWorker -----------------------------
(***************************************************************************)
(* The node that executes a delegated task: the peer_chat handler, the     *)
(* task list and work queue (crates/nemesis-cluster/src/cluster_task.rs)   *)
(* and the agent loop that consumes them (nemesisbot/src/cluster_agent.rs).*)
(* The agent may delegate part of a task to a third node and is then       *)
(* resumed by that child's callback.  The RPC server runs each connection   *)
(* in a task of its own, so that repeated callbacks of one child overlap;  *)
(* RPC threads also cancel tasks, a timer sweeps terminal rows, and the    *)
(* process may crash.                                                      *)
(*                                                                         *)
(* Each access to the concurrent map is one step.  The index tasks.json is *)
(* written in two: the map is read, then the file is replaced.             *)
(***************************************************************************)
EXTENDS Naturals, Sequences, FiniteSets, SequencesExt

CONSTANTS Task,       \* ids of tasks that other nodes send
          Evidence,   \* the ones that carry the evidence marker: priority lane
          Child,      \* ids of tasks that the agent delegates in turn
          Rpc,        \* the threads that serve peer_chat_callback at a time
          Capacity,   \* length of each lane of the work queue
          MaxTries,   \* MAX_CALLBACK_RETRIES
          MaxBack,    \* bound on the callbacks of one child
          MaxCrash    \* bound on the number of crashes

ASSUME EvidenceAssumption == Evidence \subseteq Task
ASSUME TaskAssumption == IsFiniteSet(Task) /\ "" \notin Task \cup Child
ASSUME RpcAssumption == Rpc \cap {"agent", "sweep", "handler"} = {}
ASSUME BoundAssumption == /\ Capacity \in Nat \ {0} /\ MaxTries \in Nat \ {0}
                          /\ MaxBack \in Nat /\ MaxCrash \in Nat

VARIABLES
    tasks,       \* ClusterTaskList.tasks
    disk,        \* tasks.json
    normal,      \* the normal lane
    prio,        \* the priority lane
    registered,  \* running_tokens: the tasks with a cancellation token
    result,      \* the result store: what query_task_result answers
    handler,     \* the task that the thread of peer_chat is registering, or ""
    agent,       \* the agent loop
    rpc,         \* rpc[r]: what thread r of peer_chat_callback is doing
    canceller,   \* the thread of task_cancel
    sweep,       \* the rows that the running sweep has listed
    writing,     \* writing[w]: what thread w is about to write to tasks.json
    back,        \* back[c]: how often child c has called back
    parent,      \* parent[c]: the task that delegated c, or ""
    crashes,
    \* History
    accepted,    \* tasks that were acknowledged as accepted
    received,    \* tasks whose request arrived
    heard,       \* tasks whose outcome the sender has received
    answer,      \* answer[t]: what the last cancellation of t was answered
    injected,    \* injected[c]: injections of c's result in this process run
    strayed,     \* children whose first callback found no waiting parent
    dropped,     \* tasks that should have been queued but found the lane full
    overlapped,  \* children that two threads were about to inject at once
    forgotten    \* tasks whose row was removed while they are said to run

state   == <<tasks, disk, normal, prio, registered, result, handler, agent, rpc, canceller,
             sweep, writing, back, parent, crashes>>
history == <<accepted, received, heard, answer, injected, strayed, dropped, overlapped,
             forgotten>>
vars    == <<state, history>>

-------------------------------------------------------------------------------
Status   == {"Pending", "Running", "WaitingRemote", "Failed", "Cancelled"}
Terminal == {"Failed", "Cancelled"}     \* Completed is never stored
Writer   == {"agent", "sweep", "handler"} \cup Rpc
AgentStage == {"idle", "select", "got", "mark", "start", "run", "ran", "callback", "complete",
               "persist"}

\* A row: conv and result say whether a conversation and a callback result are
\* saved, waiting names the child whose callback is expected.
Absent == [status |-> "Absent", conv |-> FALSE, waiting |-> "", result |-> FALSE]
Fresh  == [Absent EXCEPT !.status = "Pending"]
Row    == [status : Status \cup {"Absent"}, conv : BOOLEAN, waiting : Child \cup {""},
           result : BOOLEAN]

\* The agent loop's task and the locals of its run; an image of the index.
AgentType  == [at : AgentStage, task : Task \cup {""}, resumes : BOOLEAN,
               child : Child \cup {""}, cancelled : BOOLEAN,
               outcome : {"", "finished", "cancelled"}, tries : 0..MaxTries]
RpcType    == [at : {"idle", "inject", "submit"}, task : Task \cup {""}, child : Child \cup {""}]
WriterType == [at : {"none", "due", "held"}, image : [Task -> Row]]

Present(t) == tasks[t].status # "Absent"

NoRows     == [t \in Task |-> Absent]
NotWriting == [at |-> "none", image |-> NoRows]
IdleAgent  == [at |-> "idle", task |-> "", resumes |-> FALSE, child |-> "",
               cancelled |-> FALSE, outcome |-> "", tries |-> 0]
IdleThread == [at |-> "idle", task |-> "", child |-> ""]

Init ==
    /\ tasks = NoRows
    /\ disk = NoRows
    /\ normal = <<>> /\ prio = <<>>
    /\ registered = {}
    /\ result = [t \in Task |-> "none"]
    /\ handler = ""
    /\ agent = IdleAgent
    /\ rpc = [r \in Rpc |-> IdleThread]
    /\ canceller = [task |-> "", saw |-> ""]
    /\ sweep = {}
    /\ writing = [w \in Writer |-> NotWriting]
    /\ back = [c \in Child |-> 0]
    /\ parent = [c \in Child |-> ""]
    /\ crashes = 0
    /\ accepted = {} /\ received = {} /\ heard = {}
    /\ answer = [t \in Task |-> ""]
    /\ injected = [c \in Child |-> 0]
    /\ strayed = {} /\ dropped = {} /\ overlapped = {} /\ forgotten = {}

-------------------------------------------------------------------------------
(* Persistence of the task index.                                          *)

\* persist_to_disk keeps the rows that are not terminal.
Active(rows) == [t \in Task |-> IF rows[t].status \in Terminal THEN Absent ELSE rows[t]]

StartWriting(w) == writing' = [writing EXCEPT ![w].at = "due"]

ReadIndex(w) ==
    /\ writing[w].at = "due"
    /\ writing' = [writing EXCEPT ![w] = [at |-> "held", image |-> Active(tasks)]]
    /\ UNCHANGED <<tasks, disk, normal, prio, registered, result, handler, agent, rpc, canceller,
                   sweep, back, parent, crashes, history>>

WriteIndex(w) ==
    /\ writing[w].at = "held"
    /\ disk' = writing[w].image
    /\ writing' = [writing EXCEPT ![w] = NotWriting]
    /\ UNCHANGED <<tasks, normal, prio, registered, result, handler, agent, rpc, canceller, sweep,
                   back, parent, crashes, history>>

-------------------------------------------------------------------------------
(* PeerChatHandler::handle.                                                *)

\* The placeholder and the row are made first, in memory only.
Handle(t) ==
    /\ handler = "" /\ t \notin received /\ writing["handler"].at = "none"
    /\ handler' = t
    /\ received' = received \cup {t}
    /\ tasks' = [tasks EXCEPT ![t] = Fresh]
    /\ result' = [result EXCEPT ![t] = "running"]
    /\ UNCHANGED <<disk, normal, prio, registered, agent, rpc, canceller, sweep, writing, back,
                   parent, crashes, accepted, heard, answer, injected, strayed, dropped,
                   overlapped, forgotten>>

\* submit or submit_priority, neither of which blocks.
Enqueue(t) ==
    /\ Len(IF t \in Evidence THEN prio ELSE normal) < Capacity
    /\ IF t \in Evidence THEN prio' = Append(prio, t) /\ UNCHANGED normal
                         ELSE normal' = Append(normal, t) /\ UNCHANGED prio
    /\ accepted' = accepted \cup {t}
    /\ UNCHANGED <<tasks, result, writing>>

\* A plausible bug: a refused task keeps its "running" placeholder.
RefuseKeepingPlaceholder(t) ==
    /\ Len(IF t \in Evidence THEN prio ELSE normal) >= Capacity
    /\ tasks' = [tasks EXCEPT ![t] = Absent]
    /\ StartWriting("handler")
    /\ UNCHANGED <<normal, prio, result, accepted>>

\* The lane is full: the placeholder and the row are taken back, the row by
\* complete_task, which writes the index.
Refuse(t) ==
    /\ Len(IF t \in Evidence THEN prio ELSE normal) >= Capacity
    /\ result' = [result EXCEPT ![t] = "none"]
    /\ tasks' = [tasks EXCEPT ![t] = Absent]
    /\ StartWriting("handler")
    /\ UNCHANGED <<normal, prio, accepted>>

Acknowledge ==
    /\ handler # ""
    /\ Enqueue(handler) \/ Refuse(handler)
    /\ handler' = ""
    /\ UNCHANGED <<disk, registered, agent, rpc, canceller, sweep, back, parent, crashes,
                   received, heard, answer, injected, strayed, dropped, overlapped,
                   forgotten>>

-------------------------------------------------------------------------------
(* cluster_agent_loop.                                                     *)

AgentAt(at) == agent' = [agent EXCEPT !.at = at]

Take(t) == agent' = [IdleAgent EXCEPT !.at = "got", !.task = t]

\* ClusterWorkQueue::next looks at the priority lane first ...
PollPriority ==
    /\ agent.at = "idle"
    /\ IF prio # <<>> THEN Take(Head(prio)) /\ prio' = Tail(prio)
                      ELSE AgentAt("select") /\ UNCHANGED prio
    /\ UNCHANGED <<tasks, disk, normal, registered, result, rpc, handler, canceller, sweep,
                   writing, back, parent, crashes, history>>

\* ... and then waits for whichever lane has something.
Select ==
    /\ agent.at = "select"
    /\ \/ /\ prio # <<>> /\ Take(Head(prio)) /\ prio' = Tail(prio)
          /\ UNCHANGED normal
       \/ /\ normal # <<>> /\ Take(Head(normal)) /\ normal' = Tail(normal)
          /\ UNCHANGED prio
    /\ UNCHANGED <<tasks, disk, registered, result, rpc, handler, canceller, sweep, writing, back,
                   parent, crashes, history>>

\* update_status: nothing happens if the row is gone.
UpdateStatus(t, status) ==
    tasks' = IF Present(t) THEN [tasks EXCEPT ![t].status = status] ELSE tasks

Report(outcome) ==
    agent' = [agent EXCEPT !.at = "callback", !.outcome = outcome, !.tries = 0]

\* get_task: skip a missing row, report a cancelled one, go on with any other.
GetTask ==
    LET t == agent.task IN
    /\ agent.at = "got"
    /\ \/ /\ ~Present(t)
          /\ agent' = IdleAgent
          /\ UNCHANGED tasks
       \/ /\ tasks[t].status = "Cancelled"
          /\ UpdateStatus(t, "Failed")
          /\ Report("cancelled")
       \/ /\ Present(t) /\ tasks[t].status # "Cancelled"
          /\ agent' = [agent EXCEPT !.at = "mark", !.resumes = tasks[t].conv /\ tasks[t].result]
          /\ UNCHANGED tasks
    /\ UNCHANGED <<disk, normal, prio, registered, result, rpc, handler, canceller, sweep,
                   writing, back, parent, crashes, accepted, received, heard, answer, injected,
                   strayed, dropped, overlapped, forgotten>>

\* The row becomes Running, whatever it is by now; notify_task_started follows.
MarkRunning ==
    /\ agent.at = "mark"
    /\ UpdateStatus(agent.task, "Running")
    /\ AgentAt("start")
    /\ UNCHANGED <<disk, normal, prio, registered, result, rpc, handler, canceller, sweep,
                   writing, back, parent, crashes, history>>

\* execute_new_task and resume_task: the token is registered, the model runs.
StartRun ==
    /\ agent.at = "start"
    /\ AgentAt("run")
    /\ registered' = registered \cup {agent.task}
    /\ UNCHANGED <<tasks, disk, normal, prio, result, rpc, handler, canceller, sweep, writing,
                   back, parent, crashes, history>>

\* session_budget_rejection, which only a new task has to pass.
RejectOverBudget ==
    /\ agent.at = "start" /\ ~agent.resumes
    /\ Report("finished")
    /\ UNCHANGED <<tasks, disk, normal, prio, registered, result, rpc, handler, canceller, sweep,
                   writing, back, parent, crashes, accepted, received, heard, answer, injected,
                   strayed, dropped, overlapped, forgotten>>

\* A tool call delegates to a third node; the run ends with the marker __ASYNC__.
Delegate(c) ==
    /\ agent.at = "run" /\ agent.child = "" /\ ~agent.cancelled
    /\ parent[c] = ""
    /\ parent' = [parent EXCEPT ![c] = agent.task]
    /\ agent' = [agent EXCEPT !.child = c]
    /\ UNCHANGED <<tasks, disk, normal, prio, registered, result, rpc, handler, canceller, sweep,
                   writing, back, crashes, history>>

EndRun ==
    /\ agent.at = "run"
    /\ AgentAt("ran")
    /\ registered' = registered \ {agent.task}
    /\ UNCHANGED <<tasks, disk, normal, prio, result, rpc, handler, canceller, sweep, writing,
                   back, parent, crashes, history>>

\* save_async_state: only if the row is still there, but the index is written
\* in any case.
SaveAsyncState ==
    LET t == agent.task IN
    /\ agent.at = "ran" /\ ~agent.cancelled /\ agent.child # ""
    /\ tasks' = IF ~Present(t) THEN tasks
                ELSE [tasks EXCEPT ![t] = [status |-> "WaitingRemote", conv |-> TRUE,
                                           waiting |-> agent.child, result |-> FALSE]]
    /\ AgentAt("persist")
    /\ StartWriting("agent")
    /\ UNCHANGED <<disk, normal, prio, registered, result, rpc, handler, canceller, sweep, back,
                   parent, crashes, history>>

\* The run was interrupted by its token, or has come to an answer or an error.
Conclude ==
    /\ agent.at = "ran" /\ (agent.cancelled \/ agent.child = "")
    /\ Report(IF agent.cancelled THEN "cancelled" ELSE "finished")
    /\ UNCHANGED <<tasks, disk, normal, prio, registered, result, rpc, handler, canceller, sweep,
                   writing, back, parent, crashes, accepted, received, heard, answer, injected,
                   strayed, dropped, overlapped, forgotten>>

\* send_callback: an attempt that is answered ends it; the result is cleared.
CallbackAnswered ==
    LET t == agent.task IN
    /\ agent.at = "callback"
    /\ AgentAt("complete")
    /\ heard' = heard \cup {t}
    /\ result' = [result EXCEPT ![t] = "none"]
    /\ UNCHANGED <<tasks, disk, normal, prio, registered, rpc, handler, canceller, sweep, writing,
                   back, parent, crashes, accepted, received, answer, injected, strayed,
                   dropped, overlapped, forgotten>>

\* A plausible bug: the result is only sent, never kept for the recovery poll.
CallbackFailsForgetting(reached) ==
    LET t == agent.task IN
    /\ agent.at = "callback"
    /\ heard' = IF reached THEN heard \cup {t} ELSE heard
    /\ IF agent.tries + 1 < MaxTries
       THEN agent' = [agent EXCEPT !.tries = @ + 1]
       ELSE AgentAt("complete")
    /\ UNCHANGED <<tasks, disk, normal, prio, registered, result, rpc, handler, canceller, sweep,
                   writing, back, parent, crashes, accepted, received, answer, injected,
                   strayed, dropped, overlapped, forgotten>>

\* An attempt times out, perhaps after the sender has received it.  After the
\* last one the result is kept for query_task_result.
CallbackFails(reached) ==
    LET t == agent.task IN
    /\ agent.at = "callback"
    /\ heard' = IF reached THEN heard \cup {t} ELSE heard
    /\ IF agent.tries + 1 < MaxTries
       THEN /\ agent' = [agent EXCEPT !.tries = @ + 1]
            /\ UNCHANGED result
       ELSE /\ AgentAt("complete")
            /\ result' = [result EXCEPT ![t] = "done"]
    /\ UNCHANGED <<tasks, disk, normal, prio, registered, rpc, handler, canceller, sweep, writing,
                   back, parent, crashes, accepted, received, answer, injected, strayed,
                   dropped, overlapped, forgotten>>

CompleteTask ==
    /\ agent.at = "complete"
    /\ tasks' = [tasks EXCEPT ![agent.task] = Absent]
    /\ AgentAt("persist")
    /\ StartWriting("agent")
    /\ UNCHANGED <<disk, normal, prio, registered, result, rpc, handler, canceller, sweep, back,
                   parent, crashes, history>>

EndTask ==
    /\ agent.at = "persist" /\ writing["agent"].at = "none"
    /\ agent' = IdleAgent
    /\ UNCHANGED <<tasks, disk, normal, prio, registered, result, rpc, handler, canceller, sweep,
                   writing, back, parent, crashes, history>>

-------------------------------------------------------------------------------
(* peer_chat_callback, as far as it concerns the agent's children.         *)

\* find_by_child_task_id.  Without a waiting parent the callback goes to the
\* main agent.
FindParent(r, c) ==
    /\ rpc[r].at = "idle" /\ parent[c] # "" /\ back[c] < MaxBack
    /\ back' = [back EXCEPT ![c] = @ + 1]
    /\ \/ \E t \in Task :
             /\ tasks[t].waiting = c
             /\ rpc' = [rpc EXCEPT ![r] = [at |-> "inject", task |-> t, child |-> c]]
             /\ overlapped' = IF \E q \in Rpc : rpc[q].at = "inject" /\ rpc[q].child = c
                              THEN overlapped \cup {c} ELSE overlapped
             /\ UNCHANGED strayed
       \/ /\ \A t \in Task : tasks[t].waiting # c
          /\ strayed' = IF back[c] = 0 THEN strayed \cup {c} ELSE strayed
          /\ UNCHANGED <<rpc, overlapped>>
    /\ UNCHANGED <<tasks, disk, normal, prio, registered, result, handler, agent, canceller,
                   sweep, writing, parent, crashes, accepted, received, heard, answer,
                   injected, dropped, forgotten>>

\* A plausible bug: the cancellation is checked before the row is locked, and
\* not again when it is written.
InjectUnchecked(t) ==
    tasks' = IF Present(t)
             THEN [tasks EXCEPT ![t] = [status |-> "Pending", conv |-> tasks[t].conv,
                                        waiting |-> "", result |-> TRUE]]
             ELSE tasks

\* A plausible bug: the parent goes on waiting for a child that has called back.
InjectStillWaiting(t) ==
    tasks' = IF tasks[t].status = "Cancelled" THEN [tasks EXCEPT ![t] = Absent]
             ELSE IF Present(t)
             THEN [tasks EXCEPT ![t].status = "Pending", ![t].result = TRUE]
             ELSE tasks

\* Under the row's lock: a cancelled task is removed, any other gets the result,
\* whichever child it waits for by now.
Inject(t) ==
    tasks' = IF tasks[t].status = "Cancelled" THEN [tasks EXCEPT ![t] = Absent]
             ELSE IF Present(t)
             THEN [tasks EXCEPT ![t] = [status |-> "Pending", conv |-> tasks[t].conv,
                                        waiting |-> "", result |-> TRUE]]
             ELSE tasks

\* Removing the row of a task leaves its placeholder in the result store.
Forget(t) == forgotten' = IF result[t] = "running" THEN forgotten \cup {t} ELSE forgotten

InjectCallback(r) ==
    LET t == rpc[r].task
        c == rpc[r].child IN
    /\ rpc[r].at = "inject"
    /\ Inject(t)
    /\ IF tasks[t].status = "Cancelled" THEN Forget(t) ELSE UNCHANGED forgotten
    /\ injected' = IF Present(t) /\ tasks[t].status # "Cancelled"
                   THEN [injected EXCEPT ![c] = @ + 1] ELSE injected
    /\ rpc' = [rpc EXCEPT ![r].at = "submit"]
    /\ StartWriting(r)
    /\ UNCHANGED <<disk, normal, prio, registered, result, handler, agent, canceller, sweep, back,
                   parent, crashes, accepted, received, heard, answer, strayed, dropped,
                   overlapped>>

\* A plausible bug: the resumed parent is not put into the queue.
SubmitNothing(t) == UNCHANGED <<normal, dropped>>

\* ClusterWorkQueue::submit never blocks; its failure is only logged.
Submit(t) ==
    IF Len(normal) < Capacity
    THEN normal' = Append(normal, t) /\ UNCHANGED dropped
    ELSE dropped' = dropped \cup {t} /\ UNCHANGED normal

SubmitParent(r) ==
    /\ rpc[r].at = "submit" /\ writing[r].at = "none"
    /\ Submit(rpc[r].task)
    /\ rpc' = [rpc EXCEPT ![r] = IdleThread]
    /\ UNCHANGED <<tasks, disk, prio, registered, result, handler, agent, canceller, sweep,
                   writing, back, parent, crashes, accepted, received, heard, answer,
                   injected, strayed, overlapped, forgotten>>

-------------------------------------------------------------------------------
(* task_cancel, the sweep, confirm_task_delivery.                          *)

\* cancel_task reads the status (of each task at most once, to bound the model) ...
CancelRead(t) ==
    /\ canceller.task = "" /\ answer[t] = ""
    /\ tasks[t].status \in {"Pending", "WaitingRemote", "Running"}
    /\ canceller' = [task |-> t, saw |-> tasks[t].status]
    /\ UNCHANGED <<tasks, disk, normal, prio, registered, result, handler, agent, rpc, sweep,
                   writing, back, parent, crashes, history>>

\* ... and acts on what it read.
CancelWrite ==
    LET t == canceller.task
        running == canceller.saw = "Running" IN
    /\ t # ""
    /\ UpdateStatus(t, "Cancelled")
    /\ IF running /\ t \in registered
       THEN /\ registered' = registered \ {t}
            /\ agent' = [agent EXCEPT !.cancelled = TRUE]
       ELSE UNCHANGED <<registered, agent>>
    /\ answer' = [answer EXCEPT ![t] = IF running THEN "running" ELSE "queued"]
    /\ canceller' = [task |-> "", saw |-> ""]
    /\ UNCHANGED <<disk, normal, prio, result, rpc, handler, sweep, writing, back, parent,
                   crashes, accepted, received, heard, injected, strayed, dropped, overlapped,
                   forgotten>>

\* remove_terminal_tasks lists the terminal rows and then removes each of them.
SweepList ==
    /\ sweep = {}
    /\ sweep' = {t \in Task : tasks[t].status \in Terminal}
    /\ sweep' # {}
    /\ UNCHANGED <<tasks, disk, normal, prio, registered, result, handler, agent, rpc, canceller,
                   writing, back, parent, crashes, history>>

SweepRemove(t) ==
    /\ t \in sweep /\ writing["sweep"].at = "none"
    /\ sweep' = sweep \ {t}
    /\ tasks' = [tasks EXCEPT ![t] = Absent]
    /\ IF Present(t) THEN Forget(t) ELSE UNCHANGED forgotten
    /\ StartWriting("sweep")
    /\ UNCHANGED <<disk, normal, prio, registered, result, handler, agent, rpc, canceller, back,
                   parent, crashes, accepted, received, heard, answer, injected, strayed,
                   dropped, overlapped>>

\* The sender's poll found the kept result and confirms that it has it.
ConfirmDelivery(t) ==
    /\ result[t] = "done"
    /\ result' = [result EXCEPT ![t] = "none"]
    /\ heard' = heard \cup {t}
    /\ UNCHANGED <<tasks, disk, normal, prio, registered, agent, rpc, handler, canceller, sweep,
                   writing, back, parent, crashes, accepted, received, answer, injected,
                   strayed, dropped, overlapped, forgotten>>

-------------------------------------------------------------------------------
(* Restart.                                                                *)

\* restore_from_disk and recover_task_ids: Pending and WaitingRemote rows come
\* back, all as Pending.
Recovered(rows) ==
    [t \in Task |-> IF rows[t].status \in {"Pending", "WaitingRemote"}
                    THEN [rows[t] EXCEPT !.status = "Pending"] ELSE Absent]

\* load_from_disk drops the placeholders of tasks that were running.
Crash ==
    /\ crashes < MaxCrash
    /\ crashes' = crashes + 1
    /\ tasks' = Recovered(disk)
    /\ LET ids == {t \in Task : tasks'[t].status = "Pending"} IN
         /\ disk' = IF ids = {} THEN disk ELSE tasks'
         /\ \E order \in SetToSeqs(ids) :
               /\ normal' = SubSeq(order, 1, IF Len(order) < Capacity THEN Len(order) ELSE Capacity)
               /\ dropped' = ids \ ToSet(normal')
    /\ prio' = <<>>
    /\ registered' = {}
    /\ result' = [t \in Task |-> IF result[t] = "running" THEN "none" ELSE result[t]]
    /\ handler' = ""
    /\ agent' = IdleAgent
    /\ rpc' = [r \in Rpc |-> IdleThread]
    /\ canceller' = [task |-> "", saw |-> ""]
    /\ sweep' = {}
    /\ writing' = [w \in Writer |-> NotWriting]
    /\ injected' = [c \in Child |-> 0]
    /\ UNCHANGED <<back, parent, accepted, received, heard, answer, strayed, overlapped,
                   forgotten>>

-------------------------------------------------------------------------------
AgentStep ==
    \/ PollPriority
    \/ Select
    \/ GetTask
    \/ MarkRunning
    \/ StartRun
    \/ RejectOverBudget
    \/ \E c \in Child : Delegate(c)
    \/ EndRun
    \/ SaveAsyncState
    \/ Conclude
    \/ CallbackAnswered
    \/ \E reached \in BOOLEAN : CallbackFails(reached)
    \/ CompleteTask
    \/ EndTask

WriterStep(w) == ReadIndex(w) \/ WriteIndex(w)

RpcStep(r) == InjectCallback(r) \/ SubmitParent(r)

SweepStep == SweepList \/ \E t \in Task : SweepRemove(t)

Next ==
    \/ \E t \in Task : Handle(t) \/ CancelRead(t) \/ ConfirmDelivery(t)
    \/ Acknowledge
    \/ AgentStep
    \/ \E w \in Writer : WriterStep(w)
    \/ \E r \in Rpc : RpcStep(r) \/ \E c \in Child : FindParent(r, c)
    \/ CancelWrite
    \/ SweepStep
    \/ Crash

Spec == Init /\ [][Next]_vars

\* Threads run on, model runs end (the agent's iterations are bounded), the
\* sweep ticks, and a child that was delegated is reported by its node.
Fairness ==
    /\ WF_vars(Acknowledge)
    /\ WF_vars(AgentStep)
    /\ \A w \in Writer : WF_vars(WriterStep(w))
    /\ \A r \in Rpc : WF_vars(RpcStep(r))
    /\ WF_vars(CancelWrite)
    /\ WF_vars(SweepStep)
    /\ \A c \in Child : WF_vars(back[c] = 0 /\ \E r \in Rpc : FindParent(r, c))

FairSpec == Spec /\ Fairness

-------------------------------------------------------------------------------
(* Properties.                                                             *)

Queued(t) == t \in ToSet(normal) \cup ToSet(prio)

\* Every variable has its type, a lane never exceeds its capacity, and only the
\* task in execution has a cancellation token.
TypeOK ==
    /\ tasks \in [Task -> Row]
    /\ disk \in [Task -> Row]
    /\ normal \in Seq(Task) /\ Len(normal) <= Capacity
    /\ prio \in Seq(Task) /\ Len(prio) <= Capacity
    /\ registered \subseteq {agent.task}
    /\ result \in [Task -> {"none", "running", "done"}]
    /\ handler \in Task \cup {""}
    /\ agent \in AgentType
    /\ rpc \in [Rpc -> RpcType]
    /\ canceller \in [task : Task \cup {""}, saw : Status \cup {""}]
    /\ sweep \subseteq Task
    /\ writing \in [Writer -> WriterType]
    /\ back \in [Child -> 0..MaxBack]
    /\ parent \in [Child -> Task \cup {""}]
    /\ crashes \in 0..MaxCrash
    /\ accepted \subseteq Task /\ received \subseteq Task /\ heard \subseteq Task
    /\ answer \in [Task -> {"", "running", "queued"}]
    /\ injected \in [Child -> Nat]
    /\ strayed \subseteq Child /\ dropped \subseteq Task
    /\ overlapped \subseteq Child /\ forgotten \subseteq Task

\* No ghost: a Pending row is queued, in the hands of the agent or about to be
\* submitted by the thread that made it, unless its lane was full; nothing else
\* would ever execute it (create_task, inject_callback, recover_task_ids).
PendingIsQueued ==
    \A t \in Task :
        tasks[t].status = "Pending" =>
            \/ Queued(t)
            \/ agent.task = t /\ agent.at \in {"got", "mark"}
            \/ t = handler \/ \E r \in Rpc : rpc[r].task = t
            \/ t \in dropped

\* While the process lives, an accepted task leaves the list only when its
\* sender has the outcome or can poll for it (send_callback_or_persist before
\* complete_task), or as a cancelled one that is removed outside the agent loop.
OutcomeIsKept ==
    crashes = 0 =>
        \A t \in accepted : Present(t) \/ t \in heard \/ result[t] = "done" \/ t \in forgotten

\* query_task_result answers "running" only for a task that is in the list: no
\* placeholder keeps the sender's poll waiting for nothing, but the ones of
\* cancelled tasks whose row the sweep or a late callback has removed.
RunningIsHonest ==
    \A t \in Task :
        /\ result[t] = "running" => Present(t) \/ t \in forgotten
        /\ t \in forgotten => answer[t] # ""

\* The result of one child is injected at most once: a repeated callback does
\* not resume the parent again, unless it had looked for the parent before the
\* earlier one was injected (inject_callback does not check what it waits for).
InjectedOnce ==
    \A c \in Child : injected[c] <= 1 \/ c \in overlapped

\* A late callback never puts a cancelled task back into the queue
\* (inject_callback decides under the row's lock).
CallbackNeverRevives ==
    [][\A t \in Task : tasks[t].status = "Cancelled" /\ crashes' = crashes
            => tasks'[t].status # "Pending"]_vars

\* An accepted task leaves the list, if no child's callback came too early and
\* no lane was full when the task was to be queued again.
EveryTaskEnds ==
    [](strayed = {} /\ dropped = {}) =>
        \A t \in Task : (t \in accepted) ~> ~Present(t)
===============================================================================
