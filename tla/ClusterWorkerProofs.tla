-------------------------- MODULE ClusterWorkerProofs --------------------------
(***************************************************************************)
(* Proofs about ClusterWorker, for every set of tasks, children and RPC    *)
(* threads, every capacity of the lanes and every number of callbacks and  *)
(* crashes: no pending row is forgotten, a child's result is injected once *)
(* but for callbacks that overlap, an accepted task's outcome is kept      *)
(* until its sender has it, and a cancelled task is never revived.         *)
(***************************************************************************)
EXTENDS ClusterWorker, FiniteSetTheorems, TLAPS

-------------------------------------------------------------------------------
(* The inductive invariant, in five parts.                                 *)

\* What holds of every copy of the task list, in memory, on disk or held by a
\* thread that is about to write it: an absent row waits for nothing, a row
\* belongs to a task that was received, and a child has one parent.
Sound(rows, rcvd, par) ==
    \A t \in Task :
        /\ rows[t].status = "Absent" => rows[t].waiting = ""
        /\ rows[t].status # "Absent" => t \in rcvd
        /\ rows[t].waiting \in Child => par[rows[t].waiting] = t

SoundRows ==
    /\ Sound(tasks, received, parent)
    /\ Sound(disk, received, parent)
    /\ \A w \in Writer : Sound(writing[w].image, received, parent)

\* The tasks that some thread or lane holds.
Held(t) == Queued(t) \/ agent.task = t \/ (\E r \in Rpc : rpc[r].task = t)
           \/ tasks[t].waiting # ""

\* Which thread holds a task.  The task that peer_chat is still registering is
\* held by nobody else.
Holders ==
    /\ agent.task = "" <=> agent.at \in {"idle", "select"}
    /\ agent.at # "run" => registered = {}
    /\ \A r \in Rpc : rpc[r].task = "" <=> rpc[r].at = "idle"
    /\ accepted \subseteq received
    /\ handler # "" => handler \in received \ accepted
    /\ \A t \in Task : Held(t) => t \in received /\ t # handler

\* A child that a row waits for, or that the run in progress has delegated, has
\* not been injected, and nothing else waits for it.
Children ==
    /\ \A c \in Child :
          /\ injected[c] # 0 => parent[c] # ""
          /\ agent.child = c /\ agent.at \in {"run", "ran"} =>
                /\ parent[c] = agent.task
                /\ injected[c] = 0
                /\ \A t \in Task : tasks[t].waiting # c
    /\ \A t \in Task : tasks[t].waiting \in Child => injected[tasks[t].waiting] = 0
    /\ agent.at \in {"idle", "select", "got", "mark", "start"} => agent.child = ""

\* A thread that is about to inject a child's result has found the child's
\* parent, after the run that delegated it; another thread that is about to
\* inject the same, or has injected it, has overlapped with it.
Callbacks ==
    \A r \in Rpc :
        rpc[r].at = "inject" =>
            /\ rpc[r].child \in Child
            /\ parent[rpc[r].child] = rpc[r].task
            /\ agent.child = rpc[r].child => agent.at \notin {"run", "ran"}
            /\ injected[rpc[r].child] = 0 \/ rpc[r].child \in overlapped
            /\ \A q \in Rpc : rpc[q].at = "inject" /\ rpc[q].child = rpc[r].child =>
                                 q = r \/ rpc[r].child \in overlapped

\* A row is terminal, is swept or is forgotten only if it was cancelled.  An
\* accepted task is said to run until its callback has left its trace, and
\* what is said to run is in the list or was forgotten.
Traces ==
    /\ \A t \in Task : tasks[t].status \in Terminal \/ t \in sweep \/ t \in forgotten
                         => answer[t] # ""
    /\ \A t \in Task : result[t] = "running" => Present(t) \/ t \in forgotten
    /\ handler # "" => result[handler] = "running"
    /\ agent.at = "complete" =>
          result[agent.task] # "running" /\ (agent.task \in heard \/ result[agent.task] = "done")
    /\ crashes = 0 => \A t \in accepted : t \in heard \/ result[t] \in {"running", "done"}

IInv ==
    /\ TypeOK
    /\ SoundRows
    /\ Holders
    /\ PendingIsQueued
    /\ Children /\ Callbacks /\ InjectedOnce
    /\ Traces

-------------------------------------------------------------------------------
(* Sequences and rows.                                                     *)

\* What appending to a lane does to the set of its tasks.
LEMMA AppendedLane ==
    ASSUME NEW s \in Seq(Task), NEW t \in Task
    PROVE  /\ Append(s, t) \in Seq(Task)
           /\ Len(Append(s, t)) = Len(s) + 1
           /\ ToSet(Append(s, t)) = ToSet(s) \cup {t}
<1>1. Append(s, t) \in Seq(Task) /\ Len(Append(s, t)) = Len(s) + 1
  OBVIOUS
<1>2. \A i \in 1..Len(s) : Append(s, t)[i] = s[i]
  OBVIOUS
<1>3. Append(s, t)[Len(s) + 1] = t
  OBVIOUS
<1>4. DOMAIN s = 1..Len(s) /\ DOMAIN Append(s, t) = 1..(Len(s) + 1) /\ Len(s) \in Nat
  OBVIOUS
<1>5. ToSet(Append(s, t)) \subseteq ToSet(s) \cup {t}
  BY <1>2, <1>3, <1>4 DEF ToSet
<1>6. ToSet(s) \subseteq ToSet(Append(s, t))
  BY <1>2, <1>4 DEF ToSet
<1>7. t \in ToSet(Append(s, t))
  BY <1>3, <1>4 DEF ToSet
<1> QED BY <1>1, <1>5, <1>6, <1>7

\* What taking the head of a lane does to the set of its tasks.
LEMMA PolledLane ==
    ASSUME NEW s \in Seq(Task), s # << >>
    PROVE  /\ Head(s) \in Task /\ Tail(s) \in Seq(Task)
           /\ Len(Tail(s)) <= Len(s)
           /\ ToSet(s) = {Head(s)} \cup ToSet(Tail(s))
<1>1. /\ Head(s) = s[1] /\ Head(s) \in Task /\ Tail(s) \in Seq(Task)
      /\ Len(s) \in Nat \ {0} /\ Len(Tail(s)) = Len(s) - 1
  OBVIOUS
<1>2. \A i \in 1..Len(Tail(s)) : Tail(s)[i] = s[i + 1]
  OBVIOUS
<1>3. DOMAIN s = 1..Len(s) /\ DOMAIN Tail(s) = 1..(Len(s) - 1)
  BY <1>1
<1>4. ToSet(Tail(s)) \subseteq ToSet(s)
  BY <1>1, <1>2, <1>3 DEF ToSet
<1>5. Head(s) \in ToSet(s)
  BY <1>1, <1>3 DEF ToSet
<1>6. ASSUME NEW i \in 1..Len(s), i # 1
      PROVE  s[i] \in ToSet(Tail(s))
  <2>1. i - 1 \in 1..Len(Tail(s)) /\ Tail(s)[i - 1] = s[i]
    BY <1>1, <1>2, <1>6
  <2> QED BY <2>1, <1>1, <1>3 DEF ToSet
<1>7. ToSet(s) \subseteq {Head(s)} \cup ToSet(Tail(s))
  BY <1>1, <1>3, <1>6 DEF ToSet
<1> QED BY <1>1, <1>4, <1>5, <1>7

\* The order in which recovered tasks are queued again is a lane of them.
LEMMA RecoveredLane ==
    ASSUME NEW ids \in SUBSET Task, NEW order \in SetToSeqs(ids)
    PROVE  LET n == IF Len(order) < Capacity THEN Len(order) ELSE Capacity
           IN  SubSeq(order, 1, n) \in Seq(Task) /\ Len(SubSeq(order, 1, n)) <= Capacity
               /\ ToSet(SubSeq(order, 1, n)) \subseteq ids
<1>1. IsFiniteSet(ids)
  BY FS_Subset, TaskAssumption
<1>2. Cardinality(ids) \in Nat
  BY <1>1, FS_CardinalityType
<1>3. order \in [1..Cardinality(ids) -> ids]
  BY DEF SetToSeqs
<1>4. order \in Seq(ids) /\ Len(order) \in Nat
  BY <1>2, <1>3
<1> DEFINE n == IF Len(order) < Capacity THEN Len(order) ELSE Capacity
<1>5. n \in 0..Len(order) /\ n <= Capacity
  BY <1>4, BoundAssumption
<1>6. SubSeq(order, 1, n) \in Seq(ids) /\ Len(SubSeq(order, 1, n)) = n
  BY <1>4, <1>5
<1>7. \A s \in Seq(ids) : s \in Seq(Task) /\ ToSet(s) \subseteq ids
  BY DEF ToSet
<1> QED BY <1>5, <1>6, <1>7

\* A step that gives a row a new status, as update_status does.
LEMMA StatusOfRow ==
    ASSUME TypeOK, NEW t \in Task, NEW s \in Status, UpdateStatus(t, s)
    PROVE  /\ tasks' \in [Task -> Row]
           /\ \A u \in Task : u # t => tasks'[u] = tasks[u]
           /\ tasks'[t].waiting = tasks[t].waiting
           /\ ~Present(t) => tasks'[t] = tasks[t]
           /\ Present(t) => tasks'[t].status = s
<1>1. CASE Present(t)
  <2> DEFINE r == [tasks[t] EXCEPT !.status = s]
  <2>1. tasks[t] \in Row
    BY DEF TypeOK
  <2>2. r \in Row /\ r.status = s /\ r.waiting = tasks[t].waiting
    BY <2>1 DEF Row
  <2>3. tasks' = [tasks EXCEPT ![t] = r]
    BY <1>1 DEF UpdateStatus
  <2> HIDE DEF r
  <2> QED BY <1>1, <2>2, <2>3 DEF TypeOK
<1>2. CASE ~Present(t)
  BY <1>2 DEF UpdateStatus, Present, TypeOK
<1> QED BY <1>1, <1>2

\* A step that replaces a row.
LEMMA NewRow ==
    ASSUME TypeOK, NEW t \in Task, NEW r \in Row, tasks' = [tasks EXCEPT ![t] = r]
    PROVE  tasks' \in [Task -> Row] /\ tasks'[t] = r /\ \A u \in Task : u # t => tasks'[u] = tasks[u]
BY DEF TypeOK

\* The rows that the code makes.
LEMMA MadeRows ==
    /\ Absent \in Row /\ Absent.status = "Absent" /\ Absent.waiting = "" /\ Absent.result = FALSE
    /\ Fresh \in Row /\ Fresh.status = "Pending" /\ Fresh.waiting = "" /\ Fresh.result = FALSE
    /\ NoRows \in [Task -> Row]
BY DEF Absent, Fresh, Row, Status, NoRows

\* The rows that a restart finds: the pending ones and the ones that wait.
LEMMA RecoveredRows ==
    ASSUME NEW rows \in [Task -> Row]
    PROVE  /\ Recovered(rows) \in [Task -> Row]
           /\ \A t \in Task :
                 \/ Recovered(rows)[t] = Absent
                 \/ /\ Recovered(rows)[t].status = "Pending" /\ rows[t].status # "Absent"
                    /\ Recovered(rows)[t].waiting = rows[t].waiting
<1> DEFINE R(t) == IF rows[t].status \in {"Pending", "WaitingRemote"}
                   THEN [rows[t] EXCEPT !.status = "Pending"] ELSE Absent
<1>1. ASSUME NEW t \in Task
      PROVE  /\ R(t) \in Row
             /\ \/ R(t) = Absent
                \/ /\ R(t).status = "Pending" /\ rows[t].status # "Absent"
                   /\ R(t).waiting = rows[t].waiting
  <2>1. rows[t] \in Row
    OBVIOUS
  <2>2. [rows[t] EXCEPT !.status = "Pending"] \in Row
        /\ [rows[t] EXCEPT !.status = "Pending"].status = "Pending"
        /\ [rows[t] EXCEPT !.status = "Pending"].waiting = rows[t].waiting
    BY <2>1 DEF Row, Status
  <2> QED BY <2>2, MadeRows
<1>2. Recovered(rows) = [t \in Task |-> R(t)]
  BY DEF Recovered
<1> HIDE DEF R
<1> QED BY <1>1, <1>2

\* The rows that persist_to_disk keeps.
LEMMA ActiveRows ==
    ASSUME NEW rows \in [Task -> Row]
    PROVE  /\ Active(rows) \in [Task -> Row]
           /\ \A t \in Task : Active(rows)[t] = Absent \/ Active(rows)[t] = rows[t]
BY MadeRows DEF Active

\* What injecting a callback does to the parent's row.
LEMMA Injected ==
    ASSUME TypeOK, NEW t \in Task, Inject(t)
    PROVE  /\ tasks' \in [Task -> Row] /\ \A u \in Task : u # t => tasks'[u] = tasks[u]
           /\ \/ tasks[t].status = "Cancelled" /\ tasks'[t] = Absent
              \/ ~Present(t) /\ tasks'[t] = tasks[t]
              \/ /\ Present(t) /\ tasks[t].status # "Cancelled"
                 /\ tasks'[t].status = "Pending" /\ tasks'[t].waiting = "" /\ tasks'[t].result
<1> DEFINE r == [status |-> "Pending", conv |-> tasks[t].conv, waiting |-> "", result |-> TRUE]
<1>1. tasks[t] \in Row
  BY DEF TypeOK
<1>2. r \in Row /\ r.status = "Pending" /\ r.waiting = "" /\ r.result
  BY <1>1 DEF Row, Status
<1>3. CASE tasks[t].status = "Cancelled"
  BY <1>3, NewRow, MadeRows DEF Inject
<1>4. CASE tasks[t].status # "Cancelled" /\ ~Present(t)
  BY <1>4 DEF Inject, TypeOK
<1>5. CASE tasks[t].status # "Cancelled" /\ Present(t)
  <2>1. tasks' = [tasks EXCEPT ![t] = r]
    BY <1>5 DEF Inject
  <2> HIDE DEF r
  <2> QED BY <1>2, <1>5, <2>1, NewRow
<1> QED BY <1>3, <1>4, <1>5

\* What a thread that begins to write the index changes.
LEMMA WritingStarts ==
    ASSUME TypeOK, NEW w \in Writer, StartWriting(w)
    PROVE  /\ writing' \in [Writer -> WriterType]
           /\ \A v \in Writer : writing'[v].image = writing[v].image
<1> DEFINE r == [writing[w] EXCEPT !.at = "due"]
<1>1. writing[w] \in WriterType
  BY DEF TypeOK
<1>2. r \in WriterType /\ r.image = writing[w].image
  BY <1>1 DEF WriterType
<1>3. writing' = [writing EXCEPT ![w] = r]
  BY DEF StartWriting
<1> HIDE DEF r
<1> QED BY <1>2, <1>3 DEF TypeOK

\* What a thread of peer_chat_callback changes of the threads' records.
LEMMA ThreadUpdates ==
    ASSUME rpc \in [Rpc -> RpcType], NEW r \in Rpc
    PROVE  /\ \A x \in RpcType :
                 rpc' = [rpc EXCEPT ![r] = x] =>
                    /\ rpc' \in [Rpc -> RpcType] /\ rpc'[r] = x
                    /\ \A q \in Rpc : q # r => rpc'[q] = rpc[q]
           /\ rpc' = [rpc EXCEPT ![r].at = "submit"] =>
                 /\ rpc' \in [Rpc -> RpcType] /\ rpc'[r].at = "submit"
                 /\ rpc'[r].task = rpc[r].task /\ rpc'[r].child = rpc[r].child
                 /\ \A q \in Rpc : q # r => rpc'[q] = rpc[q]
<1>1. ASSUME NEW x \in RpcType, rpc' = [rpc EXCEPT ![r] = x]
      PROVE  /\ rpc' \in [Rpc -> RpcType] /\ rpc'[r] = x
             /\ \A q \in Rpc : q # r => rpc'[q] = rpc[q]
  BY <1>1
<1>2. ASSUME rpc' = [rpc EXCEPT ![r].at = "submit"]
      PROVE  /\ rpc' \in [Rpc -> RpcType] /\ rpc'[r].at = "submit"
             /\ rpc'[r].task = rpc[r].task /\ rpc'[r].child = rpc[r].child
             /\ \A q \in Rpc : q # r => rpc'[q] = rpc[q]
  <2> DEFINE x == [rpc[r] EXCEPT !.at = "submit"]
  <2>1. x \in RpcType /\ x.at = "submit" /\ x.task = rpc[r].task /\ x.child = rpc[r].child
    BY DEF RpcType
  <2>2. rpc' = [rpc EXCEPT ![r] = x]
    BY <1>2
  <2> HIDE DEF x
  <2> QED BY <1>1, <2>1, <2>2
<1> QED BY <1>1, <1>2

\* The records that a thread of peer_chat_callback takes on.
LEMMA ThreadRecords ==
    /\ IdleThread \in RpcType /\ IdleThread.at = "idle" /\ IdleThread.task = ""
    /\ \A t \in Task, c \in Child : [at |-> "inject", task |-> t, child |-> c] \in RpcType
BY DEF IdleThread, RpcType

\* What find_by_child_task_id finds.
LEMMA FoundParent ==
    ASSUME TypeOK, NEW r \in Rpc, NEW c \in Child, FindParent(r, c)
    PROVE  /\ rpc' \in [Rpc -> RpcType]
           /\ \A q \in Rpc : q # r => rpc'[q] = rpc[q]
           /\ \/ rpc' = rpc /\ overlapped' = overlapped
              \/ /\ rpc'[r].at = "inject" /\ rpc'[r].child = c
                 /\ rpc'[r].task \in Task /\ tasks[rpc'[r].task].waiting = c
                 /\ overlapped \subseteq overlapped' /\ overlapped' \subseteq Child
                 /\ \A q \in Rpc : rpc[q].at = "inject" /\ rpc[q].child = c => c \in overlapped'
<1>1. rpc \in [Rpc -> RpcType] /\ overlapped \subseteq Child
  BY DEF TypeOK
<1>2. CASE rpc' = rpc /\ overlapped' = overlapped
  BY <1>1, <1>2
<1>3. ASSUME NEW t \in Task, tasks[t].waiting = c,
             rpc' = [rpc EXCEPT ![r] = [at |-> "inject", task |-> t, child |-> c]],
             overlapped' = IF \E q \in Rpc : rpc[q].at = "inject" /\ rpc[q].child = c
                           THEN overlapped \cup {c} ELSE overlapped
      PROVE  /\ rpc' \in [Rpc -> RpcType]
             /\ \A q \in Rpc : q # r => rpc'[q] = rpc[q]
             /\ rpc'[r].at = "inject" /\ rpc'[r].child = c
             /\ rpc'[r].task \in Task /\ tasks[rpc'[r].task].waiting = c
             /\ overlapped \subseteq overlapped' /\ overlapped' \subseteq Child
             /\ \A q \in Rpc : rpc[q].at = "inject" /\ rpc[q].child = c => c \in overlapped'
  <2> DEFINE x == [at |-> "inject", task |-> t, child |-> c]
  <2>1. x \in RpcType /\ x.at = "inject" /\ x.task = t /\ x.child = c
    BY DEF RpcType
  <2>2. rpc' = [rpc EXCEPT ![r] = x]
    BY <1>3
  <2> HIDE DEF x
  <2>3. /\ rpc' \in [Rpc -> RpcType] /\ rpc'[r] = x
        /\ \A q \in Rpc : q # r => rpc'[q] = rpc[q]
    BY <1>1, <2>1, <2>2, ThreadUpdates
  <2>4. /\ overlapped \subseteq overlapped' /\ overlapped' \subseteq Child
        /\ \A q \in Rpc : rpc[q].at = "inject" /\ rpc[q].child = c => c \in overlapped'
    BY <1>1, <1>3
  <2> QED BY <1>3, <2>1, <2>3, <2>4
<1> QED BY <1>2, <1>3 DEF FindParent

\* A thread that has injected a result goes on to submit the parent.
LEMMA InjectedThread ==
    ASSUME TypeOK, NEW r \in Rpc, InjectCallback(r)
    PROVE  /\ rpc' \in [Rpc -> RpcType] /\ rpc'[r].at = "submit"
           /\ rpc'[r].task = rpc[r].task
           /\ \A q \in Rpc : q # r => rpc'[q] = rpc[q]
<1>1. rpc \in [Rpc -> RpcType] /\ rpc' = [rpc EXCEPT ![r].at = "submit"]
  BY DEF TypeOK, InjectCallback
<1> QED BY <1>1, ThreadUpdates

\* A thread that has submitted the parent is idle again.
LEMMA SubmittedParent ==
    ASSUME TypeOK, NEW r \in Rpc, SubmitParent(r)
    PROVE  /\ rpc' \in [Rpc -> RpcType] /\ rpc'[r].at = "idle" /\ rpc'[r].task = ""
           /\ \A q \in Rpc : q # r => rpc'[q] = rpc[q]
<1>1. rpc \in [Rpc -> RpcType] /\ rpc' = [rpc EXCEPT ![r] = IdleThread]
  BY DEF TypeOK, SubmitParent
<1> QED BY <1>1, ThreadUpdates, ThreadRecords

-------------------------------------------------------------------------------
(* Type correctness.                                                       *)

\* What the agent's own steps do to its record.
LEMMA AgentUpdates ==
    ASSUME agent \in AgentType
    PROVE  /\ IdleAgent \in AgentType
           /\ \A s \in AgentStage :
                 AgentAt(s) => /\ agent' \in AgentType /\ agent'.at = s
                               /\ agent'.task = agent.task /\ agent'.child = agent.child
           /\ \A t \in Task :
                 Take(t) => /\ agent' \in AgentType /\ agent'.at = "got"
                            /\ agent'.task = t /\ agent'.child = ""
           /\ \A o \in {"finished", "cancelled"} :
                 Report(o) => /\ agent' \in AgentType /\ agent'.at = "callback"
                              /\ agent'.task = agent.task /\ agent'.child = agent.child
<1>a. 0 \in 0..MaxTries
  BY BoundAssumption
<1>b. "idle" \in AgentStage /\ "got" \in AgentStage /\ "callback" \in AgentStage
  BY DEF AgentStage
<1>1. IdleAgent \in AgentType
  BY <1>a, <1>b DEF IdleAgent, AgentType
<1>2. ASSUME NEW s \in AgentStage, AgentAt(s)
      PROVE  /\ agent' \in AgentType /\ agent'.at = s
             /\ agent'.task = agent.task /\ agent'.child = agent.child
  BY <1>2 DEF AgentAt, AgentType
<1>3. ASSUME NEW t \in Task, Take(t)
      PROVE  /\ agent' \in AgentType /\ agent'.at = "got"
             /\ agent'.task = t /\ agent'.child = ""
  BY <1>3, <1>a, <1>b DEF Take, AgentType, IdleAgent
<1>4. ASSUME NEW o \in {"finished", "cancelled"}, Report(o)
      PROVE  /\ agent' \in AgentType /\ agent'.at = "callback"
             /\ agent'.task = agent.task /\ agent'.child = agent.child
  BY <1>4, <1>a, <1>b DEF Report, AgentType
<1> QED BY <1>1, <1>2, <1>3, <1>4

\* The lengths of the lanes, and the tasks that the threads hold, have types.
LEMMA Lengths ==
    ASSUME TypeOK
    PROVE  Len(normal) \in Nat /\ Len(prio) \in Nat /\ Capacity \in Nat
<1>1. normal \in Seq(Task) /\ prio \in Seq(Task)
  BY DEF TypeOK
<1> QED BY <1>1, BoundAssumption

\* Counting up to a bound.
LEMMA Upto ==
    ASSUME NEW n \in Nat, NEW m \in 0..n, m < n
    PROVE  m + 1 \in 0..n
OBVIOUS

\* A lane that has room for one more task.
LEMMA Room ==
    ASSUME NEW s \in Seq(Task), NEW t \in Task, Len(s) < Capacity
    PROVE  Append(s, t) \in Seq(Task) /\ Len(Append(s, t)) <= Capacity
BY AppendedLane, BoundAssumption

\* A lane that is polled.
LEMMA Polled ==
    ASSUME NEW s \in Seq(Task), s # << >>, Len(s) <= Capacity
    PROVE  Head(s) \in Task /\ Tail(s) \in Seq(Task) /\ Len(Tail(s)) <= Capacity
<1>1. Len(s) \in Nat /\ Len(Tail(s)) \in Nat /\ Capacity \in Nat
  BY PolledLane, BoundAssumption
<1> QED BY <1>1, PolledLane

\* A thread that is at work holds a task.
LEMMA HeldTasks ==
    ASSUME TypeOK, Holders
    PROVE  /\ agent.at \in AgentStage /\ agent.child \in Child \cup {""}
           /\ agent.at \notin {"idle", "select"} => agent.task \in Task
           /\ agent.at \in {"idle", "select"} => agent.task = "" /\ registered = {}
           /\ \A r \in Rpc : rpc[r].at # "idle" => rpc[r].task \in Task
           /\ handler # "" => handler \in Task
           /\ canceller.task # "" => canceller.task \in Task
BY DEF TypeOK, Holders, AgentType, RpcType

\* Every step keeps the types.
LEMMA TypeStep ==
    ASSUME TypeOK, Holders, [Next]_vars
    PROVE  TypeOK'
<1> USE DEF history
<1>a. agent \in AgentType
  BY DEF TypeOK
<1>b. normal \in Seq(Task) /\ Len(normal) <= Capacity /\ prio \in Seq(Task) /\ Len(prio) <= Capacity
  BY DEF TypeOK
<1>1. ASSUME NEW t \in Task, Handle(t) PROVE TypeOK'
  BY <1>1, MadeRows, AgentUpdates, TaskAssumption DEF TypeOK, Handle
<1>2. ASSUME NEW t \in Task, CancelRead(t) PROVE TypeOK'
  BY <1>2, MadeRows, AgentUpdates, TaskAssumption DEF TypeOK, CancelRead, Status
<1>3. ASSUME NEW t \in Task, ConfirmDelivery(t) PROVE TypeOK'
  BY <1>3, MadeRows, AgentUpdates, TaskAssumption DEF TypeOK, ConfirmDelivery
<1>4. ASSUME Acknowledge PROVE TypeOK'
  <2>1. handler \in Task
    BY <1>4, HeldTasks, MadeRows, AgentUpdates, TaskAssumption DEF TypeOK, Acknowledge
  <2>2. CASE Enqueue(handler)
    <3> SUFFICES /\ normal' \in Seq(Task) /\ Len(normal') <= Capacity
                 /\ prio' \in Seq(Task) /\ Len(prio') <= Capacity
      BY <1>4, <2>1, <2>2, TaskAssumption DEF TypeOK, Acknowledge, Enqueue
    <3>1. CASE handler \in Evidence
      <4>1. Len(prio) < Capacity /\ prio' = Append(prio, handler) /\ normal' = normal
        BY <2>2, <3>1 DEF Enqueue
      <4> QED BY <1>b, <2>1, <4>1, Room
    <3>2. CASE handler \notin Evidence
      <4>1. Len(normal) < Capacity /\ normal' = Append(normal, handler) /\ prio' = prio
        BY <2>2, <3>2 DEF Enqueue
      <4> QED BY <1>b, <2>1, <4>1, Room
    <3> QED BY <3>1, <3>2
  <2>3. CASE Refuse(handler)
    BY <1>4, <2>1, <2>3, WritingStarts, MadeRows, AgentUpdates, TaskAssumption DEF TypeOK,
       Acknowledge, Refuse, Writer
  <2> QED BY <1>4, <2>2, <2>3, MadeRows, AgentUpdates, TaskAssumption DEF TypeOK, Acknowledge
<1>5. ASSUME PollPriority PROVE TypeOK'
  <2>0. registered = {}
    BY <1>5, HeldTasks, MadeRows, AgentUpdates, TaskAssumption DEF TypeOK, PollPriority
  <2>1. CASE prio # <<>>
    <3>1. Head(prio) \in Task /\ prio' \in Seq(Task) /\ Len(prio') <= Capacity
      BY <1>b, <1>5, <2>1, Polled DEF PollPriority
    <3> QED BY <1>5, <2>0, <2>1, <3>1, MadeRows, AgentUpdates, TaskAssumption DEF TypeOK, PollPriority
  <2>2. CASE prio = <<>>
    BY <1>5, <2>0, <2>2, MadeRows, AgentUpdates, TaskAssumption DEF TypeOK, PollPriority, AgentStage
  <2> QED BY <2>1, <2>2
<1>6. ASSUME Select PROVE TypeOK'
  <2>0. registered = {}
    BY <1>6, HeldTasks, MadeRows, AgentUpdates, TaskAssumption DEF TypeOK, Select
  <2>1. CASE prio # <<>> /\ Take(Head(prio)) /\ prio' = Tail(prio) /\ UNCHANGED normal
    <3>1. Head(prio) \in Task /\ prio' \in Seq(Task) /\ Len(prio') <= Capacity
      BY <1>b, <2>1, Polled
    <3> QED BY <1>6, <2>0, <2>1, <3>1, MadeRows, AgentUpdates, TaskAssumption DEF TypeOK, Select
  <2>2. CASE normal # <<>> /\ Take(Head(normal)) /\ normal' = Tail(normal) /\ UNCHANGED prio
    <3>1. Head(normal) \in Task /\ normal' \in Seq(Task) /\ Len(normal') <= Capacity
      BY <1>b, <2>2, Polled
    <3> QED BY <1>6, <2>0, <2>2, <3>1, MadeRows, AgentUpdates, TaskAssumption DEF TypeOK, Select
  <2> QED BY <1>6, <2>1, <2>2, MadeRows, AgentUpdates, TaskAssumption DEF TypeOK, Select
<1>7. ASSUME GetTask PROVE TypeOK'
  <2>0. agent.task \in Task /\ registered = {}
    BY <1>7, HeldTasks, MadeRows, AgentUpdates, TaskAssumption DEF TypeOK, GetTask, Holders
  <2>1. tasks' \in [Task -> Row]
    BY <1>7, <2>0, StatusOfRow, MadeRows, AgentUpdates, TaskAssumption DEF TypeOK, GetTask, Status
  <2>2. (tasks[agent.task].conv /\ tasks[agent.task].result) \in BOOLEAN
    OBVIOUS
  <2>3. agent' \in AgentType /\ agent'.task \in {agent.task, ""}
    <3>1. CASE agent' = [agent EXCEPT !.at = "mark",
                             !.resumes = tasks[agent.task].conv /\ tasks[agent.task].result]
      BY <1>a, <2>2, <3>1 DEF AgentType, AgentStage
    <3>2. CASE agent' = IdleAgent
      BY <1>a, <3>2, AgentUpdates DEF IdleAgent
    <3>3. CASE Report("cancelled")
      BY <1>a, <3>3, AgentUpdates
    <3> QED BY <1>7, <3>1, <3>2, <3>3 DEF GetTask
  <2> QED BY <1>7, <2>0, <2>1, <2>3, MadeRows, AgentUpdates, TaskAssumption DEF TypeOK, GetTask
<1>8. ASSUME MarkRunning PROVE TypeOK'
  BY <1>8, StatusOfRow, MadeRows, AgentUpdates, TaskAssumption DEF TypeOK, MarkRunning, Holders,
     AgentStage, AgentType, Status
<1>9. ASSUME StartRun PROVE TypeOK'
  BY <1>9, MadeRows, AgentUpdates, TaskAssumption DEF TypeOK, StartRun, AgentStage
<1>10. ASSUME RejectOverBudget PROVE TypeOK'
  BY <1>10, MadeRows, AgentUpdates, TaskAssumption DEF TypeOK, RejectOverBudget
<1>11. ASSUME NEW c \in Child, Delegate(c) PROVE TypeOK'
  BY <1>11, MadeRows, AgentUpdates, TaskAssumption DEF TypeOK, Delegate, AgentType
<1>12. ASSUME EndRun PROVE TypeOK'
  BY <1>12, MadeRows, AgentUpdates, TaskAssumption DEF TypeOK, EndRun, AgentStage
<1>13. ASSUME SaveAsyncState PROVE TypeOK'
  BY <1>13, WritingStarts, MadeRows, AgentUpdates, TaskAssumption DEF TypeOK, SaveAsyncState,
     AgentStage, Row, Status, Holders, AgentType, Writer
<1>14. ASSUME Conclude PROVE TypeOK'
  BY <1>14, MadeRows, AgentUpdates, TaskAssumption DEF TypeOK, Conclude
<1>15. ASSUME CallbackAnswered PROVE TypeOK'
  <2>1. agent' \in AgentType /\ agent'.task = agent.task
    <3>1. AgentAt("complete") /\ "complete" \in AgentStage
      BY <1>15 DEF CallbackAnswered, AgentStage
    <3> QED BY <1>a, <3>1, AgentUpdates
  <2>2. agent.task \in Task
    BY <1>15, HeldTasks DEF CallbackAnswered, Holders
  <2>3. heard' \subseteq Task /\ result' \in [Task -> {"none", "running", "done"}]
    BY <1>15, <2>2 DEF TypeOK, CallbackAnswered
  <2> QED BY <1>15, <2>1, <2>3 DEF TypeOK, CallbackAnswered
<1>16. ASSUME NEW reached \in BOOLEAN, CallbackFails(reached) PROVE TypeOK'
  <2>0. agent.task \in Task /\ registered = {}
    BY <1>16, HeldTasks, MadeRows, AgentUpdates, TaskAssumption DEF TypeOK, CallbackFails, Holders
  <2>1. agent' \in AgentType
    <3>1. CASE agent.tries + 1 < MaxTries
      <4>1. agent.tries + 1 \in 0..MaxTries
        <5>1. agent.tries \in 0..MaxTries /\ MaxTries \in Nat
          BY <1>a, BoundAssumption DEF AgentType
        <5> QED BY <3>1, <5>1
      <4>2. agent' = [agent EXCEPT !.tries = agent.tries + 1]
        BY <1>16, <3>1 DEF CallbackFails
      <4> QED BY <1>a, <4>1, <4>2 DEF AgentType
    <3>2. CASE ~(agent.tries + 1 < MaxTries)
      BY <1>16, <3>2, MadeRows, AgentUpdates, TaskAssumption DEF TypeOK, CallbackFails, AgentStage
    <3> QED BY <3>1, <3>2
  <2> QED BY <1>16, <2>0, <2>1, MadeRows, AgentUpdates, TaskAssumption DEF TypeOK, CallbackFails
<1>17. ASSUME CompleteTask PROVE TypeOK'
  BY <1>17, WritingStarts, MadeRows, AgentUpdates, TaskAssumption DEF TypeOK, CompleteTask,
     AgentStage, Holders, AgentType, Writer
<1>18. ASSUME EndTask PROVE TypeOK'
  BY <1>18, MadeRows, AgentUpdates, TaskAssumption DEF TypeOK, EndTask, Holders
<1>19. ASSUME NEW w \in Writer, ReadIndex(w) PROVE TypeOK'
  BY <1>19, MadeRows, AgentUpdates, TaskAssumption DEF TypeOK, ReadIndex, Active, WriterType
<1>20. ASSUME NEW w \in Writer, WriteIndex(w) PROVE TypeOK'
  BY <1>20, MadeRows, AgentUpdates, TaskAssumption DEF TypeOK, WriteIndex, NotWriting, WriterType
<1>21. ASSUME NEW r \in Rpc, NEW c \in Child, FindParent(r, c) PROVE TypeOK'
  <2>1. back' \in [Child -> 0..MaxBack]
    <3>1. back \in [Child -> 0..MaxBack]
      BY DEF TypeOK
    <3>2. back[c] + 1 \in 0..MaxBack
      BY <1>21, <3>1, BoundAssumption, Upto DEF FindParent
    <3> QED BY <1>21, <3>1, <3>2 DEF FindParent
  <2>2. rpc' \in [Rpc -> RpcType] /\ strayed' \subseteq Child /\ overlapped' \subseteq Child
    BY <1>21, FoundParent DEF FindParent, TypeOK
  <2> QED BY <1>21, <2>1, <2>2 DEF TypeOK, FindParent
<1>22. ASSUME NEW r \in Rpc, InjectCallback(r) PROVE TypeOK'
  <2>0. PICK t \in Task : t = rpc[r].task
    BY <1>22, HeldTasks DEF InjectCallback
  <2>1. tasks' \in [Task -> Row]
    BY <1>22, <2>0, Injected DEF InjectCallback
  <2>2. injected' \in [Child -> Nat]
    <3>1. injected \in [Child -> Nat]
      BY DEF TypeOK
    <3>2. injected' = [injected EXCEPT ![rpc[r].child] = injected[rpc[r].child] + 1]
          \/ injected' = injected
      BY <1>22 DEF InjectCallback
    <3> QED BY <3>1, <3>2
  <2>3. rpc' \in [Rpc -> RpcType]
    BY <1>22, InjectedThread
  <2>4. forgotten' \subseteq Task
    <3>1. forgotten' \in {forgotten, forgotten \cup {t}}
      BY <1>22, <2>0 DEF InjectCallback, Forget
    <3> QED BY <2>0, <3>1 DEF TypeOK
  <2>5. writing' \in [Writer -> WriterType]
    BY <1>22, WritingStarts DEF InjectCallback, Writer
  <2> QED BY <1>22, <2>1, <2>2, <2>3, <2>4, <2>5 DEF TypeOK, InjectCallback
<1>23. ASSUME NEW r \in Rpc, SubmitParent(r) PROVE TypeOK'
  <2>0. PICK t \in Task : t = rpc[r].task
    BY <1>23, HeldTasks DEF SubmitParent
  <2>1. normal' \in Seq(Task) /\ Len(normal') <= Capacity
    BY <1>b, <1>23, <2>0, Room DEF SubmitParent, Submit
  <2>2. rpc' \in [Rpc -> RpcType]
    BY <1>23, SubmittedParent
  <2>3. dropped' \subseteq Task
    BY <1>23, <2>0 DEF TypeOK, SubmitParent, Submit
  <2> QED BY <1>23, <2>1, <2>2, <2>3 DEF TypeOK, SubmitParent
<1>24. ASSUME CancelWrite PROVE TypeOK'
  <2>0. canceller.task \in Task
    BY <1>24, HeldTasks, MadeRows, AgentUpdates, TaskAssumption DEF TypeOK, CancelWrite
  <2>1. tasks' \in [Task -> Row]
    BY <1>24, <2>0, StatusOfRow, MadeRows, AgentUpdates, TaskAssumption DEF TypeOK, CancelWrite,
       Status
  <2>2. agent' \in AgentType /\ agent'.task = agent.task
    BY <1>a, <1>24 DEF CancelWrite, AgentType
  <2> QED BY <1>24, <2>0, <2>1, <2>2, MadeRows, AgentUpdates, TaskAssumption DEF TypeOK, CancelWrite
<1>25. ASSUME SweepList PROVE TypeOK'
  BY <1>25, MadeRows, AgentUpdates, TaskAssumption DEF TypeOK, SweepList
<1>26. ASSUME NEW t \in Task, SweepRemove(t) PROVE TypeOK'
  <2>1. forgotten' \subseteq Task /\ sweep' \subseteq Task
    BY <1>26 DEF TypeOK, SweepRemove, Forget
  <2>2. tasks' \in [Task -> Row] /\ writing' \in [Writer -> WriterType]
    BY <1>26, NewRow, WritingStarts, MadeRows DEF SweepRemove, Writer
  <2> QED BY <1>26, <2>1, <2>2 DEF TypeOK, SweepRemove
<1>27. ASSUME Crash PROVE TypeOK'
  <2>1. tasks' \in [Task -> Row] /\ disk' \in [Task -> Row]
    BY <1>27, RecoveredRows DEF TypeOK, Crash
  <2> DEFINE ids == {t \in Task : tasks'[t].status = "Pending"}
  <2>2. PICK order \in SetToSeqs(ids) :
           /\ normal' = SubSeq(order, 1, IF Len(order) < Capacity THEN Len(order) ELSE Capacity)
           /\ dropped' = ids \ ToSet(normal')
    BY <1>27, MadeRows, AgentUpdates, TaskAssumption DEF TypeOK, Crash
  <2>3. normal' \in Seq(Task) /\ Len(normal') <= Capacity /\ dropped' \subseteq Task
    BY <2>2, RecoveredLane
  <2>4. prio' \in Seq(Task) /\ Len(prio') <= Capacity
    <3>1. prio' = << >> /\ Capacity \in Nat
      BY <1>27, BoundAssumption DEF Crash
    <3> QED BY <3>1
  <2>5. writing' \in [Writer -> WriterType]
    BY <1>27, MadeRows, AgentUpdates, TaskAssumption DEF TypeOK, Crash, NotWriting, WriterType
  <2>6. injected' \in [Child -> Nat] /\ crashes' \in 0..MaxCrash
    <3>1. crashes \in 0..MaxCrash
      BY DEF TypeOK
    <3>2. crashes < MaxCrash /\ crashes' = crashes + 1 /\ injected' = [c \in Child |-> 0]
      BY <1>27 DEF Crash
    <3> QED BY <3>1, <3>2, BoundAssumption, Upto
  <2>7. rpc' \in [Rpc -> RpcType]
    BY <1>27, ThreadRecords DEF Crash
  <2> QED BY <1>27, <2>1, <2>3, <2>4, <2>5, <2>6, <2>7, MadeRows, AgentUpdates,
             TaskAssumption DEF TypeOK, Crash
<1>28. CASE UNCHANGED vars
  BY <1>28, MadeRows, AgentUpdates, TaskAssumption DEF TypeOK, vars, state
<1> QED
  BY <1>1, <1>2, <1>3, <1>4, <1>5, <1>6, <1>7, <1>8, <1>9, <1>10, <1>11, <1>12, <1>13, <1>14,
     <1>15, <1>16, <1>17, <1>18, <1>19, <1>20, <1>21, <1>22, <1>23, <1>24, <1>25, <1>26, <1>27,
     <1>28 DEF Next, AgentStep, WriterStep, RpcStep, SweepStep

-------------------------------------------------------------------------------
(* The copies of the task list.                                            *)

\* More received tasks and more parents do no harm.
LEMMA SoundGrows ==
    ASSUME NEW rows, NEW rcvd, NEW rcvd2, NEW par, NEW par2, Sound(rows, rcvd, par),
           rcvd \subseteq rcvd2, \A c \in Child : par[c] # "" => par2[c] = par[c]
    PROVE  Sound(rows, rcvd2, par2)
BY TaskAssumption DEF Sound

\* One row is replaced by one that is sound.
LEMMA SoundRow ==
    ASSUME NEW rows, NEW rows2, NEW rcvd, NEW par, Sound(rows, rcvd, par), NEW t \in Task,
           \A u \in Task : u # t => rows2[u] = rows[u],
           \/ rows2[t] = Absent
           \/ /\ rows2[t].status # "Absent" /\ t \in rcvd
              /\ rows2[t].waiting \in Child => par[rows2[t].waiting] = t
    PROVE  Sound(rows2, rcvd, par)
BY MadeRows, TaskAssumption DEF Sound

\* Every step keeps every copy sound.
LEMMA SoundStep ==
    ASSUME TypeOK, SoundRows, Holders, Children, [Next]_vars
    PROVE  SoundRows'
<1> USE DEF history
<1> DEFINE Frame == /\ received \subseteq received'
                    /\ \A c \in Child : parent[c] # "" => parent'[c] = parent[c]
                    /\ disk' = disk
                    /\ \A w \in Writer : writing'[w].image = writing[w].image
<1>a. ASSUME Frame, Sound(tasks', received', parent') PROVE SoundRows'
  BY <1>a, SoundGrows DEF SoundRows
<1>b. ASSUME NEW t \in Task, UNCHANGED <<received, parent>>,
             tasks' \in [Task -> Row], \A u \in Task : u # t => tasks'[u] = tasks[u],
             \/ tasks'[t] = Absent
             \/ /\ tasks'[t].status # "Absent" /\ Present(t)
                /\ tasks'[t].waiting \in {"", tasks[t].waiting}
             \/ tasks'[t] = tasks[t]
      PROVE  Sound(tasks', received', parent')
  <2>1. Sound(tasks, received', parent')
    BY <1>b DEF SoundRows
  <2>2. CASE tasks'[t] = tasks[t]
    BY <1>b, <2>1, <2>2 DEF Sound
  <2>3. CASE tasks'[t] = Absent
    BY <1>b, <2>1, <2>3, SoundRow
  <2>4. CASE /\ tasks'[t].status # "Absent" /\ Present(t)
             /\ tasks'[t].waiting \in {"", tasks[t].waiting}
    <3>1. t \in received' /\ (tasks'[t].waiting \in Child => parent'[tasks'[t].waiting] = t)
      BY <2>1, <2>4, TaskAssumption DEF Sound, Present
    <3> QED BY <1>b, <2>1, <2>4, <3>1, SoundRow
  <2> QED BY <1>b, <2>2, <2>3, <2>4
<1>c. ASSUME UNCHANGED <<tasks, disk, writing, received, parent>> PROVE SoundRows'
  BY <1>c DEF SoundRows
<1>1. ASSUME NEW t \in Task, Handle(t) PROVE SoundRows'
  <2>1. Frame
    BY <1>1 DEF Handle
  <2>2. Sound(tasks, received', parent')
    BY <2>1, SoundGrows DEF SoundRows
  <2>3. Sound(tasks', received', parent')
    <3>1. /\ tasks'[t] = Fresh /\ t \in received' /\ \A u \in Task : u # t => tasks'[u] = tasks[u]
      BY <1>1, NewRow, MadeRows DEF Handle
    <3>2. tasks'[t].status # "Absent" /\ tasks'[t].waiting \notin Child
      BY <3>1, MadeRows, TaskAssumption
    <3> QED BY <2>2, <3>1, <3>2, SoundRow
  <2> QED BY <2>1, <2>3, <1>a
<1>2. ASSUME NEW t \in Task, CancelRead(t) \/ ConfirmDelivery(t) PROVE SoundRows'
  BY <1>2, <1>c DEF CancelRead, ConfirmDelivery
<1>3. ASSUME Acknowledge PROVE SoundRows'
  <2>1. CASE Enqueue(handler)
    BY <1>3, <2>1, <1>c DEF Acknowledge, Enqueue
  <2>2. CASE Refuse(handler)
    <3>1. Frame
      BY <1>3, <2>2, WritingStarts DEF Acknowledge, Refuse, Writer
    <3>2. Sound(tasks', received', parent')
      BY <1>3, <2>2, <1>b, NewRow, MadeRows, HeldTasks DEF Acknowledge, Refuse
    <3> QED BY <3>1, <3>2, <1>a
  <2> QED BY <1>3, <2>1, <2>2 DEF Acknowledge
<1>4. ASSUME PollPriority \/ Select \/ StartRun \/ RejectOverBudget \/ EndRun \/ Conclude
             \/ CallbackAnswered \/ EndTask
      PROVE  SoundRows'
  BY <1>4, <1>c DEF PollPriority, Select, StartRun, RejectOverBudget, EndRun, Conclude,
                    CallbackAnswered, EndTask
<1>5. ASSUME NEW reached \in BOOLEAN, CallbackFails(reached) PROVE SoundRows'
  BY <1>5, <1>c DEF CallbackFails
<1>6. ASSUME NEW c \in Child, Delegate(c) PROVE SoundRows'
  <2>1. Frame
    BY <1>6 DEF Delegate, TypeOK
  <2>2. Sound(tasks, received', parent') /\ tasks' = tasks
    BY <1>6, <2>1, SoundGrows DEF SoundRows, Delegate
  <2> QED BY <2>1, <2>2, <1>a
<1>7. ASSUME GetTask PROVE SoundRows'
  <2>1. Frame /\ UNCHANGED <<received, parent>>
    BY <1>7 DEF GetTask
  <2>2. tasks' = tasks \/ UpdateStatus(agent.task, "Failed")
    BY <1>7 DEF GetTask
  <2>3. agent.task \in Task
    BY <1>7, HeldTasks DEF GetTask
  <2>4. Sound(tasks', received', parent')
    BY <2>1, <2>2, <2>3, <1>b, StatusOfRow DEF SoundRows, Status
  <2> QED BY <2>1, <2>4, <1>a
<1>8. ASSUME MarkRunning PROVE SoundRows'
  <2>1. Frame /\ UNCHANGED <<received, parent>>
    BY <1>8 DEF MarkRunning
  <2>2. Sound(tasks', received', parent')
    BY <1>8, <2>1, <1>b, StatusOfRow, HeldTasks DEF MarkRunning, Status
  <2> QED BY <2>1, <2>2, <1>a
<1>9. ASSUME SaveAsyncState PROVE SoundRows'
  <2>1. Frame /\ UNCHANGED <<received, parent>>
    BY <1>9, WritingStarts DEF SaveAsyncState, Writer
  <2>2. agent.task \in Task /\ agent.child \in Child /\ parent[agent.child] = agent.task
    BY <1>9, HeldTasks, TaskAssumption DEF SaveAsyncState, Children
  <2>3. Sound(tasks', received', parent')
    <3>1. CASE ~Present(agent.task)
      BY <1>9, <2>1, <3>1 DEF SaveAsyncState, SoundRows
    <3>2. CASE Present(agent.task)
      <4> DEFINE r == [status |-> "WaitingRemote", conv |-> TRUE, waiting |-> agent.child,
                       result |-> FALSE]
      <4>1. r \in Row /\ r.status = "WaitingRemote" /\ r.waiting = agent.child
        BY <2>2 DEF Row, Status
      <4>2. tasks' = [tasks EXCEPT ![agent.task] = r]
        BY <1>9, <3>2 DEF SaveAsyncState
      <4> HIDE DEF r
      <4>3. tasks'[agent.task] = r /\ \A u \in Task : u # agent.task => tasks'[u] = tasks[u]
        BY <2>2, <4>1, <4>2, NewRow
      <4>4. agent.task \in received
        BY <2>2, <3>2 DEF SoundRows, Sound, Present
      <4> QED BY <2>1, <2>2, <4>1, <4>3, <4>4, SoundRow DEF SoundRows
    <3> QED BY <3>1, <3>2
  <2> QED BY <2>1, <2>3, <1>a
<1>10. ASSUME CompleteTask PROVE SoundRows'
  <2>1. Frame /\ UNCHANGED <<received, parent>>
    BY <1>10, WritingStarts DEF CompleteTask, Writer
  <2>2. Sound(tasks', received', parent')
    BY <1>10, <2>1, <1>b, NewRow, MadeRows, HeldTasks DEF CompleteTask
  <2> QED BY <2>1, <2>2, <1>a
<1>11. ASSUME NEW w \in Writer, ReadIndex(w) PROVE SoundRows'
  <2>1. Sound(Active(tasks), received, parent)
    <3>1. Sound(tasks, received, parent) /\ tasks \in [Task -> Row]
      BY DEF SoundRows, TypeOK
    <3>2. \A t \in Task : Active(tasks)[t] = Absent \/ Active(tasks)[t] = tasks[t]
      BY <3>1, ActiveRows
    <3>3. Absent.status = "Absent" /\ Absent.waiting = "" /\ "" \notin Child
      BY MadeRows, TaskAssumption
    <3>4. ASSUME NEW t \in Task
          PROVE  /\ Active(tasks)[t].status = "Absent" => Active(tasks)[t].waiting = ""
                 /\ Active(tasks)[t].status # "Absent" => t \in received
                 /\ Active(tasks)[t].waiting \in Child => parent[Active(tasks)[t].waiting] = t
      <4>1. CASE Active(tasks)[t] = Absent
        BY <3>3, <4>1
      <4>2. CASE Active(tasks)[t] = tasks[t]
        BY <3>1, <4>2 DEF Sound
      <4> QED BY <3>2, <4>1, <4>2
    <3> QED BY <3>4 DEF Sound
  <2>2. \A v \in Writer : writing'[v].image \in {writing[v].image, Active(tasks)}
    BY <1>11 DEF ReadIndex, TypeOK
  <2>3. UNCHANGED <<tasks, disk, received, parent>>
    BY <1>11 DEF ReadIndex
  <2> QED BY <2>1, <2>2, <2>3 DEF SoundRows
<1>12. ASSUME NEW w \in Writer, WriteIndex(w) PROVE SoundRows'
  <2>1. Sound(NoRows, received, parent)
    BY MadeRows, TaskAssumption DEF Sound, NoRows
  <2>2. \A v \in Writer : writing'[v].image \in {writing[v].image, NoRows}
    BY <1>12 DEF WriteIndex, NotWriting, TypeOK
  <2>3. UNCHANGED <<tasks, received, parent>> /\ disk' = writing[w].image
    BY <1>12 DEF WriteIndex
  <2> QED BY <2>1, <2>2, <2>3 DEF SoundRows
<1>13. ASSUME NEW r \in Rpc, NEW c \in Child, FindParent(r, c) PROVE SoundRows'
  BY <1>13, <1>c DEF FindParent
<1>14. ASSUME NEW r \in Rpc, InjectCallback(r) PROVE SoundRows'
  <2>1. Frame /\ UNCHANGED <<received, parent>>
    BY <1>14, WritingStarts DEF InjectCallback, Writer
  <2>2. PICK t \in Task : t = rpc[r].task
    BY <1>14, HeldTasks DEF InjectCallback
  <2>3. /\ tasks' \in [Task -> Row] /\ \A u \in Task : u # t => tasks'[u] = tasks[u]
        /\ \/ tasks'[t] = Absent
           \/ tasks'[t] = tasks[t]
           \/ Present(t) /\ tasks'[t].status = "Pending" /\ tasks'[t].waiting = ""
    BY <1>14, <2>2, Injected DEF InjectCallback
  <2>4. Sound(tasks', received', parent')
    BY <2>1, <2>2, <2>3, <1>b
  <2> QED BY <2>1, <2>4, <1>a
<1>15. ASSUME NEW r \in Rpc, SubmitParent(r) PROVE SoundRows'
  BY <1>15, <1>c DEF SubmitParent
<1>16. ASSUME CancelWrite PROVE SoundRows'
  <2>1. Frame /\ UNCHANGED <<received, parent>>
    BY <1>16 DEF CancelWrite
  <2>2. Sound(tasks', received', parent')
    BY <1>16, <2>1, <1>b, StatusOfRow, HeldTasks DEF CancelWrite, Status
  <2> QED BY <2>1, <2>2, <1>a
<1>17. ASSUME SweepList PROVE SoundRows'
  BY <1>17, <1>c DEF SweepList
<1>18. ASSUME NEW t \in Task, SweepRemove(t) PROVE SoundRows'
  <2>1. Frame /\ UNCHANGED <<received, parent>>
    BY <1>18, WritingStarts DEF SweepRemove, Writer
  <2>2. Sound(tasks', received', parent')
    BY <1>18, <2>1, <1>b, NewRow, MadeRows DEF SweepRemove
  <2> QED BY <2>1, <2>2, <1>a
<1>19. ASSUME Crash PROVE SoundRows'
  <2>1. /\ UNCHANGED <<received, parent>> /\ tasks' = Recovered(disk)
        /\ disk' = disk \/ disk' = tasks'
        /\ writing' = [w \in Writer |-> NotWriting]
    BY <1>19 DEF Crash
  <2>2. Sound(NoRows, received, parent)
    BY MadeRows, TaskAssumption DEF Sound, NoRows
  <2>3. Sound(Recovered(disk), received, parent)
    <3>1. Sound(disk, received, parent) /\ disk \in [Task -> Row]
      BY DEF SoundRows, TypeOK
    <3>2. \A t \in Task :
             \/ Recovered(disk)[t] = Absent
             \/ /\ Recovered(disk)[t].status = "Pending" /\ disk[t].status # "Absent"
                /\ Recovered(disk)[t].waiting = disk[t].waiting
      BY <3>1, RecoveredRows
    <3> QED BY <3>1, <3>2, MadeRows, TaskAssumption DEF Sound
  <2> QED BY <2>1, <2>2, <2>3 DEF SoundRows, NotWriting
<1>20. CASE UNCHANGED vars
  BY <1>20, <1>c DEF vars, state
<1> QED
  BY <1>1, <1>2, <1>3, <1>4, <1>5, <1>6, <1>7, <1>8, <1>9, <1>10, <1>11, <1>12, <1>13, <1>14,
     <1>15, <1>16, <1>17, <1>18, <1>19, <1>20 DEF Next, AgentStep, WriterStep, RpcStep, SweepStep

-------------------------------------------------------------------------------
(* Who holds a task.                                                       *)

\* What each way into a lane does to the set of queued tasks.
LEMMA EnqueuedTask ==
    ASSUME TypeOK, NEW t \in Task, Enqueue(t)
    PROVE  \A u \in Task : Queued(u)' <=> Queued(u) \/ u = t
<1>1. normal \in Seq(Task) /\ prio \in Seq(Task)
  BY DEF TypeOK
<1>2. CASE t \in Evidence
  <2>1. ToSet(prio') = ToSet(prio) \cup {t} /\ normal' = normal
    BY <1>1, <1>2, AppendedLane DEF Enqueue
  <2> QED BY <2>1 DEF Queued
<1>3. CASE t \notin Evidence
  <2>1. ToSet(normal') = ToSet(normal) \cup {t} /\ prio' = prio
    BY <1>1, <1>3, AppendedLane DEF Enqueue
  <2> QED BY <2>1 DEF Queued
<1> QED BY <1>2, <1>3

\* ClusterWorkQueue::submit queues the task or, if the lane is full, drops it.
LEMMA SubmittedTask ==
    ASSUME TypeOK, NEW t \in Task, Submit(t), prio' = prio
    PROVE  /\ \A u \in Task : Queued(u)' => Queued(u) \/ u = t
           /\ \A u \in Task : Queued(u) => Queued(u)'
           /\ Queued(t)' \/ t \in dropped'
           /\ dropped \subseteq dropped'
<1>1. normal \in Seq(Task)
  BY DEF TypeOK
<1>2. CASE Len(normal) < Capacity
  <2>1. ToSet(normal') = ToSet(normal) \cup {t} /\ dropped' = dropped
    BY <1>1, <1>2, AppendedLane DEF Submit
  <2> QED BY <2>1 DEF Queued
<1>3. CASE ~(Len(normal) < Capacity)
  BY <1>3 DEF Submit, Queued
<1> QED BY <1>2, <1>3

\* After a restart the lanes hold recovered tasks only, the others are dropped.
LEMMA RecoveredQueue ==
    ASSUME Crash
    PROVE  LET ids == {t \in Task : tasks'[t].status = "Pending"} IN
             /\ ToSet(normal') \subseteq ids /\ ToSet(prio') = {}
             /\ ids \subseteq ToSet(normal') \cup dropped'
<1> DEFINE ids == {t \in Task : tasks'[t].status = "Pending"}
<1>1. PICK order \in SetToSeqs(ids) :
         /\ normal' = SubSeq(order, 1, IF Len(order) < Capacity THEN Len(order) ELSE Capacity)
         /\ dropped' = ids \ ToSet(normal')
  BY DEF Crash
<1>2. ToSet(normal') \subseteq ids
  BY <1>1, RecoveredLane
<1>3. prio' = << >>
  BY DEF Crash
<1>4. ToSet(prio') = {}
  <2>1. ToSet(<< >>) = {}
    BY DEF ToSet
  <2> QED BY <1>3, <2>1
<1> QED BY <1>1, <1>2, <1>4

\* What save_async_state does to the row of the agent's task.
LEMMA AsyncRow ==
    ASSUME TypeOK, SaveAsyncState, agent.task \in Task
    PROVE  /\ \A u \in Task : u # agent.task => tasks'[u] = tasks[u]
           /\ ~Present(agent.task) => tasks'[agent.task] = tasks[agent.task]
           /\ Present(agent.task) => /\ tasks'[agent.task].status = "WaitingRemote"
                                     /\ tasks'[agent.task].waiting = agent.child
<1> DEFINE r == [status |-> "WaitingRemote", conv |-> TRUE, waiting |-> agent.child, result |-> FALSE]
<1>1. r.status = "WaitingRemote" /\ r.waiting = agent.child
  OBVIOUS
<1>2. tasks' = IF ~Present(agent.task) THEN tasks ELSE [tasks EXCEPT ![agent.task] = r]
  BY DEF SaveAsyncState
<1> HIDE DEF r
<1> QED BY <1>1, <1>2 DEF TypeOK

\* What get_task and task_cancel do to the agent.
LEMMA GotTask ==
    ASSUME TypeOK, GetTask
    PROVE  \/ agent' = IdleAgent /\ ~Present(agent.task) /\ tasks' = tasks
           \/ /\ agent'.task = agent.task /\ agent'.child = agent.child
              /\ \/ agent'.at = "mark" /\ Present(agent.task) /\ tasks' = tasks
                 \/ /\ agent'.at = "callback" /\ tasks[agent.task].status = "Cancelled"
                    /\ UpdateStatus(agent.task, "Failed")
<1>1. agent \in AgentType
  BY DEF TypeOK
<1>2. CASE ~Present(agent.task) /\ agent' = IdleAgent /\ UNCHANGED tasks
  BY <1>2
<1>3. CASE tasks[agent.task].status = "Cancelled" /\ UpdateStatus(agent.task, "Failed")
           /\ Report("cancelled")
  BY <1>1, <1>3, AgentUpdates
<1>4. CASE /\ Present(agent.task) /\ UNCHANGED tasks
           /\ agent' = [agent EXCEPT !.at = "mark",
                             !.resumes = tasks[agent.task].conv /\ tasks[agent.task].result]
  BY <1>1, <1>4 DEF AgentType
<1> QED BY <1>2, <1>3, <1>4 DEF GetTask

\* A cancellation leaves the agent where it is.
LEMMA CancelledAgent ==
    ASSUME TypeOK, CancelWrite
    PROVE  /\ agent'.at = agent.at /\ agent'.task = agent.task /\ agent'.child = agent.child
           /\ registered' \subseteq registered
<1>1. agent \in AgentType
  BY DEF TypeOK
<1> QED BY <1>1 DEF CancelWrite, AgentType

\* Every step keeps each task in the hands that Holders says.
LEMMA HoldersStep ==
    ASSUME TypeOK, TypeOK', SoundRows, Holders, [Next]_vars
    PROVE  Holders'
<1> USE TaskAssumption DEF history
<1> DEFINE Waiting == \A t \in Task : tasks'[t].waiting # "" => tasks[t].waiting # ""
           Lanes == ToSet(normal') \subseteq ToSet(normal) /\ ToSet(prio') \subseteq ToSet(prio)
<1>a. ASSUME Waiting, Lanes, received \subseteq received', accepted' = accepted,
             handler' = handler,
             \A r \in Rpc : /\ rpc'[r].task \in {"", rpc[r].task}
                            /\ rpc'[r].task = "" <=> rpc'[r].at = "idle",
             agent'.task \in {"", agent.task},
             agent'.task = "" <=> agent'.at \in {"idle", "select"},
             agent'.at # "run" => registered' = {}
      PROVE  Holders'
  BY <1>a DEF Holders, Held, Queued
<1>b. ASSUME UNCHANGED <<tasks, normal, prio, received, accepted, handler, rpc, agent, registered>>
      PROVE  Holders'
  BY <1>b DEF Holders, Held, Queued
<1>c. ASSUME UNCHANGED <<normal, prio, received, accepted, handler, rpc>>, Waiting,
             agent'.task = agent.task, agent.at \notin {"idle", "select"},
             agent'.at \notin {"idle", "select"}, agent'.at # "run" => registered' = {}
      PROVE  Holders'
  BY <1>c DEF Holders, Held, Queued
<1>1. ASSUME NEW t \in Task, Handle(t) PROVE Holders'
  <2>1. /\ tasks'[t].waiting = "" /\ \A u \in Task : u # t => tasks'[u] = tasks[u]
    BY <1>1, NewRow, MadeRows DEF Handle
  <2>2. ~Held(t)
    BY <1>1 DEF Handle, Holders
  <2> QED BY <1>1, <2>1, <2>2 DEF Handle, Holders, Held, Queued
<1>2. ASSUME NEW t \in Task, CancelRead(t) \/ ConfirmDelivery(t) PROVE Holders'
  BY <1>2, <1>b DEF CancelRead, ConfirmDelivery
<1>3. ASSUME Acknowledge PROVE Holders'
  <2>0. handler \in Task /\ handler \in received /\ handler' = ""
        /\ UNCHANGED <<rpc, agent, registered, received>>
    BY <1>3, HeldTasks DEF Acknowledge, Holders
  <2>1. CASE Enqueue(handler)
    <3>1. \A t \in Task : Queued(t)' => Queued(t) \/ t = handler
      BY <2>0, <2>1, EnqueuedTask
    <3>2. tasks' = tasks /\ accepted' = accepted \cup {handler}
      BY <2>1 DEF Enqueue
    <3> QED BY <2>0, <3>1, <3>2 DEF Holders, Held
  <2>2. CASE Refuse(handler)
    <3>1. Waiting /\ UNCHANGED <<normal, prio, accepted>>
      BY <2>0, <2>2, NewRow, MadeRows DEF Refuse
    <3> QED BY <2>0, <3>1 DEF Holders, Held, Queued
  <2> QED BY <1>3, <2>1, <2>2 DEF Acknowledge
<1>4. ASSUME PollPriority PROVE Holders'
  <2>1. CASE prio # << >>
    <3>1. /\ Head(prio) \in Task /\ ToSet(prio) = {Head(prio)} \cup ToSet(prio')
          /\ Take(Head(prio)) /\ agent.at = "idle"
          /\ UNCHANGED <<tasks, normal, rpc, registered, received, accepted, handler>>
      <4>1. Take(Head(prio)) /\ prio' = Tail(prio) /\ agent.at = "idle"
        BY <1>4, <2>1 DEF PollPriority
      <4>2. prio \in Seq(Task)
        BY DEF TypeOK
      <4>3. Head(prio) \in Task /\ ToSet(prio) = {Head(prio)} \cup ToSet(prio')
        BY <2>1, <4>1, <4>2, PolledLane
      <4> QED BY <1>4, <4>1, <4>3 DEF PollPriority, history
    <3>2. agent'.at = "got" /\ agent'.task = Head(prio)
      BY <3>1, AgentUpdates DEF TypeOK
    <3> QED BY <3>1, <3>2 DEF Holders, Held, Queued
  <2>2. CASE prio = << >>
    <3>1. AgentAt("select") /\ agent.at = "idle"
          /\ UNCHANGED <<tasks, normal, prio, rpc, registered, received, accepted, handler>>
      BY <1>4, <2>2 DEF PollPriority
    <3>2. agent'.at = "select" /\ agent'.task = agent.task
      BY <3>1, AgentUpdates DEF TypeOK, AgentStage
    <3> QED BY <3>1, <3>2, <1>a DEF Holders
  <2> QED BY <2>1, <2>2
<1>5. ASSUME Select PROVE Holders'
  <2>0. agent.at = "select" /\ UNCHANGED <<tasks, rpc, registered, received, accepted, handler>>
    BY <1>5 DEF Select
  <2>1. CASE prio # << >> /\ Take(Head(prio)) /\ prio' = Tail(prio) /\ UNCHANGED normal
    <3>1. Head(prio) \in Task /\ ToSet(prio) = {Head(prio)} \cup ToSet(prio')
      BY <2>1, PolledLane DEF TypeOK
    <3>2. agent'.at = "got" /\ agent'.task = Head(prio)
      BY <2>1, <3>1, AgentUpdates DEF TypeOK
    <3> QED BY <2>0, <2>1, <3>1, <3>2 DEF Holders, Held, Queued
  <2>2. CASE normal # << >> /\ Take(Head(normal)) /\ normal' = Tail(normal) /\ UNCHANGED prio
    <3>1. Head(normal) \in Task /\ ToSet(normal) = {Head(normal)} \cup ToSet(normal')
      BY <2>2, PolledLane DEF TypeOK
    <3>2. agent'.at = "got" /\ agent'.task = Head(normal)
      BY <2>2, <3>1, AgentUpdates DEF TypeOK
    <3> QED BY <2>0, <2>2, <3>1, <3>2 DEF Holders, Held, Queued
  <2> QED BY <1>5, <2>1, <2>2 DEF Select
<1>6. ASSUME GetTask PROVE Holders'
  <2>0. agent.task \in Task /\ agent.at = "got" /\ registered = {}
        /\ UNCHANGED <<normal, prio, rpc, registered, received, accepted, handler>>
    BY <1>6, HeldTasks DEF GetTask, Holders
  <2>1. Waiting
    BY <1>6, <2>0, StatusOfRow DEF GetTask, Status
  <2>2. agent' = IdleAgent \/ (agent'.task = agent.task /\ agent'.at \in {"mark", "callback"})
    BY <1>6, GotTask
  <2>3. CASE agent' = IdleAgent
    BY <2>0, <2>1, <2>3, <1>a DEF IdleAgent, Holders
  <2>4. CASE agent'.task = agent.task /\ agent'.at \in {"mark", "callback"}
    BY <2>0, <2>1, <2>4, <1>c
  <2> QED BY <2>2, <2>3, <2>4
<1>7. ASSUME MarkRunning PROVE Holders'
  <2>1. agent.task \in Task /\ agent.at = "mark" /\ registered' = {}
    BY <1>7, HeldTasks DEF MarkRunning, Holders
  <2>2. Waiting
    BY <1>7, <2>1, StatusOfRow DEF MarkRunning, Status
  <2>3. agent'.at = "start" /\ agent'.task = agent.task
    BY <1>7, AgentUpdates DEF MarkRunning, TypeOK, AgentStage
  <2> QED BY <1>7, <2>1, <2>2, <2>3, <1>c DEF MarkRunning
<1>8. ASSUME StartRun PROVE Holders'
  <2>1. agent'.at = "run" /\ agent'.task = agent.task
    BY <1>8, AgentUpdates DEF StartRun, TypeOK, AgentStage
  <2> QED BY <1>8, <2>1, <1>c DEF StartRun
<1>9. ASSUME RejectOverBudget \/ Conclude PROVE Holders'
  <2>1. agent'.at = "callback" /\ agent'.task = agent.task /\ agent.at \in {"start", "ran"}
    BY <1>9, AgentUpdates DEF RejectOverBudget, Conclude, TypeOK
  <2>2. UNCHANGED <<tasks, normal, prio, received, accepted, handler, rpc, registered>>
    BY <1>9 DEF RejectOverBudget, Conclude
  <2>3. registered' = {}
    BY <2>1, <2>2 DEF Holders
  <2> QED BY <2>1, <2>2, <2>3, <1>c
<1>10. ASSUME NEW c \in Child, Delegate(c) PROVE Holders'
  <2>1. agent'.at = "run" /\ agent'.task = agent.task /\ agent.at = "run"
    BY <1>10 DEF Delegate, TypeOK, AgentType
  <2> QED BY <1>10, <2>1, <1>c DEF Delegate
<1>11. ASSUME EndRun PROVE Holders'
  <2>1. agent'.at = "ran" /\ agent'.task = agent.task
    BY <1>11, AgentUpdates DEF EndRun, TypeOK, AgentStage
  <2>2. registered' = {}
    BY <1>11 DEF EndRun, TypeOK
  <2> QED BY <1>11, <2>1, <2>2, <1>c DEF EndRun
<1>12. ASSUME SaveAsyncState PROVE Holders'
  <2>1. /\ agent.task \in Task /\ agent'.at = "persist" /\ agent'.task = agent.task
        /\ agent.at = "ran"
        /\ UNCHANGED <<normal, prio, received, accepted, handler, rpc, registered>>
    BY <1>12, AgentUpdates, HeldTasks DEF SaveAsyncState, TypeOK, AgentStage
  <2>2. \A u \in Task : u # agent.task => tasks'[u] = tasks[u]
    <3>1. tasks \in [Task -> Row]
      BY DEF TypeOK
    <3> QED BY <1>12, <3>1 DEF SaveAsyncState
  <2> QED BY <2>1, <2>2 DEF Holders, Held, Queued
<1>13. ASSUME CallbackAnswered PROVE Holders'
  <2>1. agent'.at = "complete" /\ agent'.task = agent.task /\ registered' = {}
    BY <1>13, AgentUpdates DEF CallbackAnswered, TypeOK, AgentStage, Holders
  <2> QED BY <1>13, <2>1, <1>c DEF CallbackAnswered
<1>14. ASSUME NEW reached \in BOOLEAN, CallbackFails(reached) PROVE Holders'
  <2>1. /\ agent'.at \in {"callback", "complete"} /\ agent'.task = agent.task /\ registered' = {}
    <3>1. CASE AgentAt("complete")
      BY <1>14, <3>1, AgentUpdates DEF CallbackFails, TypeOK, AgentStage, Holders
    <3>2. CASE agent' = [agent EXCEPT !.tries = agent.tries + 1]
      BY <1>14, <3>2 DEF CallbackFails, TypeOK, AgentType, Holders
    <3> QED BY <1>14, <3>1, <3>2 DEF CallbackFails
  <2> QED BY <1>14, <2>1, <1>c DEF CallbackFails
<1>15. ASSUME CompleteTask PROVE Holders'
  <2>1. agent'.at = "persist" /\ agent'.task = agent.task /\ registered' = {}
    BY <1>15, AgentUpdates DEF CompleteTask, TypeOK, AgentStage, Holders
  <2>2. Waiting
    BY <1>15, HeldTasks, NewRow, MadeRows DEF CompleteTask
  <2> QED BY <1>15, <2>1, <2>2, <1>c DEF CompleteTask
<1>16. ASSUME EndTask PROVE Holders'
  <2>1. agent'.at = "idle" /\ agent'.task = "" /\ registered' = {}
    BY <1>16 DEF EndTask, IdleAgent, Holders
  <2> QED BY <1>16, <2>1, <1>a DEF EndTask, Holders
<1>17. ASSUME NEW w \in Writer, ReadIndex(w) \/ WriteIndex(w) PROVE Holders'
  BY <1>17, <1>b DEF ReadIndex, WriteIndex
<1>18. ASSUME NEW r \in Rpc, NEW c \in Child, FindParent(r, c) PROVE Holders'
  <2>1. UNCHANGED <<tasks, normal, prio, received, accepted, handler, agent, registered>>
    BY <1>18 DEF FindParent
  <2>2. CASE rpc' = rpc
    BY <2>1, <2>2, <1>b
  <2>3. CASE /\ rpc'[r].at = "inject" /\ rpc'[r].task \in Task
             /\ tasks[rpc'[r].task].waiting # ""
             /\ \A q \in Rpc : q # r => rpc'[q] = rpc[q]
    <3>1. \A u \in Task : Held(u)' => Held(u)
      BY <2>1, <2>3 DEF Held, Queued
    <3>2. \A q \in Rpc : rpc'[q].task = "" <=> rpc'[q].at = "idle"
      BY <2>3 DEF Holders
    <3> QED BY <2>1, <3>1, <3>2 DEF Holders
  <2> QED BY <1>18, <2>2, <2>3, FoundParent
<1>19. ASSUME NEW r \in Rpc, InjectCallback(r) PROVE Holders'
  <2>1. PICK t \in Task : t = rpc[r].task
    BY <1>19, HeldTasks DEF InjectCallback
  <2>2. Waiting
    BY <1>19, <2>1, Injected, MadeRows DEF InjectCallback
  <2>3. /\ rpc'[r].at = "submit" /\ rpc'[r].task = rpc[r].task
        /\ \A q \in Rpc : q # r => rpc'[q] = rpc[q]
    BY <1>19, InjectedThread
  <2>4. \A q \in Rpc : /\ rpc'[q].task \in {"", rpc[q].task}
                       /\ rpc'[q].task = "" <=> rpc'[q].at = "idle"
    BY <2>1, <2>3 DEF Holders
  <2> QED BY <1>19, <2>2, <2>4, <1>a DEF InjectCallback, Holders
<1>20. ASSUME NEW r \in Rpc, SubmitParent(r) PROVE Holders'
  <2>0. PICK t \in Task : t = rpc[r].task
    BY <1>20, HeldTasks DEF SubmitParent
  <2>1. UNCHANGED <<tasks, prio, agent, received, accepted, handler, registered>>
    BY <1>20 DEF SubmitParent
  <2>2. \A u \in Task : Queued(u)' => Queued(u) \/ u = t
    BY <1>20, <2>0, SubmittedTask DEF SubmitParent
  <2>3. /\ rpc'[r].task = "" /\ rpc'[r].at = "idle"
        /\ \A q \in Rpc : q # r => rpc'[q] = rpc[q]
    BY <1>20, SubmittedParent
  <2>4. \A u \in Task : Held(u)' => Held(u)
    BY <2>0, <2>1, <2>2, <2>3 DEF Held
  <2>5. \A q \in Rpc : rpc'[q].task = "" <=> rpc'[q].at = "idle"
    BY <2>3 DEF Holders
  <2> QED BY <2>1, <2>4, <2>5 DEF Holders
<1>21. ASSUME CancelWrite PROVE Holders'
  <2>1. Waiting
    BY <1>21, StatusOfRow, HeldTasks DEF CancelWrite, Status
  <2>2. agent'.at = agent.at /\ agent'.task = agent.task /\ registered' \subseteq registered
    BY <1>21, CancelledAgent
  <2> QED BY <1>21, <2>1, <2>2, <1>a DEF CancelWrite, Holders
<1>22. ASSUME SweepList PROVE Holders'
  BY <1>22, <1>b DEF SweepList
<1>23. ASSUME NEW t \in Task, SweepRemove(t) PROVE Holders'
  <2>1. Waiting
    BY <1>23, NewRow, MadeRows DEF SweepRemove
  <2> QED BY <1>23, <2>1, <1>a DEF SweepRemove, Holders
<1>24. ASSUME Crash PROVE Holders'
  <2>1. /\ agent'.at = "idle" /\ agent'.task = ""
        /\ \A r \in Rpc : rpc'[r].at = "idle" /\ rpc'[r].task = ""
        /\ registered' = {} /\ handler' = "" /\ UNCHANGED <<received, accepted>>
        /\ tasks' = Recovered(disk)
    BY <1>24 DEF Crash, IdleAgent, IdleThread
  <2> DEFINE ids == {t \in Task : tasks'[t].status = "Pending"}
  <2>2. ToSet(normal') \subseteq ids /\ ToSet(prio') = {}
    BY <1>24, RecoveredQueue
  <2>3. \A t \in Task : tasks'[t].status # "Absent" \/ tasks'[t].waiting # "" => t \in received
    <3>1. disk \in [Task -> Row] /\ Sound(disk, received, parent)
      BY DEF TypeOK, SoundRows
    <3> QED BY <2>1, <3>1, RecoveredRows, MadeRows DEF Sound
  <2>4. \A t \in Task : Held(t)' => t \in received
    BY <2>1, <2>2, <2>3 DEF Held, Queued
  <2> QED BY <2>1, <2>4 DEF Holders
<1>25. CASE UNCHANGED vars
  BY <1>25, <1>b DEF vars, state
<1> QED
  BY <1>1, <1>2, <1>3, <1>4, <1>5, <1>6, <1>7, <1>8, <1>9, <1>10, <1>11, <1>12, <1>13, <1>14,
     <1>15, <1>16, <1>17, <1>18, <1>19, <1>20, <1>21, <1>22, <1>23, <1>24, <1>25
     DEF Next, AgentStep, WriterStep, RpcStep, SweepStep

-------------------------------------------------------------------------------
(* No pending row is forgotten.                                            *)

\* Every step leaves each pending row with somebody who will see to it.
LEMMA PendingStep ==
    ASSUME TypeOK, TypeOK', SoundRows, Holders, PendingIsQueued, [Next]_vars
    PROVE  PendingIsQueued'
<1> USE TaskAssumption DEF history
<1> DEFINE Rows == \A t \in Task : tasks'[t].status = "Pending" => tasks[t].status = "Pending"
<1>a. ASSUME Rows, UNCHANGED <<normal, prio, rpc, handler, dropped>>,
             \A t \in Task : agent.task = t /\ agent.at \in {"got", "mark"}
                /\ tasks'[t].status = "Pending" => agent'.task = t /\ agent'.at \in {"got", "mark"}
      PROVE  PendingIsQueued'
  BY <1>a DEF PendingIsQueued, Queued
<1>b. ASSUME UNCHANGED <<tasks, normal, prio, rpc, handler, dropped, agent>>
      PROVE  PendingIsQueued'
  BY <1>b DEF PendingIsQueued, Queued
<1>1. ASSUME NEW t \in Task, Handle(t) PROVE PendingIsQueued'
  <2>1. /\ \A u \in Task : u # t => tasks'[u] = tasks[u]
        /\ handler = "" /\ handler' = t /\ UNCHANGED <<normal, prio, rpc, agent, dropped>>
    BY <1>1, NewRow, MadeRows DEF Handle
  <2> QED BY <2>1 DEF PendingIsQueued, Queued
<1>2. ASSUME NEW t \in Task, CancelRead(t) \/ ConfirmDelivery(t) PROVE PendingIsQueued'
  BY <1>2, <1>b DEF CancelRead, ConfirmDelivery
<1>3. ASSUME Acknowledge PROVE PendingIsQueued'
  <2>0. handler \in Task /\ UNCHANGED <<rpc, agent, dropped>>
    BY <1>3, HeldTasks DEF Acknowledge
  <2>1. CASE Enqueue(handler)
    <3>1. \A u \in Task : Queued(u)' <=> Queued(u) \/ u = handler
      BY <2>0, <2>1, EnqueuedTask
    <3>2. tasks' = tasks
      BY <2>1 DEF Enqueue
    <3> QED BY <2>0, <3>1, <3>2 DEF PendingIsQueued
  <2>2. CASE Refuse(handler)
    <3>1. /\ tasks'[handler].status = "Absent" /\ \A u \in Task : u # handler => tasks'[u] = tasks[u]
          /\ UNCHANGED <<normal, prio>>
      BY <2>0, <2>2, NewRow, MadeRows DEF Refuse
    <3> QED BY <2>0, <3>1 DEF PendingIsQueued, Queued
  <2> QED BY <1>3, <2>1, <2>2 DEF Acknowledge
<1>4. ASSUME PollPriority PROVE PendingIsQueued'
  <2>1. CASE prio # << >>
    <3>1. /\ Head(prio) \in Task /\ ToSet(prio) = {Head(prio)} \cup ToSet(prio')
          /\ Take(Head(prio)) /\ agent.at = "idle" /\ UNCHANGED <<tasks, normal, rpc, handler, dropped>>
      <4>1. Take(Head(prio)) /\ prio' = Tail(prio) /\ agent.at = "idle"
        BY <1>4, <2>1 DEF PollPriority
      <4>2. prio \in Seq(Task)
        BY DEF TypeOK
      <4>3. Head(prio) \in Task /\ ToSet(prio) = {Head(prio)} \cup ToSet(prio')
        BY <2>1, <4>1, <4>2, PolledLane
      <4> QED BY <1>4, <4>1, <4>3 DEF PollPriority, history
    <3>2. agent'.at = "got" /\ agent'.task = Head(prio)
      BY <3>1, AgentUpdates DEF TypeOK
    <3> QED BY <3>1, <3>2 DEF PendingIsQueued, Queued
  <2>2. CASE prio = << >>
    <3>1. agent.at = "idle" /\ UNCHANGED <<tasks, normal, prio, rpc, handler, dropped>>
      BY <1>4, <2>2 DEF PollPriority
    <3> QED BY <3>1, <1>a
  <2> QED BY <2>1, <2>2
<1>5. ASSUME Select PROVE PendingIsQueued'
  <2>0. agent.at = "select" /\ UNCHANGED <<tasks, rpc, handler, dropped>>
    BY <1>5 DEF Select
  <2>1. CASE prio # << >> /\ Take(Head(prio)) /\ prio' = Tail(prio) /\ UNCHANGED normal
    <3>1. Head(prio) \in Task /\ ToSet(prio) = {Head(prio)} \cup ToSet(prio')
      BY <2>1, PolledLane DEF TypeOK
    <3>2. agent'.at = "got" /\ agent'.task = Head(prio)
      BY <2>1, <3>1, AgentUpdates DEF TypeOK
    <3> QED BY <2>0, <2>1, <3>1, <3>2 DEF PendingIsQueued, Queued
  <2>2. CASE normal # << >> /\ Take(Head(normal)) /\ normal' = Tail(normal) /\ UNCHANGED prio
    <3>1. Head(normal) \in Task /\ ToSet(normal) = {Head(normal)} \cup ToSet(normal')
      BY <2>2, PolledLane DEF TypeOK
    <3>2. agent'.at = "got" /\ agent'.task = Head(normal)
      BY <2>2, <3>1, AgentUpdates DEF TypeOK
    <3> QED BY <2>0, <2>2, <3>1, <3>2 DEF PendingIsQueued, Queued
  <2> QED BY <1>5, <2>1, <2>2 DEF Select
<1>6. ASSUME GetTask PROVE PendingIsQueued'
  <2>0. agent.task \in Task /\ agent.at = "got" /\ UNCHANGED <<normal, prio, rpc, handler, dropped>>
    BY <1>6, HeldTasks DEF GetTask
  <2>1. /\ \A u \in Task : u # agent.task => tasks'[u] = tasks[u]
        /\ tasks'[agent.task].status = "Pending" =>
              /\ tasks[agent.task].status = "Pending"
              /\ agent'.task = agent.task /\ agent'.at = "mark"
    BY <1>6, <2>0, GotTask, StatusOfRow DEF Status, Present
  <2> QED BY <2>0, <2>1, <1>a
<1>7. ASSUME MarkRunning PROVE PendingIsQueued'
  <2>0. agent.task \in Task /\ UNCHANGED <<normal, prio, rpc, handler, dropped>>
    BY <1>7, HeldTasks DEF MarkRunning
  <2>1. /\ \A u \in Task : u # agent.task => tasks'[u] = tasks[u]
        /\ tasks'[agent.task].status # "Pending"
    BY <1>7, <2>0, StatusOfRow DEF MarkRunning, Status, Present
  <2> QED BY <2>0, <2>1, <1>a
<1>8. ASSUME StartRun \/ RejectOverBudget \/ Conclude \/ EndRun \/ CallbackAnswered \/ EndTask
             \/ (\E c \in Child : Delegate(c))
             \/ (\E reached \in BOOLEAN : CallbackFails(reached))
      PROVE  PendingIsQueued'
  <2>1. agent.at \notin {"got", "mark"} /\ UNCHANGED <<tasks, normal, prio, rpc, handler, dropped>>
    BY <1>8 DEF StartRun, RejectOverBudget, Conclude, EndRun, CallbackAnswered, EndTask, Delegate,
                CallbackFails
  <2> QED BY <2>1, <1>a
<1>9. ASSUME SaveAsyncState \/ CompleteTask PROVE PendingIsQueued'
  <2>0. /\ agent.task \in Task /\ agent.at \in {"ran", "complete"}
        /\ UNCHANGED <<normal, prio, rpc, handler, dropped>>
    BY <1>9, HeldTasks DEF SaveAsyncState, CompleteTask
  <2>1. Rows
    <3>1. CASE CompleteTask
      BY <2>0, <3>1, MadeRows, NewRow DEF CompleteTask
    <3>2. CASE SaveAsyncState
      BY <2>0, <3>2, AsyncRow
    <3> QED BY <1>9, <3>1, <3>2
  <2> QED BY <2>0, <2>1, <1>a
<1>10. ASSUME NEW w \in Writer, ReadIndex(w) \/ WriteIndex(w) PROVE PendingIsQueued'
  BY <1>10, <1>b DEF ReadIndex, WriteIndex
<1>11. ASSUME NEW r \in Rpc, NEW c \in Child, FindParent(r, c) PROVE PendingIsQueued'
  <2>1. rpc[r].task = ""
    BY <1>11 DEF FindParent, Holders
  <2>2. \A q \in Rpc : rpc'[q] = rpc[q] \/ q = r
    BY <1>11, FoundParent
  <2>3. UNCHANGED <<tasks, normal, prio, agent, handler, dropped>>
    BY <1>11 DEF FindParent
  <2> QED BY <2>1, <2>2, <2>3 DEF PendingIsQueued, Queued
<1>12. ASSUME NEW r \in Rpc, InjectCallback(r) PROVE PendingIsQueued'
  <2>0. PICK t \in Task : t = rpc[r].task
    BY <1>12, HeldTasks DEF InjectCallback
  <2>1. \A q \in Rpc : rpc'[q].task = rpc[q].task
    BY <1>12, InjectedThread
  <2>2. \A u \in Task : u # t => tasks'[u] = tasks[u]
    BY <1>12, <2>0, Injected DEF InjectCallback
  <2>3. UNCHANGED <<normal, prio, agent, handler, dropped>>
    BY <1>12 DEF InjectCallback
  <2> QED BY <2>0, <2>1, <2>2, <2>3 DEF PendingIsQueued, Queued
<1>13. ASSUME NEW r \in Rpc, SubmitParent(r) PROVE PendingIsQueued'
  <2>0. PICK t \in Task : t = rpc[r].task
    BY <1>13, HeldTasks DEF SubmitParent
  <2>1. UNCHANGED <<tasks, prio, agent, handler>> /\ Submit(t)
    BY <1>13, <2>0 DEF SubmitParent
  <2>2. /\ \A u \in Task : Queued(u) => Queued(u)'
        /\ Queued(t)' \/ t \in dropped'
        /\ dropped \subseteq dropped'
    BY <2>1, SubmittedTask
  <2>3. \A q \in Rpc : rpc'[q] = rpc[q] \/ q = r
    BY <1>13, SubmittedParent
  <2> QED BY <2>0, <2>1, <2>2, <2>3 DEF PendingIsQueued
<1>14. ASSUME CancelWrite PROVE PendingIsQueued'
  <2>1. Rows
    BY <1>14, StatusOfRow, HeldTasks DEF CancelWrite, Status
  <2> QED BY <1>14, <2>1, <1>a, CancelledAgent DEF CancelWrite
<1>15. ASSUME SweepList PROVE PendingIsQueued'
  BY <1>15, <1>b DEF SweepList
<1>16. ASSUME NEW t \in Task, SweepRemove(t) PROVE PendingIsQueued'
  <2>1. Rows
    BY <1>16, NewRow, MadeRows DEF SweepRemove
  <2> QED BY <1>16, <2>1, <1>a DEF SweepRemove
<1>17. ASSUME Crash PROVE PendingIsQueued'
  BY <1>17, RecoveredQueue DEF PendingIsQueued, Queued
<1>18. CASE UNCHANGED vars
  BY <1>18, <1>b DEF vars, state
<1> QED
  BY <1>1, <1>2, <1>3, <1>4, <1>5, <1>6, <1>7, <1>8, <1>9, <1>10, <1>11, <1>12, <1>13, <1>14,
     <1>15, <1>16, <1>17, <1>18 DEF Next, AgentStep, WriterStep, RpcStep, SweepStep

-------------------------------------------------------------------------------
(* A child's result is injected once.                                      *)

\* The two values that the count of injections takes.
LEMMA Small == 0 <= 1 /\ 1 <= 1 /\ 0 + 1 = 1
OBVIOUS

\* Every step keeps a child that is waited for uninjected.
LEMMA ChildrenStep ==
    ASSUME TypeOK, TypeOK', SoundRows, Holders, Children, Callbacks, InjectedOnce, [Next]_vars
    PROVE  Children' /\ Callbacks' /\ InjectedOnce'
<1>n. "" \notin Task /\ "" \notin Child
  BY TaskAssumption
<1> USE <1>n DEF history
<1> DEFINE Rows == \A t \in Task : tasks'[t].waiting \in {"", tasks[t].waiting}
           Early == {"idle", "select", "got", "mark", "start"}
<1>0. injected \in [Child -> Nat]
  BY DEF TypeOK
<1>a. ASSUME Rows, UNCHANGED <<parent, injected, rpc, overlapped>>,
             agent'.at \in {"run", "ran"} /\ agent'.child \in Child =>
                agent.at \in {"run", "ran"} /\ agent'.child = agent.child /\ agent'.task = agent.task,
             agent'.at \in Early => agent'.child = ""
      PROVE  Children' /\ Callbacks' /\ InjectedOnce'
  BY <1>a DEF Children, Callbacks, InjectedOnce
<1>b. ASSUME Rows, UNCHANGED <<parent, injected, rpc, overlapped>>, agent'.at = agent.at,
             agent'.child = agent.child, agent'.task = agent.task
      PROVE  Children' /\ Callbacks' /\ InjectedOnce'
  BY <1>a, <1>b DEF Children
<1>1. ASSUME NEW t \in Task, Handle(t) PROVE Children' /\ Callbacks' /\ InjectedOnce'
  BY <1>1, <1>b, NewRow, MadeRows DEF Handle
<1>2. ASSUME NEW t \in Task, CancelRead(t) \/ ConfirmDelivery(t)
      PROVE  Children' /\ Callbacks' /\ InjectedOnce'
  BY <1>2, <1>b DEF CancelRead, ConfirmDelivery
<1>3. ASSUME Acknowledge PROVE Children' /\ Callbacks' /\ InjectedOnce'
  <2>1. Rows
    BY <1>3, HeldTasks, NewRow, MadeRows DEF Acknowledge, Enqueue, Refuse
  <2> QED BY <1>3, <2>1, <1>b DEF Acknowledge
<1>4. ASSUME PollPriority PROVE Children' /\ Callbacks' /\ InjectedOnce'
  <2>1. CASE prio # << >>
    <3>1. Head(prio) \in Task /\ Take(Head(prio))
      <4>1. Take(Head(prio)) /\ prio' = Tail(prio) /\ agent.at = "idle"
        BY <1>4, <2>1 DEF PollPriority
      <4>2. prio \in Seq(Task)
        BY DEF TypeOK
      <4>3. Head(prio) \in Task /\ ToSet(prio) = {Head(prio)} \cup ToSet(prio')
        BY <2>1, <4>1, <4>2, PolledLane
      <4> QED BY <1>4, <4>1, <4>3 DEF PollPriority, history
    <3>2. agent'.at = "got" /\ agent'.child = ""
      BY <3>1, AgentUpdates DEF TypeOK
    <3> QED BY <1>4, <3>2, <1>a DEF PollPriority
  <2>2. CASE prio = << >>
    <3>1. AgentAt("select") /\ agent.at = "idle"
      BY <1>4, <2>2 DEF PollPriority
    <3>2. agent'.at = "select" /\ agent'.child = ""
      BY <3>1, AgentUpdates DEF TypeOK, AgentStage, Children
    <3> QED BY <1>4, <3>2, <1>a DEF PollPriority
  <2> QED BY <2>1, <2>2
<1>5. ASSUME Select PROVE Children' /\ Callbacks' /\ InjectedOnce'
  <2>1. \E t \in Task : Take(t)
    BY <1>5, PolledLane DEF Select, TypeOK
  <2>2. agent'.at = "got" /\ agent'.child = ""
    BY <2>1, AgentUpdates DEF TypeOK
  <2> QED BY <1>5, <2>2, <1>a DEF Select
<1>6. ASSUME GetTask PROVE Children' /\ Callbacks' /\ InjectedOnce'
  <2>0. agent.task \in Task /\ agent.at = "got" /\ agent.child = ""
    BY <1>6, HeldTasks DEF GetTask, Children
  <2>1. Rows
    BY <1>6, <2>0, GotTask, StatusOfRow DEF Status
  <2>2. agent'.at \in {"idle", "mark", "callback"} /\ agent'.child = ""
    <3>1. IdleAgent.at = "idle" /\ IdleAgent.child = ""
      BY DEF IdleAgent
    <3> QED BY <1>6, <2>0, <3>1, GotTask
  <2> QED BY <1>6, <2>1, <2>2, <1>a DEF GetTask
<1>7. ASSUME MarkRunning PROVE Children' /\ Callbacks' /\ InjectedOnce'
  <2>0. agent.task \in Task /\ agent.child = ""
    BY <1>7, HeldTasks DEF MarkRunning, Children
  <2>1. Rows
    BY <1>7, <2>0, StatusOfRow DEF MarkRunning, Status
  <2>2. agent'.at = "start" /\ agent'.child = ""
    BY <1>7, <2>0, AgentUpdates DEF MarkRunning, TypeOK, AgentStage
  <2> QED BY <1>7, <2>1, <2>2, <1>a DEF MarkRunning
<1>8. ASSUME StartRun PROVE Children' /\ Callbacks' /\ InjectedOnce'
  <2>1. agent'.at = "run" /\ agent'.child = ""
    BY <1>8, AgentUpdates DEF StartRun, TypeOK, AgentStage, Children
  <2> QED BY <1>8, <2>1, <1>a DEF StartRun
<1>9. ASSUME RejectOverBudget \/ Conclude PROVE Children' /\ Callbacks' /\ InjectedOnce'
  <2>1. agent'.at = "callback"
    BY <1>9, AgentUpdates DEF RejectOverBudget, Conclude, TypeOK
  <2> QED BY <1>9, <2>1, <1>a DEF RejectOverBudget, Conclude
<1>10. ASSUME NEW c \in Child, Delegate(c) PROVE Children' /\ Callbacks' /\ InjectedOnce'
  <2>1. /\ agent'.at = "run" /\ agent'.child = c /\ agent'.task = agent.task
        /\ UNCHANGED <<tasks, injected>> /\ parent[c] = ""
    BY <1>10 DEF Delegate, TypeOK, AgentType
  <2>2. parent'[c] = agent.task /\ \A d \in Child : d # c => parent'[d] = parent[d]
    <3>1. parent \in [Child -> Task \cup {""}]
      BY DEF TypeOK
    <3> QED BY <1>10, <3>1 DEF Delegate
  <2>3. injected[c] = 0
    BY <2>1 DEF Children
  <2>4. \A t \in Task : tasks[t].waiting # c
    BY <2>1 DEF SoundRows, Sound
  <2>5. agent.task # "" /\ UNCHANGED <<rpc, overlapped>>
    BY <1>10 DEF Delegate, Holders
  <2>6. \A r \in Rpc : rpc[r].at = "inject" => rpc[r].child # c /\ rpc[r].task # ""
    BY <2>1 DEF Callbacks, Holders
  <2>7. Callbacks'
    BY <2>1, <2>2, <2>5, <2>6 DEF Callbacks
  <2> QED BY <2>1, <2>2, <2>3, <2>4, <2>5, <2>7 DEF Children, InjectedOnce
<1>11. ASSUME EndRun PROVE Children' /\ Callbacks' /\ InjectedOnce'
  <2>1. agent'.at = "ran" /\ agent'.task = agent.task /\ agent'.child = agent.child
    BY <1>11, AgentUpdates DEF EndRun, TypeOK, AgentStage
  <2> QED BY <1>11, <2>1, <1>a DEF EndRun
<1>12. ASSUME SaveAsyncState PROVE Children' /\ Callbacks' /\ InjectedOnce'
  <2>1. /\ agent.task \in Task /\ agent'.at = "persist" /\ agent.at = "ran"
        /\ agent.child \in Child /\ UNCHANGED <<parent, injected, rpc, overlapped>>
    BY <1>12, AgentUpdates, HeldTasks DEF SaveAsyncState, TypeOK, AgentStage
  <2>2. injected[agent.child] = 0
    BY <2>1 DEF Children
  <2>3. \A u \in Task : tasks'[u].waiting \in {tasks[u].waiting, agent.child}
    BY <1>12, <2>1, AsyncRow
  <2>4. Callbacks'
    BY <2>1 DEF Callbacks
  <2> QED BY <2>1, <2>2, <2>3, <2>4 DEF Children, InjectedOnce
<1>13. ASSUME CallbackAnswered PROVE Children' /\ Callbacks' /\ InjectedOnce'
  <2>1. agent'.at = "complete"
    BY <1>13, AgentUpdates DEF CallbackAnswered, TypeOK, AgentStage
  <2> QED BY <1>13, <2>1, <1>a DEF CallbackAnswered
<1>14. ASSUME NEW reached \in BOOLEAN, CallbackFails(reached) PROVE Children' /\ Callbacks' /\ InjectedOnce'
  <2>1. agent'.at \in {"callback", "complete"}
    <3>1. CASE AgentAt("complete")
      BY <1>14, <3>1, AgentUpdates DEF CallbackFails, TypeOK, AgentStage
    <3>2. CASE agent' = [agent EXCEPT !.tries = agent.tries + 1]
      BY <1>14, <3>2 DEF CallbackFails, TypeOK, AgentType
    <3> QED BY <1>14, <3>1, <3>2 DEF CallbackFails
  <2> QED BY <1>14, <2>1, <1>a DEF CallbackFails
<1>15. ASSUME CompleteTask PROVE Children' /\ Callbacks' /\ InjectedOnce'
  <2>1. agent'.at = "persist"
    BY <1>15, AgentUpdates DEF CompleteTask, TypeOK, AgentStage
  <2>2. Rows
    BY <1>15, HeldTasks, NewRow, MadeRows DEF CompleteTask
  <2> QED BY <1>15, <2>1, <2>2, <1>a DEF CompleteTask
<1>16. ASSUME EndTask PROVE Children' /\ Callbacks' /\ InjectedOnce'
  BY <1>16, <1>a DEF EndTask, IdleAgent
<1>17. ASSUME NEW w \in Writer, ReadIndex(w) \/ WriteIndex(w) PROVE Children' /\ Callbacks' /\ InjectedOnce'
  BY <1>17, <1>b DEF ReadIndex, WriteIndex
<1>18. ASSUME NEW r \in Rpc, NEW c \in Child, FindParent(r, c)
       PROVE  Children' /\ Callbacks' /\ InjectedOnce'
  <2>1. UNCHANGED <<tasks, parent, injected, agent>>
    BY <1>18 DEF FindParent
  <2>2. CASE rpc' = rpc /\ overlapped' = overlapped
    BY <2>1, <2>2, <1>b
  <2>3. CASE /\ rpc'[r].at = "inject" /\ rpc'[r].child = c
             /\ rpc'[r].task \in Task /\ tasks[rpc'[r].task].waiting = c
             /\ overlapped \subseteq overlapped'
             /\ \A q \in Rpc : rpc[q].at = "inject" /\ rpc[q].child = c => c \in overlapped'
             /\ \A q \in Rpc : q # r => rpc'[q] = rpc[q]
    <3>1. PICK t \in Task : t = rpc'[r].task
      BY <2>3
    <3>2. parent[c] = t /\ injected[c] = 0 /\ (agent.child = c => agent.at \notin {"run", "ran"})
      BY <2>3, <3>1 DEF Children, SoundRows, Sound
    <3>3. Children'
      BY <2>1 DEF Children
    <3>4. ASSUME NEW q \in Rpc, rpc'[q].at = "inject"
          PROVE  /\ rpc'[q].child \in Child
                 /\ parent[rpc'[q].child] = rpc'[q].task
                 /\ agent.child = rpc'[q].child => agent.at \notin {"run", "ran"}
                 /\ injected[rpc'[q].child] = 0 \/ rpc'[q].child \in overlapped'
                 /\ \A p \in Rpc : rpc'[p].at = "inject" /\ rpc'[p].child = rpc'[q].child =>
                                      p = q \/ rpc'[q].child \in overlapped'
      <4>1. CASE q = r
        BY <2>3, <3>1, <3>2, <4>1
      <4>2. CASE q # r
        BY <2>3, <3>4, <4>2 DEF Callbacks
      <4> QED BY <4>1, <4>2
    <3>5. Callbacks'
      BY <2>1, <3>4 DEF Callbacks
    <3>6. InjectedOnce'
      BY <2>1, <2>3 DEF InjectedOnce
    <3> QED BY <3>3, <3>5, <3>6
  <2> QED BY <1>18, <2>2, <2>3, FoundParent
<1>19. ASSUME NEW r \in Rpc, InjectCallback(r) PROVE Children' /\ Callbacks' /\ InjectedOnce'
  <2>0. PICK t \in Task : t = rpc[r].task
    BY <1>19, HeldTasks DEF InjectCallback
  <2>1. UNCHANGED <<agent, parent, overlapped>>
    BY <1>19 DEF InjectCallback
  <2>2. Rows
    BY <1>19, <2>0, Injected, MadeRows DEF InjectCallback
  <2>3. PICK c \in Child :
           /\ c = rpc[r].child /\ parent[c] = t
           /\ injected[c] = 0 \/ c \in overlapped
           /\ agent.at \in {"run", "ran"} => agent.child # c
           /\ \A q \in Rpc : rpc[q].at = "inject" /\ rpc[q].child = c => q = r \/ c \in overlapped
    BY <1>19, <2>0 DEF InjectCallback, Callbacks
  <2>4. \A q \in Rpc : rpc'[q].at = "inject" => q # r /\ rpc'[q] = rpc[q]
    BY <1>19, InjectedThread
  <2>5. CASE injected' = injected
    <3>1. Children'
      <4>1. ASSUME NEW d \in Child, agent.child = d, agent.at \in {"run", "ran"}
            PROVE  \A u \in Task : tasks'[u].waiting # d
        BY <2>2, <4>1 DEF Children
      <4>2. \A u \in Task : tasks'[u].waiting \in Child => injected[tasks'[u].waiting] = 0
        BY <2>2 DEF Children
      <4> QED BY <2>1, <2>5, <4>1, <4>2 DEF Children
    <3>2. Callbacks'
      <4>1. ASSUME NEW q \in Rpc, rpc'[q].at = "inject"
            PROVE  /\ rpc'[q].child \in Child
                   /\ parent[rpc'[q].child] = rpc'[q].task
                   /\ agent.child = rpc'[q].child => agent.at \notin {"run", "ran"}
                   /\ injected[rpc'[q].child] = 0 \/ rpc'[q].child \in overlapped
                   /\ \A p \in Rpc : rpc'[p].at = "inject" /\ rpc'[p].child = rpc'[q].child =>
                                        p = q \/ rpc'[q].child \in overlapped
        <5>1. rpc'[q] = rpc[q] /\ \A p \in Rpc : rpc'[p].at = "inject" => rpc'[p] = rpc[p]
          BY <2>4, <4>1
        <5> QED BY <4>1, <5>1 DEF Callbacks
      <4> QED BY <2>1, <2>5, <4>1 DEF Callbacks
    <3> QED BY <2>1, <2>5, <3>1, <3>2 DEF InjectedOnce
  <2>6. CASE /\ Present(t) /\ tasks[t].status # "Cancelled"
             /\ injected' = [injected EXCEPT ![c] = injected[c] + 1]
    <3>1. \A d \in Child : d # c => injected'[d] = injected[d]
      BY <1>0, <2>6
    <3>2. tasks'[t].waiting = ""
      BY <1>19, <2>0, <2>6, Injected DEF InjectCallback
    <3>3. \A u \in Task : tasks[u].waiting = c => u = t
      BY <2>3 DEF SoundRows, Sound
    <3>4. \A u \in Task : tasks'[u].waiting # c
      BY <2>0, <2>2, <3>2, <3>3
    <3>5. Children'
      <4>1. \A d \in Child : injected'[d] # 0 => parent'[d] # ""
        BY <2>0, <2>1, <2>3, <3>1 DEF Children
      <4>2. ASSUME NEW d \in Child, agent.child = d, agent.at \in {"run", "ran"}
            PROVE  /\ parent[d] = agent.task /\ injected'[d] = 0
                   /\ \A u \in Task : tasks'[u].waiting # d
        BY <2>2, <2>3, <3>1, <4>2 DEF Children
      <4>3. \A u \in Task : tasks'[u].waiting \in Child => injected'[tasks'[u].waiting] = 0
        BY <2>2, <3>1, <3>4 DEF Children
      <4>4. agent'.at \in Early => agent'.child = ""
        BY <2>1 DEF Children
      <4> QED BY <2>1, <4>1, <4>2, <4>3, <4>4 DEF Children
    <3>6. Callbacks'
      <4>1. ASSUME NEW q \in Rpc, rpc'[q].at = "inject"
            PROVE  /\ rpc'[q].child \in Child
                   /\ parent[rpc'[q].child] = rpc'[q].task
                   /\ agent.child = rpc'[q].child => agent.at \notin {"run", "ran"}
                   /\ injected'[rpc'[q].child] = 0 \/ rpc'[q].child \in overlapped
                   /\ \A p \in Rpc : rpc'[p].at = "inject" /\ rpc'[p].child = rpc'[q].child =>
                                        p = q \/ rpc'[q].child \in overlapped
        <5>1. /\ q # r /\ rpc[q].at = "inject" /\ rpc'[q] = rpc[q]
              /\ \A p \in Rpc : rpc'[p].at = "inject" => rpc'[p] = rpc[p]
          BY <2>4, <4>1
        <5>2. rpc[q].child # c \/ c \in overlapped
          BY <2>3, <5>1
        <5>3. rpc[q].child # c => injected'[rpc[q].child] = injected[rpc[q].child]
          BY <3>1, <5>1 DEF Callbacks
        <5> QED BY <5>1, <5>2, <5>3 DEF Callbacks
      <4> QED BY <2>1, <4>1 DEF Callbacks
    <3>7. injected'[c] = 1 \/ c \in overlapped
      <4>1. injected'[c] = injected[c] + 1
        BY <1>0, <2>6
      <4>2. injected[c] = 0 => injected'[c] = 1
        BY <4>1, Small
      <4> QED BY <2>3, <4>2
    <3>8. InjectedOnce'
      BY <2>1, <3>1, <3>7, Small DEF InjectedOnce
    <3> QED BY <3>5, <3>6, <3>8
  <2> QED BY <1>19, <2>0, <2>3, <2>5, <2>6 DEF InjectCallback
<1>20. ASSUME NEW r \in Rpc, SubmitParent(r) PROVE Children' /\ Callbacks' /\ InjectedOnce'
  <2>1. UNCHANGED <<tasks, agent, parent, injected, overlapped>>
    BY <1>20 DEF SubmitParent
  <2>2. \A q \in Rpc : rpc'[q].at = "inject" => rpc'[q] = rpc[q]
    <3>1. rpc'[r].at = "idle" /\ \A q \in Rpc : q # r => rpc'[q] = rpc[q]
      BY <1>20, SubmittedParent
    <3> QED BY <3>1
  <2>3. Callbacks'
    <3>1. ASSUME NEW q \in Rpc, rpc'[q].at = "inject"
          PROVE  /\ rpc'[q].child \in Child
                 /\ parent[rpc'[q].child] = rpc'[q].task
                 /\ agent.child = rpc'[q].child => agent.at \notin {"run", "ran"}
                 /\ injected[rpc'[q].child] = 0 \/ rpc'[q].child \in overlapped
                 /\ \A p \in Rpc : rpc'[p].at = "inject" /\ rpc'[p].child = rpc'[q].child =>
                                      p = q \/ rpc'[q].child \in overlapped
      <4>1. rpc'[q] = rpc[q] /\ \A p \in Rpc : rpc'[p].at = "inject" => rpc'[p] = rpc[p]
        BY <2>2, <3>1
      <4> QED BY <3>1, <4>1 DEF Callbacks
    <3> QED BY <2>1, <3>1 DEF Callbacks
  <2> QED BY <2>1, <2>3 DEF Children, InjectedOnce
<1>21. ASSUME CancelWrite PROVE Children' /\ Callbacks' /\ InjectedOnce'
  <2>1. Rows
    BY <1>21, StatusOfRow, HeldTasks DEF CancelWrite, Status
  <2> QED BY <1>21, <2>1, <1>b, CancelledAgent DEF CancelWrite
<1>22. ASSUME SweepList PROVE Children' /\ Callbacks' /\ InjectedOnce'
  BY <1>22, <1>b DEF SweepList
<1>23. ASSUME NEW t \in Task, SweepRemove(t) PROVE Children' /\ Callbacks' /\ InjectedOnce'
  <2>1. Rows
    BY <1>23, NewRow, MadeRows DEF SweepRemove
  <2> QED BY <1>23, <2>1, <1>b DEF SweepRemove
<1>24. ASSUME Crash PROVE Children' /\ Callbacks' /\ InjectedOnce'
  <2>1. injected' = [c \in Child |-> 0] /\ agent'.at = "idle" /\ agent'.child = ""
    BY <1>24 DEF Crash, IdleAgent
  <2>2. \A c \in Child : injected'[c] = 0
    BY <2>1
  <2>3. \A t \in Task : tasks'[t].waiting \in Child => injected'[tasks'[t].waiting] = 0
    BY <2>2
  <2>4. Children'
    BY <2>1, <2>2, <2>3 DEF Children
  <2>5. Callbacks'
    BY <1>24 DEF Crash, IdleThread, Callbacks
  <2> QED BY <2>2, <2>4, <2>5, Small DEF InjectedOnce
<1>25. CASE UNCHANGED vars
  BY <1>25, <1>b DEF vars, state
<1> QED
  BY <1>1, <1>2, <1>3, <1>4, <1>5, <1>6, <1>7, <1>8, <1>9, <1>10, <1>11, <1>12, <1>13, <1>14,
     <1>15, <1>16, <1>17, <1>18, <1>19, <1>20, <1>21, <1>22, <1>23, <1>24, <1>25
     DEF Next, AgentStep, WriterStep, RpcStep, SweepStep

-------------------------------------------------------------------------------
(* A task leaves its outcome behind.                                       *)

\* A crash is counted.
LEMMA Crashes ==
    ASSUME TypeOK, Crash
    PROVE  crashes' # 0 /\ crashes' # crashes
<1>1. crashes \in 0..MaxCrash /\ MaxCrash \in Nat
  BY BoundAssumption DEF TypeOK
<1>2. crashes' = crashes + 1
  BY DEF Crash
<1> QED BY <1>1, <1>2

\* Every step that removes a row leaves the trace that the sender needs.
LEMMA TracesStep ==
    ASSUME TypeOK, TypeOK', SoundRows, Holders, Traces, [Next]_vars
    PROVE  Traces'
<1>n. "" \notin Task
  BY TaskAssumption
<1>t. /\ result \in [Task -> {"none", "running", "done"}] /\ accepted \subseteq Task
      /\ answer \in [Task -> {"", "running", "queued"}] /\ handler \in Task \cup {""}
  BY DEF TypeOK
<1> USE <1>n DEF history
<1> DEFINE Kept == \A t \in Task :
                      Present(t) => Present(t)' \/ t \in forgotten' \/ result'[t] # "running"
           Ends == \A t \in Task :
                      tasks'[t].status \in Terminal =>
                         tasks[t].status = tasks'[t].status \/ answer'[t] # ""
           Answers == /\ \A t \in Task : answer[t] # "" => answer'[t] # ""
                      /\ forgotten \subseteq forgotten'
                      /\ \A t \in Task : t \in forgotten' => t \in forgotten \/ answer'[t] # ""
           Outcomes == /\ heard \subseteq heard'
                       /\ \A t \in Task : result[t] = "done" => result'[t] = "done" \/ t \in heard'
                       /\ \A t \in Task : result[t] = "running" <=> result'[t] = "running"
           Completing == agent'.at = "complete" =>
                            agent.at = "complete" /\ agent'.task = agent.task
                            /\ agent.task \in Task
\* What a step has to show that only adds to what is known of a task.
<1>a. ASSUME Kept, Ends, Answers, Outcomes, Completing, sweep' \subseteq sweep,
             handler' \in {"", handler}, accepted' = accepted, crashes' = crashes
      PROVE  Traces'
  <2>1. \A t \in Task : tasks'[t].status \in Terminal \/ t \in sweep' \/ t \in forgotten'
                        => answer'[t] # ""
    BY <1>a DEF Traces
  <2>2. \A t \in Task : result'[t] = "running" => Present(t)' \/ t \in forgotten'
    BY <1>a DEF Traces
  <2>3. handler' # "" => result'[handler'] = "running"
    BY <1>a, <1>t DEF Traces
  <2>4. agent'.at = "complete" =>
           /\ result'[agent'.task] # "running"
           /\ agent'.task \in heard' \/ result'[agent'.task] = "done"
    BY <1>a DEF Traces
  <2>5. crashes' = 0 => \A t \in accepted' : t \in heard' \/ result'[t] \in {"running", "done"}
    BY <1>a, <1>t DEF Traces
  <2> QED BY <2>1, <2>2, <2>3, <2>4, <2>5 DEF Traces
<1>b. ASSUME UNCHANGED <<tasks, answer, result, handler, sweep, accepted, crashes, heard, forgotten>>,
             Completing
      PROVE  Traces'
  BY <1>b, <1>a DEF Present
<1>c. agent.at = "complete" => agent.task \in Task
  BY HeldTasks
<1>1. ASSUME NEW t \in Task, Handle(t) PROVE Traces'
  <2>1. /\ tasks'[t].status = "Pending" /\ \A u \in Task : u # t => tasks'[u] = tasks[u]
        /\ t \notin received /\ handler' = t /\ result' = [result EXCEPT ![t] = "running"]
        /\ UNCHANGED <<agent, answer, sweep, accepted, crashes, heard, forgotten>>
    BY <1>1, NewRow, MadeRows DEF Handle
  <2>2. result'[t] = "running" /\ \A u \in Task : u # t => result'[u] = result[u]
    BY <1>t, <2>1
  <2>3. agent.task # t /\ t \notin accepted
    BY <2>1 DEF Holders, Held
  <2>4. \A u \in Task : tasks'[u].status \in Terminal \/ u \in sweep \/ u \in forgotten
                        => answer[u] # ""
    BY <2>1 DEF Traces, Terminal
  <2>5. \A u \in Task : result'[u] = "running" => Present(u)' \/ u \in forgotten
    BY <2>1, <2>2 DEF Traces, Present
  <2>6. agent.at = "complete" =>
          /\ result'[agent.task] # "running"
          /\ agent.task \in heard \/ result'[agent.task] = "done"
    BY <1>c, <2>2, <2>3 DEF Traces
  <2>7. crashes = 0 => \A u \in accepted : u \in heard \/ result'[u] \in {"running", "done"}
    BY <1>t, <2>2, <2>3 DEF Traces
  <2> QED BY <2>1, <2>2, <2>4, <2>5, <2>6, <2>7 DEF Traces
<1>2. ASSUME NEW t \in Task, CancelRead(t) PROVE Traces'
  BY <1>2, <1>b, <1>c DEF CancelRead
<1>3. ASSUME NEW t \in Task, ConfirmDelivery(t) PROVE Traces'
  <2>1. /\ result'[t] = "none" /\ \A u \in Task : u # t => result'[u] = result[u]
        /\ heard' = heard \cup {t}
    BY <1>t, <1>3 DEF ConfirmDelivery
  <2>2. Outcomes
    <3>1. result[t] = "done"
      BY <1>3 DEF ConfirmDelivery
    <3> QED BY <2>1, <3>1
  <2> QED BY <1>3, <2>2, <1>a, <1>c DEF ConfirmDelivery, Present
<1>4. ASSUME Acknowledge PROVE Traces'
  <2>0. /\ handler \in Task /\ handler' = "" /\ handler \in received \ accepted
        /\ UNCHANGED <<agent, answer, sweep, crashes, heard, forgotten>>
    BY <1>4, HeldTasks DEF Acknowledge, Holders
  <2>1. CASE Enqueue(handler)
    <3>1. UNCHANGED <<tasks, result>> /\ accepted' = accepted \cup {handler}
      BY <2>1 DEF Enqueue
    <3>2. result[handler] = "running"
      BY <2>0 DEF Traces
    <3> QED BY <2>0, <3>1, <3>2 DEF Traces, Present
  <2>2. CASE Refuse(handler)
    <3>1. /\ tasks'[handler] = Absent /\ \A u \in Task : u # handler => tasks'[u] = tasks[u]
          /\ accepted' = accepted
          /\ result' = [result EXCEPT ![handler] = "none"]
      BY <2>0, <2>2, NewRow, MadeRows DEF Refuse
    <3>2. result'[handler] = "none" /\ \A u \in Task : u # handler => result'[u] = result[u]
      BY <1>t, <2>0, <3>1
    <3>3. agent.at = "complete" => agent.task # handler /\ agent.task \in Task
      BY <1>c DEF Holders, Held
    <3>4. \A u \in Task : tasks'[u].status \in Terminal \/ u \in sweep \/ u \in forgotten
                          => answer[u] # ""
      BY <3>1, MadeRows DEF Traces, Terminal
    <3>5. \A u \in Task : result'[u] = "running" => Present(u)' \/ u \in forgotten
      BY <3>1, <3>2 DEF Traces, Present
    <3>6. agent.at = "complete" =>
            /\ result'[agent.task] # "running"
            /\ agent.task \in heard \/ result'[agent.task] = "done"
      BY <3>2, <3>3 DEF Traces
    <3>7. crashes = 0 => \A u \in accepted : u \in heard \/ result'[u] \in {"running", "done"}
      BY <1>t, <2>0, <3>2 DEF Traces
    <3> QED BY <2>0, <3>1, <3>4, <3>5, <3>6, <3>7 DEF Traces
  <2> QED BY <1>4, <2>1, <2>2 DEF Acknowledge
<1>5. ASSUME PollPriority PROVE Traces'
  <2>1. agent'.at \in {"got", "select"}
    <3>1. agent \in AgentType
      BY DEF TypeOK
    <3> QED BY <1>5, <3>1 DEF PollPriority, Take, AgentAt, IdleAgent, AgentType
  <2> QED BY <1>5, <2>1, <1>b DEF PollPriority
<1>6. ASSUME Select PROVE Traces'
  <2>1. agent'.at = "got"
    BY <1>6 DEF Select, Take, IdleAgent
  <2> QED BY <1>6, <2>1, <1>b DEF Select
<1>7. ASSUME GetTask PROVE Traces'
  <2>0. agent.task \in Task
        /\ UNCHANGED <<answer, result, handler, sweep, accepted, crashes, heard, forgotten>>
    BY <1>7, HeldTasks DEF GetTask
  <2>1. agent'.at \in {"idle", "mark", "callback"}
    <3>1. IdleAgent.at = "idle"
      BY DEF IdleAgent
    <3> QED BY <1>7, <3>1, GotTask
  <2>2. Kept /\ Ends
    <3>1. CASE tasks' = tasks
      BY <3>1 DEF Present
    <3>2. CASE tasks[agent.task].status = "Cancelled" /\ UpdateStatus(agent.task, "Failed")
      <4>1. answer[agent.task] # ""
        BY <2>0, <3>2 DEF Traces, Terminal
      <4>2. \A u \in Task : u # agent.task => tasks'[u] = tasks[u]
        BY <2>0, <3>2, StatusOfRow DEF Status
      <4>3. tasks'[agent.task].status # "Absent"
        BY <2>0, <3>2, StatusOfRow DEF Status, Present
      <4>4. Kept
        BY <2>0, <4>2, <4>3 DEF Present
      <4>5. Ends
        BY <2>0, <4>1, <4>2
      <4> QED BY <4>4, <4>5
    <3> QED BY <1>7, <3>1, <3>2, GotTask
  <2> QED BY <2>0, <2>1, <2>2, <1>a
<1>8. ASSUME MarkRunning PROVE Traces'
  <2>0. agent.task \in Task
    BY <1>8, HeldTasks DEF MarkRunning
  <2>1. agent'.at = "start"
    BY <1>8, AgentUpdates DEF MarkRunning, TypeOK, AgentStage
  <2>2. Kept /\ Ends
    BY <1>8, <2>0, StatusOfRow DEF MarkRunning, Status, Present, Terminal
  <2> QED BY <1>8, <2>1, <2>2, <1>a DEF MarkRunning
<1>9. ASSUME StartRun \/ EndRun PROVE Traces'
  <2>1. agent'.at \in {"run", "ran"}
    BY <1>9, AgentUpdates DEF StartRun, EndRun, TypeOK, AgentStage
  <2> QED BY <1>9, <2>1, <1>b DEF StartRun, EndRun
<1>10. ASSUME RejectOverBudget \/ Conclude PROVE Traces'
  <2>1. agent'.at = "callback"
    BY <1>10, AgentUpdates DEF RejectOverBudget, Conclude, TypeOK
  <2> QED BY <1>10, <2>1, <1>b DEF RejectOverBudget, Conclude
<1>11. ASSUME NEW c \in Child, Delegate(c) PROVE Traces'
  <2>1. agent'.at = "run"
    BY <1>11 DEF Delegate, TypeOK, AgentType
  <2> QED BY <1>11, <2>1, <1>b DEF Delegate
<1>12. ASSUME SaveAsyncState PROVE Traces'
  <2>0. agent.task \in Task /\ agent'.at = "persist"
    BY <1>12, HeldTasks, AgentUpdates DEF SaveAsyncState, TypeOK, AgentStage
  <2>1. Kept /\ Ends
    BY <1>12, <2>0, AsyncRow DEF Present, Terminal
  <2> QED BY <1>12, <2>0, <2>1, <1>a DEF SaveAsyncState
<1>13. ASSUME NEW t \in Task, t = agent.task, agent'.at = "complete", agent'.task = t,
              \/ result' = [result EXCEPT ![t] = "none"] /\ heard' = heard \cup {t}
              \/ result' = [result EXCEPT ![t] = "done"] /\ heard' \in {heard, heard \cup {t}},
              UNCHANGED <<tasks, answer, handler, sweep, accepted, crashes, forgotten>>
       PROVE  Traces'
  <2>1. result'[t] # "running" /\ (t \in heard' \/ result'[t] = "done")
        /\ heard \subseteq heard' /\ \A u \in Task : u # t => result'[u] = result[u]
    BY <1>t, <1>13
  <2>2. handler # t
    BY <1>13 DEF Holders, Held
  <2>3. handler # "" => result'[handler] = "running"
    BY <1>t, <2>1, <2>2 DEF Traces
  <2>4. crashes = 0 => \A u \in accepted : u \in heard' \/ result'[u] \in {"running", "done"}
    BY <1>t, <2>1 DEF Traces
  <2>5. \A u \in Task : result'[u] = "running" => Present(u) \/ u \in forgotten
    BY <2>1 DEF Traces
  <2> QED BY <1>13, <2>1, <2>3, <2>4, <2>5 DEF Traces, Present
<1>14. ASSUME CallbackAnswered PROVE Traces'
  <2>1. agent.task \in Task /\ agent'.at = "complete" /\ agent'.task = agent.task
    BY <1>14, HeldTasks, AgentUpdates DEF CallbackAnswered, TypeOK, AgentStage
  <2> QED BY <1>14, <2>1, <1>13 DEF CallbackAnswered
<1>15. ASSUME NEW reached \in BOOLEAN, CallbackFails(reached) PROVE Traces'
  <2>0. /\ agent.task \in Task
        /\ UNCHANGED <<tasks, answer, handler, sweep, accepted, crashes, forgotten>>
        /\ heard' \in {heard, heard \cup {agent.task}} /\ agent.at = "callback"
    BY <1>15, HeldTasks DEF CallbackFails
  <2>1. CASE AgentAt("complete") /\ result' = [result EXCEPT ![agent.task] = "done"]
    <3>1. agent'.at = "complete" /\ agent'.task = agent.task
      BY <2>1, AgentUpdates DEF TypeOK, AgentStage
    <3> QED BY <2>0, <2>1, <3>1, <1>13
  <2>2. CASE agent' = [agent EXCEPT !.tries = agent.tries + 1] /\ UNCHANGED result
    <3>1. agent'.at = "callback"
      BY <2>0, <2>2 DEF TypeOK, AgentType
    <3> QED BY <2>0, <2>2, <3>1, <1>a DEF Present
  <2> QED BY <1>15, <2>1, <2>2 DEF CallbackFails
<1>16. ASSUME CompleteTask PROVE Traces'
  <2>0. agent.task \in Task /\ agent'.at = "persist" /\ agent.at = "complete"
    BY <1>16, HeldTasks, AgentUpdates DEF CompleteTask, TypeOK, AgentStage
  <2>1. tasks'[agent.task] = Absent /\ \A u \in Task : u # agent.task => tasks'[u] = tasks[u]
    BY <1>16, <2>0, NewRow, MadeRows DEF CompleteTask
  <2>2. result[agent.task] # "running" /\ result' = result
    BY <1>16, <2>0 DEF Traces, CompleteTask
  <2>3. Kept /\ Ends
    BY <2>1, <2>2, MadeRows DEF Present, Terminal
  <2> QED BY <1>16, <2>0, <2>3, <1>a DEF CompleteTask
<1>17. ASSUME EndTask PROVE Traces'
  <2>1. agent'.at = "idle"
    BY <1>17 DEF EndTask, IdleAgent
  <2> QED BY <1>17, <2>1, <1>b DEF EndTask
<1>18. ASSUME NEW w \in Writer, ReadIndex(w) \/ WriteIndex(w) PROVE Traces'
  BY <1>18, <1>b, <1>c DEF ReadIndex, WriteIndex
<1>19. ASSUME NEW r \in Rpc, NEW c \in Child, FindParent(r, c) PROVE Traces'
  BY <1>19, <1>b, <1>c DEF FindParent
<1>20. ASSUME NEW r \in Rpc, InjectCallback(r) PROVE Traces'
  <2>0. PICK t \in Task : t = rpc[r].task
    BY <1>20, HeldTasks DEF InjectCallback
  <2>1. UNCHANGED <<agent, answer, result, handler, sweep, accepted, crashes, heard>>
    BY <1>20 DEF InjectCallback
  <2>2. CASE tasks[t].status = "Cancelled"
    <3>1. answer[t] # "" /\ Forget(t)
      BY <1>20, <2>0, <2>2 DEF InjectCallback, Traces, Terminal
    <3>2. tasks'[t] = Absent /\ \A u \in Task : u # t => tasks'[u] = tasks[u]
      BY <1>20, <2>0, <2>2, Injected, MadeRows DEF InjectCallback, Present
    <3>3. Kept /\ Ends /\ Answers
      BY <2>1, <3>1, <3>2, MadeRows DEF Present, Terminal, Forget
    <3> QED BY <2>1, <3>3, <1>a, <1>c
  <2>3. CASE tasks[t].status # "Cancelled"
    <3>1. forgotten' = forgotten
      BY <1>20, <2>0, <2>3 DEF InjectCallback
    <3>2. Kept /\ Ends
      BY <1>20, <2>0, <2>3, Injected DEF InjectCallback, Present, Terminal
    <3> QED BY <2>1, <3>1, <3>2, <1>a, <1>c
  <2> QED BY <2>2, <2>3
<1>21. ASSUME NEW r \in Rpc, SubmitParent(r) PROVE Traces'
  BY <1>21, <1>b, <1>c DEF SubmitParent
<1>22. ASSUME CancelWrite PROVE Traces'
  <2>0. canceller.task \in Task
    BY <1>22, HeldTasks DEF CancelWrite
  <2>1. answer'[canceller.task] # "" /\ \A u \in Task : u # canceller.task => answer'[u] = answer[u]
    BY <1>t, <1>22, <2>0 DEF CancelWrite
  <2>2. /\ \A u \in Task : u # canceller.task => tasks'[u] = tasks[u]
        /\ Present(canceller.task) => tasks'[canceller.task].status # "Absent"
    BY <1>22, <2>0, StatusOfRow DEF CancelWrite, Status
  <2>3. Kept /\ Ends
    BY <2>0, <2>1, <2>2 DEF Present
  <2>4. Answers
    BY <1>22, <2>1 DEF CancelWrite
  <2> QED BY <1>22, <2>3, <2>4, <1>a, <1>c, CancelledAgent DEF CancelWrite
<1>23. ASSUME SweepList PROVE Traces'
  <2>1. \A t \in Task : t \in sweep' => answer[t] # ""
    BY <1>23 DEF SweepList, Traces
  <2>2. UNCHANGED <<tasks, answer, result, handler, accepted, crashes, heard, agent, forgotten>>
    BY <1>23 DEF SweepList
  <2> QED BY <2>1, <2>2 DEF Traces, Present
<1>24. ASSUME NEW t \in Task, SweepRemove(t) PROVE Traces'
  <2>1. answer[t] # ""
    BY <1>24 DEF SweepRemove, Traces
  <2>2. tasks'[t] = Absent /\ \A u \in Task : u # t => tasks'[u] = tasks[u]
    BY <1>24, NewRow, MadeRows DEF SweepRemove
  <2>3. UNCHANGED <<agent, answer, result, handler, accepted, crashes, heard>> /\ sweep' \subseteq sweep
    BY <1>24 DEF SweepRemove
  <2>4. /\ Present(t) => Forget(t)
        /\ ~Present(t) => forgotten' = forgotten
    BY <1>24 DEF SweepRemove
  <2>5. Kept /\ Ends /\ Answers
    BY <2>1, <2>2, <2>3, <2>4, MadeRows DEF Present, Terminal, Forget
  <2> QED BY <2>3, <2>5, <1>a, <1>c
<1>25. ASSUME Crash PROVE Traces'
  <2>1. /\ handler' = "" /\ sweep' = {} /\ agent'.at = "idle" /\ tasks' = Recovered(disk)
        /\ result' = [t \in Task |-> IF result[t] = "running" THEN "none" ELSE result[t]]
    BY <1>25 DEF Crash, IdleAgent
  <2>2. \A t \in Task : tasks'[t].status \notin Terminal
    <3>1. disk \in [Task -> Row]
      BY DEF TypeOK
    <3> QED BY <2>1, <3>1, RecoveredRows, MadeRows DEF Terminal
  <2>3. \A t \in Task : result'[t] # "running"
    BY <2>1
  <2>4. crashes' # 0
    BY <1>25, Crashes
  <2>5. UNCHANGED <<answer, forgotten>>
    BY <1>25 DEF Crash
  <2> QED BY <2>1, <2>2, <2>3, <2>4, <2>5 DEF Traces
<1>26. CASE UNCHANGED vars
  BY <1>26, <1>b, <1>c DEF vars, state
<1> QED
  BY <1>1, <1>2, <1>3, <1>4, <1>5, <1>6, <1>7, <1>8, <1>9, <1>10, <1>11, <1>12, <1>14,
     <1>15, <1>16, <1>17, <1>18, <1>19, <1>20, <1>21, <1>22, <1>23, <1>24, <1>25, <1>26
     DEF Next, AgentStep, WriterStep, RpcStep, SweepStep

-------------------------------------------------------------------------------
(* The theorems.                                                           *)

\* The invariant holds of an empty worker.
LEMMA InitIInv == Init => IInv
<1> SUFFICES ASSUME Init PROVE IInv
  OBVIOUS
<1>1. TypeOK
  <2>1. IdleAgent \in AgentType
    <3>1. 0 \in 0..MaxTries
      BY BoundAssumption
    <3> QED BY <3>1 DEF IdleAgent, AgentType, AgentStage
  <2>2. writing \in [Writer -> WriterType]
    BY MadeRows DEF Init, NotWriting, WriterType
  <2>3. back \in [Child -> 0..MaxBack] /\ crashes \in 0..MaxCrash /\ injected \in [Child -> Nat]
    <3>1. 0 \in 0..MaxBack /\ 0 \in 0..MaxCrash /\ 0 \in Nat
      BY BoundAssumption
    <3>2. back = [c \in Child |-> 0] /\ crashes = 0 /\ injected = [c \in Child |-> 0]
      BY DEF Init
    <3> QED BY <3>1, <3>2
  <2>4. Len(normal) <= Capacity /\ Len(prio) <= Capacity /\ normal \in Seq(Task) /\ prio \in Seq(Task)
    <3>1. normal = << >> /\ prio = << >> /\ Capacity \in Nat
      BY BoundAssumption DEF Init
    <3> QED BY <3>1
  <2>5. rpc \in [Rpc -> RpcType]
    BY ThreadRecords DEF Init
  <2> QED BY <2>1, <2>2, <2>3, <2>4, <2>5, MadeRows DEF Init, TypeOK
<1>2. ToSet(normal) = {} /\ ToSet(prio) = {}
  <2>1. ToSet(<< >>) = {}
    BY DEF ToSet
  <2> QED BY <2>1 DEF Init
<1>3. \A t \in Task : tasks[t] = Absent
  BY DEF Init, NoRows
<1>n. "" \notin Task /\ "" \notin Child
  BY TaskAssumption
<1>4. Sound(NoRows, received, parent)
  BY <1>n, MadeRows DEF Sound, NoRows
<1>5. SoundRows
  BY <1>4 DEF Init, SoundRows, NotWriting
<1>6. Holders
  BY <1>2, <1>3, <1>n, MadeRows DEF Init, Holders, Held, Queued, IdleAgent, IdleThread
<1>7. PendingIsQueued
  BY <1>3, MadeRows DEF PendingIsQueued
<1>8. Children
  BY <1>3, <1>n, MadeRows DEF Init, Children, IdleAgent
<1>9. InjectedOnce
  BY Small DEF Init, InjectedOnce
<1>10. Traces
  BY <1>3, MadeRows DEF Init, Traces, Terminal, IdleAgent
<1>11. Callbacks
  BY DEF Init, Callbacks, IdleThread
<1> QED BY <1>1, <1>5, <1>6, <1>7, <1>8, <1>9, <1>10, <1>11 DEF IInv

\* Every step keeps the invariant.
LEMMA NextIInv == IInv /\ [Next]_vars => IInv'
<1> SUFFICES ASSUME IInv, [Next]_vars PROVE IInv'
  OBVIOUS
<1>1. TypeOK'
  BY TypeStep DEF IInv
<1>2. SoundRows'
  BY SoundStep DEF IInv
<1>3. Holders' /\ PendingIsQueued'
  BY <1>1, HoldersStep, PendingStep DEF IInv
<1>4. Children' /\ Callbacks' /\ InjectedOnce'
  BY <1>1, ChildrenStep DEF IInv
<1>5. Traces'
  BY <1>1, TracesStep DEF IInv
<1> QED BY <1>1, <1>2, <1>3, <1>4, <1>5 DEF IInv

\* Every reachable state satisfies the inductive invariant.
THEOREM Invariance == Spec => []IInv
<1> QED BY InitIInv, NextIInv, PTL DEF Spec

\* The worker's variables keep their types: no lane of the work queue ever
\* exceeds its capacity, the number of attempts of a callback stays below its
\* limit, and only the task in execution has a cancellation token.
THEOREM TypesHold == Spec => []TypeOK
<1>1. IInv => TypeOK
  BY DEF IInv
<1> QED BY <1>1, Invariance, PTL

\* No ghost: whatever peer_chat, callbacks, cancellations, sweeps and crashes
\* do, a Pending row is queued or in the hands of a thread that will queue or
\* execute it, unless its lane was full.
THEOREM NoGhosts == Spec => []PendingIsQueued
<1>1. IInv => PendingIsQueued
  BY DEF IInv
<1> QED BY <1>1, Invariance, PTL

\* However often a child calls back and on however many connections at a time,
\* its result is injected into its parent at most once in a run of the process,
\* unless two callbacks had both found the parent before the first of them was
\* injected.
THEOREM InjectionHappensOnce == Spec => []InjectedOnce
<1>1. IInv => InjectedOnce
  BY DEF IInv
<1> QED BY <1>1, Invariance, PTL

\* While the process lives, an accepted task leaves the list only when its
\* sender has the outcome or can poll for it, or it was cancelled and its row
\* removed by the sweep or by a late callback.
THEOREM OutcomesAreKept == Spec => []OutcomeIsKept
<1>1. IInv => OutcomeIsKept
  <2> SUFFICES ASSUME IInv, crashes = 0, NEW t \in accepted
               PROVE  Present(t) \/ t \in heard \/ result[t] = "done" \/ t \in forgotten
    BY DEF OutcomeIsKept
  <2>1. t \in Task
    BY DEF IInv, TypeOK
  <2> QED BY <2>1 DEF IInv, Traces
<1> QED BY <1>1, Invariance, PTL

\* query_task_result answers "running" only for a task in the list or for a
\* cancelled one that was removed past the agent loop, also after any number of
\* crashes.
THEOREM PollsAreHonest == Spec => []RunningIsHonest
<1>1. IInv => RunningIsHonest
  BY DEF IInv, Traces, RunningIsHonest
<1> QED BY <1>1, Invariance, PTL

\* Within one run of the process no step turns a cancelled row into a pending
\* one: neither a late callback nor a repeated request revives the task.
THEOREM CancelledStaysCancelled == Spec => CallbackNeverRevives
<1> DEFINE A == \A t \in Task : tasks[t].status = "Cancelled" /\ crashes' = crashes
                                => tasks'[t].status # "Pending"
<1>1. IInv /\ [Next]_vars => [A]_vars
  <2> SUFFICES ASSUME IInv, Next, NEW t \in Task, tasks[t].status = "Cancelled",
                      crashes' = crashes, tasks'[t].status = "Pending"
               PROVE  FALSE
    BY DEF IInv
  <2> USE DEF history
  <2>0. TypeOK /\ Holders
    BY DEF IInv
  <2>1. tasks' # tasks
    OBVIOUS
  <2>2. ASSUME NEW u \in Task, \A v \in Task : v # u => tasks'[v] = tasks[v],
               u = t => tasks'[t].status # "Pending"
        PROVE  FALSE
    BY <2>2
  <2>3. ASSUME NEW u \in Task, Handle(u) PROVE FALSE
    <3>1. u # t
      BY <2>3 DEF Handle, IInv, SoundRows, Sound
    <3> QED BY <2>0, <2>2, <2>3, <3>1, NewRow, MadeRows DEF Handle
  <2>4. ASSUME Acknowledge PROVE FALSE
    BY <2>0, <2>1, <2>2, <2>4, HeldTasks, NewRow, MadeRows DEF Acknowledge, Enqueue, Refuse
  <2>5. ASSUME GetTask PROVE FALSE
    BY <2>0, <2>1, <2>2, <2>5, HeldTasks, GotTask, StatusOfRow DEF Status, Present, GetTask
  <2>6. ASSUME MarkRunning PROVE FALSE
    BY <2>0, <2>2, <2>6, HeldTasks, StatusOfRow DEF MarkRunning, Status, Present
  <2>7. ASSUME SaveAsyncState PROVE FALSE
    BY <2>0, <2>2, <2>7, HeldTasks, AsyncRow DEF SaveAsyncState, Present
  <2>8. ASSUME CompleteTask PROVE FALSE
    BY <2>0, <2>2, <2>8, HeldTasks, NewRow, MadeRows DEF CompleteTask
  <2>9. ASSUME NEW r \in Rpc, InjectCallback(r) PROVE FALSE
    <3>1. PICK u \in Task : Inject(u)
      BY <2>0, <2>9, HeldTasks DEF InjectCallback
    <3> QED BY <2>0, <2>2, <3>1, Injected, MadeRows
  <2>10. ASSUME CancelWrite PROVE FALSE
    BY <2>0, <2>2, <2>10, HeldTasks, StatusOfRow DEF CancelWrite, Status, Present
  <2>11. ASSUME NEW u \in Task, SweepRemove(u) PROVE FALSE
    BY <2>0, <2>2, <2>11, NewRow, MadeRows DEF SweepRemove
  <2>12. ASSUME Crash PROVE FALSE
    BY <2>0, <2>12, Crashes
  <2>13. ~UNCHANGED tasks
    BY <2>1
  <2> QED
    BY <2>3, <2>4, <2>5, <2>6, <2>7, <2>8, <2>9, <2>10, <2>11, <2>12, <2>13
       DEF Next, AgentStep, WriterStep, RpcStep, SweepStep, CancelRead, ConfirmDelivery,
           PollPriority, Select, StartRun, RejectOverBudget, Delegate, EndRun, Conclude,
           CallbackAnswered, CallbackFails, EndTask, ReadIndex, WriteIndex, FindParent,
           SubmitParent, SweepList
<1> QED BY <1>1, Invariance, PTL DEF Spec, CallbackNeverRevives
===============================================================================
