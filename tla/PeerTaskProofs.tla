----------------------------- MODULE PeerTaskProofs -----------------------------
(***************************************************************************)
(* Proofs about PeerTask, for every set of tasks, every number of attempts *)
(* to report and every number of crashes of either node: the reply that    *)
(* the user sees is one, and is built on the outcome that node A learned   *)
(* first, and node B gives up a kept result only when A has recorded it.   *)
(***************************************************************************)
EXTENDS PeerTask, TLAPS

-------------------------------------------------------------------------------
(* The inductive invariant: four parts about a task, one about the poll.   *)

\* Node B: a result is kept only when the worker is through, A's callback thread
\* has B on the line exactly while B reports, and B has an attempt left then.
WorkerInv(t) ==
    /\ stored[t] = "done" => worker[t] = "done"
    /\ inbound[t] \in {"settle", "answer"} => worker[t] = "reporting"
    /\ worker[t] = "reporting" => tries[t] < MaxTries

\* A task that was never dispatched has left no trace; while its turn is on the
\* way to the real snapshot, the placeholder is as it was written.
TurnInv(t) ==
    /\ request[t] = "none" =>
          /\ snap[t] = NoSnap /\ row[t] = "absent" /\ cont[t] = Idle /\ replies[t] = <<>>
          /\ worker[t] = "none" /\ bus[t] = <<>> /\ first[t] = ""
    /\ Dispatching(t) =>
          snap[t] = [NoSnap EXCEPT !.kind = "snapshot"] /\ cont[t] = Idle /\ replies[t] = <<>>

\* The snapshot knows the reply: there is one exactly if it is marked final.
ReplyInv(t) ==
    /\ snap[t].kind = "none" => snap[t] = NoSnap
    /\ snap[t].kind = "snapshot" => replies[t] = IF snap[t].final THEN <<snap[t].slot>> ELSE <<>>
    /\ Len(replies[t]) <= 1
    /\ cont[t].at \in {"merge", "reply"} => ~snap[t].final
    /\ cont[t].at = "reply" => cont[t].outcome = snap[t].slot
    /\ cont[t].at \in {"merge", "reply"} => cont[t].outcome # ""

\* The outcome learned first is in the snapshot, or is what the handler is about to
\* write there, or is the next one on the bus.
FirstInv(t) ==
    /\ snap[t].slot # "" => snap[t].slot = first[t]
    /\ snap[t].slot = "" /\ cont[t].at = "merge" => cont[t].outcome = first[t]
    /\ snap[t].slot = "" /\ cont[t].at = "idle" /\ snap[t].kind = "snapshot" =>
          IF first[t] = "" THEN bus[t] = <<>> ELSE bus[t] # <<>> /\ Head(bus[t]) = first[t]

\* The poll works on registered tasks, and publishes and confirms settled ones.
PollInv ==
    /\ \A t \in poll.work : row[t] # "absent"
    /\ poll.at # "idle" => poll.task \in Task /\ poll.outcome # "" /\ row[poll.task] # "absent"
    /\ poll.at \in {"publish", "confirm"} => row[poll.task] \in {"Completed", "Failed"}

Inv ==
    /\ TypeOK
    /\ \A t \in Task : WorkerInv(t) /\ TurnInv(t) /\ ReplyInv(t) /\ FirstInv(t)
    /\ PollInv

-------------------------------------------------------------------------------
(* Records, sequences and what a step leaves alone.                        *)

\* What the invariant says about one task.
Local(t) == WorkerInv(t) /\ TurnInv(t) /\ ReplyInv(t) /\ FirstInv(t)

Settled == {"Completed", "Failed"}

\* The snapshot that is written before the request leaves.
Placeholder == [NoSnap EXCEPT !.kind = "snapshot"]

\* The placeholder names no session and has no outcome, and is a snapshot.
LEMMA Placeholders ==
    /\ NoSnap \in Snap /\ Placeholder \in Snap /\ NoSnap # Placeholder
    /\ NoSnap.kind = "none" /\ NoSnap.slot = "" /\ ~NoSnap.final
    /\ Placeholder.kind = "snapshot" /\ Placeholder.slot = "" /\ ~Placeholder.final
  BY DEF NoSnap, Placeholder, Snap

\* No outcome is the empty string, and an idle handler is idle.
LEMMA Constants ==
    /\ "" \notin Outcome /\ "result" \in Outcome
    /\ Idle.at = "idle" /\ Idle \in [at : {"idle", "merge", "reply", "finish"}, outcome : Outcome \cup {""}]
  BY DEF Outcome, Idle

\* The variables about tasks are functions on the tasks.
LEMMA Domains ==
    ASSUME TypeOK
    PROVE  /\ DOMAIN request = Task /\ DOMAIN row = Task /\ DOMAIN snap = Task /\ DOMAIN bus = Task
           /\ DOMAIN cont = Task /\ DOMAIN inbound = Task /\ DOMAIN replies = Task
           /\ DOMAIN worker = Task /\ DOMAIN tries = Task /\ DOMAIN stored = Task /\ DOMAIN first = Task
  BY DEF TypeOK

\* A snapshot has its fields, and is there or not.
LEMMA Shapes ==
    ASSUME TypeOK, NEW u \in Task
    PROVE  /\ snap[u] \in Snap /\ snap[u].kind \in {"none", "snapshot"}
           /\ DOMAIN snap[u] = {"kind", "home", "slot", "final"} /\ DOMAIN cont[u] = {"at", "outcome"}
           /\ cont[u].at # "idle" => snap[u].kind = "snapshot"
<1>1. snap[u] \in Snap /\ cont[u] \in [at : {"idle", "merge", "reply", "finish"}, outcome : Outcome \cup {""}]
  BY DEF TypeOK
<1>2. cont[u].at # "idle" => snap[u].kind = "snapshot"
  BY DEF TypeOK
<1>. QED
  BY <1>1, <1>2 DEF Snap

\* A task that a step does not touch keeps its part of the invariant.
LEMMA LocalSame ==
    ASSUME NEW u \in Task, Local(u),
           request'[u] = request[u], row'[u] = row[u], snap'[u] = snap[u], bus'[u] = bus[u],
           cont'[u] = cont[u], inbound'[u] = inbound[u], replies'[u] = replies[u],
           worker'[u] = worker[u], tries'[u] = tries[u], stored'[u] = stored[u], first'[u] = first[u]
    PROVE  Local(u)'
<1>1. WorkerInv(u)'
  BY DEF Local, WorkerInv
<1>2. TurnInv(u)'
  BY DEF Local, TurnInv, Dispatching
<1>3. ReplyInv(u)'
  BY DEF Local, ReplyInv
<1>4. FirstInv(u)'
  BY DEF Local, FirstInv
<1>. QED
  BY <1>1, <1>2, <1>3, <1>4 DEF Local

\* No step of the turn, of a callback or of the poll takes a row back.
RowsGrow == \A u \in Task : /\ row[u] # "absent" => row'[u] # "absent"
                            /\ row[u] \in Settled => row'[u] \in Settled

\* The poll's part holds as long as rows only grow.
LEMMA PollSame ==
    ASSUME TypeOK, PollInv, poll' = poll, RowsGrow
    PROVE  PollInv'
<1>1. poll.work \subseteq Task
  BY DEF TypeOK
<1>. QED
  BY <1>1 DEF PollInv, RowsGrow, Settled

\* The first outcome in a row stays; a row that is settled is settled already.
LEMMA SettleGrows ==
    ASSUME TypeOK, NEW t \in Task, NEW outcome, Settle(t, outcome)
    PROVE  /\ row' \in [Task -> {"absent", "Pending", "Completed", "Failed"}]
           /\ RowsGrow
           /\ row[t] # "absent" => row'[t] \in Settled
           /\ row[t] = "absent" => row'[t] = "absent"
           /\ \A u \in Task : u # t => row'[u] = row[u]
<1>. row \in [Task -> {"absent", "Pending", "Completed", "Failed"}]
  BY DEF TypeOK
<1>1. CASE row[t] = "Pending"
  <2>1. PICK s \in Settled : row' = [row EXCEPT ![t] = s]
    BY <1>1 DEF Settle, Settled
  <2>. QED
    BY <1>1, <2>1 DEF RowsGrow, Settled
<1>2. CASE row[t] # "Pending"
  BY <1>2 DEF Settle, RowsGrow, Settled
<1>. QED
  BY <1>1, <1>2

\* An outcome joins the end of the bus.
LEMMA AppendFacts ==
    ASSUME NEW s \in Seq(Outcome), NEW o \in Outcome
    PROVE  /\ Append(s, o) \in Seq(Outcome) /\ Append(s, o) # <<>>
           /\ s = <<>> => Head(Append(s, o)) = o
           /\ s # <<>> => Head(Append(s, o)) = Head(s)
           /\ s # <<>> => Head(s) \in Outcome /\ Tail(s) \in Seq(Outcome)
<1>1. Append(s, o) \in Seq(Outcome) /\ Len(Append(s, o)) = Len(s) + 1 /\ Len(s) \in Nat
  OBVIOUS
<1>2. Append(s, o) # <<>>
  BY <1>1
<1>3. s = <<>> => Head(Append(s, o)) = o
  OBVIOUS
<1>4. ASSUME s # <<>> PROVE Head(Append(s, o)) = Head(s) /\ Head(s) \in Outcome /\ Tail(s) \in Seq(Outcome)
  <2>1. Len(s) >= 1
    BY <1>4
  <2>. QED
    BY <1>1, <1>4, <2>1
<1>. QED
  BY <1>1, <1>2, <1>3, <1>4

\* Publishing keeps the invariant of the task, wherever its snapshot and its handler are.
LEMMA PublishKeeps ==
    ASSUME TypeOK, NEW t \in Task, NEW outcome \in Outcome, Publish(t, outcome),
           ReplyInv(t), FirstInv(t),
           snap' = snap, cont' = cont, replies' = replies
    PROVE  /\ bus' \in [Task -> Seq(Outcome)] /\ first' \in [Task -> Outcome \cup {""}]
           /\ ReplyInv(t)' /\ FirstInv(t)'
           /\ \A u \in Task : u # t => bus'[u] = bus[u] /\ first'[u] = first[u]
<1>1. bus[t] \in Seq(Outcome) /\ first[t] \in Outcome \cup {""}
  BY DEF TypeOK
<1>2. bus'[t] = Append(bus[t], outcome) /\ first'[t] = IF first[t] = "" THEN outcome ELSE first[t]
  BY Domains DEF Publish
<1>3. /\ bus' \in [Task -> Seq(Outcome)] /\ first' \in [Task -> Outcome \cup {""}]
      /\ \A u \in Task : u # t => bus'[u] = bus[u] /\ first'[u] = first[u]
  <2>1. bus' \in [Task -> Seq(Outcome)]
    BY <1>1, AppendFacts DEF TypeOK, Publish
  <2>2. first' \in [Task -> Outcome \cup {""}]
    BY <1>1 DEF TypeOK, Publish
  <2>. QED
    BY <2>1, <2>2, Domains DEF Publish
<1>4. ReplyInv(t)'
  BY DEF ReplyInv
<1>5. FirstInv(t)'
  <2>1. snap[t].slot # "" => snap[t].slot = first'[t]
    BY <1>2 DEF FirstInv
  <2>2. snap[t].slot = "" /\ cont[t].at = "merge" => cont[t].outcome = first'[t]
    BY <1>2 DEF FirstInv, ReplyInv
  <2>3. first'[t] # ""
    BY <1>2, Constants
  <2>4. snap[t].slot = "" /\ cont[t].at = "idle" /\ snap[t].kind = "snapshot"
          => bus'[t] # <<>> /\ Head(bus'[t]) = first'[t]
    BY <1>1, <1>2, AppendFacts DEF FirstInv
  <2>. QED
    BY <2>1, <2>2, <2>3, <2>4 DEF FirstInv
<1>. QED
  BY <1>3, <1>4, <1>5

\* The poll goes on with one task of its list.
LEMMA PollNextFacts ==
    ASSUME TypeOK, NEW t \in Task, NEW outcome \in Outcome, PollNext(t, "settle", outcome)
    PROVE  poll' = [at |-> "settle", work |-> poll.work \ {t}, task |-> t, outcome |-> outcome]
<1>1. poll = [at |-> poll.at, work |-> poll.work, task |-> poll.task, outcome |-> poll.outcome]
  BY DEF TypeOK
<1>. QED
  BY <1>1 DEF PollNext

-------------------------------------------------------------------------------
(* The invariant is inductive: one lemma for each action.                  *)

\* The placeholder is the first trace of a task.
LEMMA DispatchKeeps ==
    ASSUME Inv, NEW t \in Task, Dispatch(t)
    PROVE  Inv'
<1>. USE DEF Inv
<1>1. TypeOK'
  <2>1. snap' \in [Task -> Snap]
    BY Placeholders DEF TypeOK, Dispatch, Placeholder
  <2>2. \A u \in Task : cont[u].at # "idle" => snap'[u].kind = "snapshot"
    BY Placeholders, Shapes, Domains DEF Dispatch, Placeholder
  <2>. QED
    BY <2>1, <2>2 DEF TypeOK, Dispatch
<1>2. Local(t)'
  <2>1. request'[t] = "calling" /\ snap'[t] = Placeholder /\ cont[t] = Idle /\ replies[t] = <<>>
        /\ bus[t] = <<>> /\ first[t] = "" /\ WorkerInv(t)
    BY Domains DEF Dispatch, TurnInv, Placeholder
  <2>2. WorkerInv(t)'
    BY <2>1 DEF Dispatch, WorkerInv
  <2>3. TurnInv(t)'
    BY <2>1 DEF Dispatch, TurnInv, Placeholder, Dispatching
  <2>4. ReplyInv(t)'
    BY <2>1, Placeholders, Constants DEF Dispatch, ReplyInv
  <2>5. FirstInv(t)'
    BY <2>1, Placeholders, Constants DEF Dispatch, FirstInv
  <2>. QED
    BY <2>2, <2>3, <2>4, <2>5 DEF Local
<1>3. ASSUME NEW u \in Task, u # t PROVE Local(u)'
  BY <1>3, LocalSame, Domains DEF Dispatch, Local
<1>4. PollInv'
  BY PollSame DEF Dispatch, RowsGrow
<1>. QED
  BY <1>1, <1>2, <1>3, <1>4 DEF Local

\* B takes the request.
LEMMA AcceptKeeps ==
    ASSUME Inv, NEW t \in Task, Accept(t)
    PROVE  Inv'
<1>. USE DEF Inv
<1>1. TypeOK'
  BY DEF TypeOK, Accept
<1>2. Local(t)'
  <2>1. /\ Local(t) /\ request[t] # "none" /\ worker[t] = "none"
        /\ worker'[t] = "working" /\ stored'[t] = "running"
    BY Domains DEF Accept, Local
  <2>2. WorkerInv(t)'
    BY <2>1 DEF Accept, Local, WorkerInv
  <2>3. TurnInv(t)' /\ ReplyInv(t)' /\ FirstInv(t)'
    BY <2>1 DEF Accept, Local, TurnInv, Dispatching, ReplyInv, FirstInv
  <2>. QED
    BY <2>2, <2>3 DEF Local
<1>3. ASSUME NEW u \in Task, u # t PROVE Local(u)'
  BY <1>3, LocalSame, Domains DEF Accept, Local
<1>4. PollInv'
  BY PollSame DEF Accept, RowsGrow
<1>. QED
  BY <1>1, <1>2, <1>3, <1>4 DEF Local

\* The placeholder of a refused task goes, and no handler was at work on it.
LEMMA RefusedKeeps ==
    ASSUME Inv, NEW t \in Task, Refused(t)
    PROVE  Inv'
<1>. USE DEF Inv
<1>1. TypeOK'
  <2>1. snap' \in [Task -> Snap]
    BY Placeholders DEF TypeOK, Refused
  <2>2. cont[t].at = "idle"
    BY Constants DEF Refused, TurnInv, Dispatching
  <2>3. \A u \in Task : cont[u].at # "idle" => snap'[u].kind = "snapshot"
    BY <2>2, Shapes, Domains DEF Refused
  <2>. QED
    BY <2>1, <2>3 DEF TypeOK, Refused
<1>2. Local(t)'
  <2>1. request'[t] = "refused" /\ snap'[t] = NoSnap /\ cont[t] = Idle /\ replies[t] = <<>> /\ WorkerInv(t)
    BY Domains DEF Refused, TurnInv, Dispatching
  <2>2. WorkerInv(t)'
    BY <2>1 DEF Refused, WorkerInv
  <2>3. TurnInv(t)'
    BY <2>1 DEF TurnInv, Dispatching
  <2>4. ReplyInv(t)'
    BY <2>1, Placeholders, Constants DEF Refused, ReplyInv
  <2>5. FirstInv(t)'
    BY <2>1, Placeholders, Constants DEF Refused, FirstInv
  <2>. QED
    BY <2>2, <2>3, <2>4, <2>5 DEF Local
<1>3. ASSUME NEW u \in Task, u # t PROVE Local(u)'
  BY <1>3, LocalSame, Domains DEF Refused, Local
<1>4. PollInv'
  BY PollSame DEF Refused, RowsGrow
<1>. QED
  BY <1>1, <1>2, <1>3, <1>4 DEF Local

\* The call fails and the placeholder stays.
LEMMA RequestLostKeeps ==
    ASSUME Inv, NEW t \in Task, RequestLost(t)
    PROVE  Inv'
<1>. USE DEF Inv
<1>1. TypeOK'
  BY DEF TypeOK, RequestLost
<1>2. Local(t)'
  <2>1. request'[t] = "lost" /\ Local(t)
    BY DEF TypeOK, RequestLost, Local
  <2>. QED
    BY <2>1 DEF RequestLost, Local, WorkerInv, TurnInv, Dispatching, ReplyInv, FirstInv
<1>3. ASSUME NEW u \in Task, u # t PROVE Local(u)'
  BY <1>3, LocalSame, Domains DEF RequestLost, Local
<1>4. PollInv'
  BY PollSame DEF RequestLost, RowsGrow
<1>. QED
  BY <1>1, <1>2, <1>3, <1>4 DEF Local

\* The acknowledgement changes the turn alone.
LEMMA AcknowledgedKeeps ==
    ASSUME Inv, NEW t \in Task, Acknowledged(t)
    PROVE  Inv'
<1>. USE DEF Inv
<1>1. TypeOK'
  BY DEF TypeOK, Acknowledged
<1>2. Local(t)'
  <2>1. request'[t] = "acked" /\ Dispatching(t) /\ Local(t)
    BY DEF TypeOK, Acknowledged, Dispatching, Local
  <2>. QED
    BY <2>1 DEF Acknowledged, Local, WorkerInv, TurnInv, Dispatching, ReplyInv, FirstInv
<1>3. ASSUME NEW u \in Task, u # t PROVE Local(u)'
  BY <1>3, LocalSame, Domains DEF Acknowledged, Local
<1>4. PollInv'
  BY PollSame DEF Acknowledged, RowsGrow
<1>. QED
  BY <1>1, <1>2, <1>3, <1>4 DEF Local

\* The row of an acknowledged task is registered, if first_start has not done so.
LEMMA RegisterKeeps ==
    ASSUME Inv, NEW t \in Task, Register(t)
    PROVE  Inv'
<1>. USE DEF Inv
<1>1. TypeOK'
  BY DEF TypeOK, Register
<1>2. Local(t)'
  <2>1. request'[t] = "registered" /\ Dispatching(t) /\ Local(t)
    BY DEF TypeOK, Register, Dispatching, Local
  <2>. QED
    BY <2>1 DEF Register, Local, WorkerInv, TurnInv, Dispatching, ReplyInv, FirstInv
<1>3. ASSUME NEW u \in Task, u # t PROVE Local(u)'
  <2>1. row'[u] = row[u]
    BY <1>3, Domains DEF Register
  <2>. QED
    BY <1>3, <2>1, LocalSame, Domains DEF Register, Local
<1>4. PollInv'
  <2>1. RowsGrow
    <3>1. \A u \in Task : u # t => row'[u] = row[u]
      BY Domains DEF Register
    <3>2. row[t] # "absent" => row'[t] = row[t]
      BY DEF Register
    <3>3. row[t] = "absent" => row[t] \notin Settled
      BY DEF Settled
    <3>. QED
      BY <3>1, <3>2, <3>3 DEF RowsGrow
  <2>. QED
    BY <2>1, PollSame DEF Register
<1>. QED
  BY <1>1, <1>2, <1>3, <1>4 DEF Local

\* The real snapshot is as empty as the placeholder that it replaces.
LEMMA SaveSnapshotKeeps ==
    ASSUME Inv, NEW t \in Task, SaveSnapshot(t)
    PROVE  Inv'
<1>. USE DEF Inv
<1>1. TypeOK'
  <2>1. snap' \in [Task -> Snap]
    BY DEF TypeOK, SaveSnapshot, Snap
  <2>2. \A u \in Task : cont[u].at # "idle" => snap'[u].kind = "snapshot"
    BY Shapes, Domains DEF SaveSnapshot
  <2>. QED
    BY <2>1, <2>2 DEF TypeOK, SaveSnapshot
<1>2. Local(t)'
  <2>1. /\ request'[t] = "saved" /\ cont[t] = Idle /\ replies[t] = <<>> /\ Local(t)
        /\ snap[t] = Placeholder
    BY DEF TypeOK, SaveSnapshot, TurnInv, Placeholder, Dispatching, Local
  <2>2. snap'[t].kind = "snapshot" /\ snap'[t].slot = "" /\ ~snap'[t].final
    BY Domains DEF SaveSnapshot
  <2>3. WorkerInv(t)'
    BY <2>1 DEF SaveSnapshot, WorkerInv, Local
  <2>4. TurnInv(t)'
    BY <2>1 DEF TurnInv, Dispatching
  <2>5. ReplyInv(t)'
    BY <2>1, <2>2, Constants DEF SaveSnapshot, ReplyInv
  <2>6. FirstInv(t)'
    BY <2>1, <2>2, Placeholders, Constants DEF SaveSnapshot, FirstInv, Local
  <2>. QED
    BY <2>3, <2>4, <2>5, <2>6 DEF Local
<1>3. ASSUME NEW u \in Task, u # t PROVE Local(u)'
  BY <1>3, LocalSame, Domains DEF SaveSnapshot, Local
<1>4. PollInv'
  BY PollSame DEF SaveSnapshot, RowsGrow
<1>. QED
  BY <1>1, <1>2, <1>3, <1>4 DEF Local

\* Every execution starts with all its attempts to report.
LEMMA ExecuteKeeps ==
    ASSUME Inv, NEW t \in Task, Execute(t)
    PROVE  Inv'
<1>. USE DEF Inv
<1>1. TypeOK'
  <2>1. 0 \in 0..MaxTries
    BY BoundAssumption
  <2>. QED
    BY <2>1 DEF TypeOK, Execute
<1>2. Local(t)'
  <2>1. Local(t) /\ worker[t] = "working" /\ worker'[t] = "reporting" /\ tries'[t] = 0
    BY Domains DEF Execute, Local
  <2>2. WorkerInv(t)'
    BY <2>1, BoundAssumption DEF Execute, Local, WorkerInv
  <2>. QED
    BY <2>1, <2>2 DEF Execute, Local, TurnInv, Dispatching, ReplyInv, FirstInv
<1>3. ASSUME NEW u \in Task, u # t PROVE Local(u)'
  BY <1>3, LocalSame, Domains DEF Execute, Local
<1>4. PollInv'
  BY PollSame DEF Execute, RowsGrow
<1>. QED
  BY <1>1, <1>2, <1>3, <1>4 DEF Local

\* A publishes the result that B reports.
LEMMA CallbackPublishKeeps ==
    ASSUME Inv, NEW t \in Task, CallbackPublish(t)
    PROVE  Inv'
<1>. USE DEF Inv
<1>1. TypeOK'
  BY PublishKeeps, Constants DEF TypeOK, CallbackPublish
<1>2. Local(t)'
  <2>1. Local(t) /\ worker[t] = "reporting" /\ request[t] # "none" /\ inbound'[t] = "settle"
    BY Domains DEF CallbackPublish, Local, TurnInv
  <2>2. ReplyInv(t)' /\ FirstInv(t)'
    BY <2>1, PublishKeeps, Constants DEF CallbackPublish, Local
  <2>3. WorkerInv(t)' /\ TurnInv(t)'
    BY <2>1 DEF CallbackPublish, Local, WorkerInv, TurnInv, Dispatching
  <2>. QED
    BY <2>2, <2>3 DEF Local
<1>3. ASSUME NEW u \in Task, u # t PROVE Local(u)'
  <2>1. Local(t) /\ bus'[u] = bus[u] /\ first'[u] = first[u]
    BY <1>3, PublishKeeps, Constants DEF CallbackPublish, Local
  <2>. QED
    BY <1>3, <2>1, LocalSame, Domains DEF CallbackPublish, Local
<1>4. PollInv'
  BY PollSame DEF CallbackPublish, RowsGrow
<1>. QED
  BY <1>1, <1>2, <1>3, <1>4 DEF Local

\* The thread that served the callback settles the row.
LEMMA CallbackSettleKeeps ==
    ASSUME Inv, NEW t \in Task, CallbackSettle(t)
    PROVE  Inv'
<1>. USE DEF Inv
<1>1. TypeOK'
  BY SettleGrows DEF TypeOK, CallbackSettle
<1>2. Local(t)'
  <2>1. Local(t) /\ (row[t] = "absent" => row'[t] = "absent")
    BY SettleGrows DEF CallbackSettle, Local
  <2>2. inbound'[t] = IF inbound[t] = "settle" THEN "answer" ELSE "idle"
    BY DEF TypeOK, CallbackSettle
  <2>. QED
    <3>1. WorkerInv(t)'
      BY <2>1, <2>2 DEF CallbackSettle, Local, WorkerInv
    <3>2. TurnInv(t)'
      BY <2>1 DEF CallbackSettle, Local, TurnInv, Dispatching
    <3>3. ReplyInv(t)' /\ FirstInv(t)'
      BY <2>1 DEF CallbackSettle, Local, ReplyInv, FirstInv
    <3>. QED
      BY <3>1, <3>2, <3>3 DEF Local
<1>3. ASSUME NEW u \in Task, u # t PROVE Local(u)'
  <2>1. row'[u] = row[u]
    BY <1>3, SettleGrows DEF CallbackSettle
  <2>. QED
    BY <1>3, <2>1, LocalSame, Domains DEF CallbackSettle, Local
<1>4. PollInv'
  BY SettleGrows, PollSame DEF CallbackSettle
<1>. QED
  BY <1>1, <1>2, <1>3, <1>4 DEF Local

\* B forgets a task whose report was answered.
LEMMA CallbackAnsweredKeeps ==
    ASSUME Inv, NEW t \in Task, CallbackAnswered(t)
    PROVE  Inv'
<1>. USE DEF Inv
<1>1. TypeOK'
  BY DEF TypeOK, CallbackAnswered
<1>2. Local(t)'
  <2>1. Local(t) /\ worker[t] = "reporting" /\ worker'[t] = "done" /\ inbound'[t] = "idle"
    BY Domains DEF CallbackAnswered, Local, WorkerInv
  <2>. QED
    BY <2>1 DEF CallbackAnswered, Local, WorkerInv, TurnInv, Dispatching, ReplyInv, FirstInv
<1>3. ASSUME NEW u \in Task, u # t PROVE Local(u)'
  BY <1>3, LocalSame, Domains DEF CallbackAnswered, Local
<1>4. PollInv'
  BY PollSame DEF CallbackAnswered, RowsGrow
<1>. QED
  BY <1>1, <1>2, <1>3, <1>4 DEF Local

\* A failed attempt is counted; with the last one the result is kept.
LEMMA CallbackFailsKeeps ==
    ASSUME Inv, NEW t \in Task, CallbackFails(t)
    PROVE  Inv'
<1>. USE DEF Inv
<1>1. TypeOK'
  <2>1. tries[t] + 1 \in 0..MaxTries
    <3>1. tries[t] \in 0..MaxTries
      BY DEF TypeOK
    <3>2. tries[t] < MaxTries
      BY DEF WorkerInv, CallbackFails
    <3>. QED
      BY <3>1, <3>2, BoundAssumption
  <2>2. tries' \in [Task -> 0..MaxTries]
    <3>1. tries \in [Task -> 0..MaxTries] /\ tries' = [tries EXCEPT ![t] = tries[t] + 1]
      BY DEF TypeOK, CallbackFails
    <3>. QED
      BY <2>1, <3>1
  <2>3. worker' \in [Task -> {"none", "working", "reporting", "done"}]
        /\ stored' \in [Task -> {"none", "running", "done"}]
    <3>1. (worker' = worker /\ stored' = stored) \/ KeepResult(t)
      BY DEF CallbackFails
    <3>. QED
      <4>1. /\ worker \in [Task -> {"none", "working", "reporting", "done"}]
            /\ stored \in [Task -> {"none", "running", "done"}]
        BY DEF TypeOK
      <4>. QED
        BY <3>1, <4>1 DEF KeepResult
  <2>. QED
    BY <2>2, <2>3 DEF TypeOK, CallbackFails
<1>2. Local(t)'
  <2>1. Local(t) /\ worker[t] = "reporting" /\ request[t] # "none" /\ inbound'[t] = "idle"
        /\ tries'[t] = tries[t] + 1
    BY Domains DEF CallbackFails, Local, TurnInv
  <2>2. WorkerInv(t)'
    <3>1. CASE tries[t] + 1 < MaxTries
      BY <2>1, <3>1 DEF CallbackFails, Local, WorkerInv
    <3>2. CASE ~(tries[t] + 1 < MaxTries)
      <4>1. worker'[t] = "done" /\ stored'[t] = "done"
        <5>1. KeepResult(t)
          BY <3>2 DEF CallbackFails
        <5>. QED
          BY <5>1, Domains DEF KeepResult
      <4>. QED
        BY <2>1, <4>1 DEF WorkerInv
    <3>. QED
      BY <3>1, <3>2
  <2>3. TurnInv(t)' /\ ReplyInv(t)' /\ FirstInv(t)'
    BY <2>1 DEF CallbackFails, Local, TurnInv, Dispatching, ReplyInv, FirstInv
  <2>. QED
    BY <2>2, <2>3 DEF Local
<1>3. ASSUME NEW u \in Task, u # t PROVE Local(u)'
  <2>1. worker'[u] = worker[u] /\ stored'[u] = stored[u]
    BY <1>3, Domains DEF CallbackFails, KeepResult
  <2>. QED
    BY <1>3, <2>1, LocalSame, Domains DEF CallbackFails, Local
<1>4. PollInv'
  BY PollSame DEF CallbackFails, RowsGrow
<1>. QED
  BY <1>1, <1>2, <1>3, <1>4 DEF Local

\* The poll lists the pending rows.
LEMMA PollTickKeeps ==
    ASSUME Inv, PollTick
    PROVE  Inv'
<1>. USE DEF Inv
<1>1. TypeOK'
  BY DEF TypeOK, PollTick
<1>2. ASSUME NEW u \in Task PROVE Local(u)'
  BY LocalSame DEF PollTick, Local
<1>3. PollInv'
  <2>1. poll'.at = "idle" /\ poll'.work = {t \in Task : row[t] = "Pending"} /\ row' = row
    BY DEF TypeOK, PollTick
  <2>. QED
    BY <2>1 DEF PollInv
<1>. QED
  BY <1>1, <1>2, <1>3 DEF Local

\* What the poll finds out about a registered task it goes on to settle.
LEMMA PollVisitKeeps ==
    ASSUME Inv, NEW t \in Task, PollVisit(t)
    PROVE  Inv'
<1>. USE DEF Inv
<1>1. TypeOK'
  <2>1. poll' \in [at : {"idle", "settle", "publish", "confirm"}, work : SUBSET Task,
                   task : Task \cup {""}, outcome : Outcome \cup {""}]
    <3>1. CASE \E outcome \in Outcome : PollNext(t, "settle", outcome)
      <4>1. PICK outcome \in Outcome : PollNext(t, "settle", outcome)
        BY <3>1
      <4>2. poll' = [at |-> "settle", work |-> poll.work \ {t}, task |-> t, outcome |-> outcome]
        BY <4>1, PollNextFacts
      <4>3. poll.work \ {t} \in SUBSET Task
        BY DEF TypeOK
      <4>. QED
        BY <4>2, <4>3
    <3>2. CASE poll' = [poll EXCEPT !.work = @ \ {t}]
      BY <3>2 DEF TypeOK
    <3>. QED
      BY <3>1, <3>2 DEF PollVisit, Outcome
  <2>. QED
    BY <2>1 DEF TypeOK, PollVisit
<1>2. Local(t)'
  BY LocalSame DEF PollVisit, Local
<1>3. ASSUME NEW u \in Task, u # t PROVE Local(u)'
  BY LocalSame DEF PollVisit, Local
<1>4. PollInv'
  <2>1. /\ \A u \in poll.work : row[u] # "absent"
        /\ t \in poll.work /\ poll.at = "idle" /\ row' = row
    BY DEF PollInv, PollVisit
  <2>2. CASE \E outcome \in Outcome : PollNext(t, "settle", outcome)
    <3>1. poll'.at = "settle" /\ poll'.task = t /\ poll'.outcome \in Outcome /\ poll'.work \subseteq poll.work
      BY <2>2, PollNextFacts
    <3>. QED
      BY <2>1, <3>1, Constants DEF PollInv
  <2>3. CASE poll' = [poll EXCEPT !.work = @ \ {t}]
    <3>1. poll'.at = "idle" /\ poll'.work \subseteq poll.work
      BY <2>1, <2>3 DEF TypeOK
    <3>. QED
      BY <2>1, <3>1 DEF PollInv
  <2>. QED
    BY <2>2, <2>3 DEF PollVisit, Outcome
<1>. QED
  BY <1>1, <1>2, <1>3, <1>4 DEF Local

\* A query that fails leaves everything to the next tick.
LEMMA PollQueryLostKeeps ==
    ASSUME Inv, NEW t \in Task, PollQueryLost(t)
    PROVE  Inv'
<1>. USE DEF Inv
<1>1. TypeOK'
  BY DEF TypeOK, PollQueryLost
<1>2. Local(t)'
  BY LocalSame DEF PollQueryLost, Local
<1>3. ASSUME NEW u \in Task, u # t PROVE Local(u)'
  BY LocalSame DEF PollQueryLost, Local
<1>4. PollInv'
  <2>1. poll'.at = "idle" /\ poll'.work \subseteq poll.work /\ row' = row
    BY DEF TypeOK, PollQueryLost
  <2>. QED
    BY <2>1 DEF PollInv
<1>. QED
  BY <1>1, <1>2, <1>3, <1>4 DEF Local

\* The row of the task at hand is settled, by this outcome or an earlier one.
LEMMA PollSettleKeeps ==
    ASSUME Inv, PollSettle
    PROVE  Inv'
<1>. USE DEF Inv
<1>1. TypeOK'
  <2>1. poll.task \in Task
    BY DEF PollInv, PollSettle
  <2>. QED
    BY <2>1, SettleGrows DEF TypeOK, PollSettle
<1>2. ASSUME NEW u \in Task PROVE Local(u)'
  <2>1. poll.task \in Task /\ row[poll.task] # "absent"
    BY DEF PollInv, PollSettle
  <2>2. Local(u) /\ (row[u] = "absent" => row'[u] = row[u])
    BY <2>1, SettleGrows DEF PollSettle, Local
  <2>3. WorkerInv(u)'
    BY <2>2 DEF PollSettle, Local, WorkerInv
  <2>4. TurnInv(u)'
    BY <2>2 DEF PollSettle, Local, TurnInv, Dispatching
  <2>5. ReplyInv(u)' /\ FirstInv(u)'
    BY <2>2 DEF PollSettle, Local, ReplyInv, FirstInv
  <2>. QED
    BY <2>3, <2>4, <2>5 DEF Local
<1>3. PollInv'
  <2>1. poll.task \in Task /\ poll.outcome # "" /\ row[poll.task] # "absent" /\ poll.work \subseteq Task
        /\ \A u \in poll.work : row[u] # "absent"
    BY DEF PollInv, PollSettle, TypeOK
  <2>2. row'[poll.task] \in Settled /\ RowsGrow
    BY <2>1, SettleGrows DEF PollSettle
  <2>3. poll'.at = "publish" /\ poll'.task = poll.task /\ poll'.outcome = poll.outcome /\ poll'.work = poll.work
    BY DEF TypeOK, PollSettle
  <2>. QED
    BY <2>1, <2>2, <2>3 DEF PollInv, RowsGrow, Settled
<1>. QED
  BY <1>1, <1>2, <1>3 DEF Local

\* The agent is told of a settled task.
LEMMA PollPublishKeeps ==
    ASSUME Inv, PollPublish
    PROVE  Inv'
<1>. USE DEF Inv
<1>1. TypeOK'
  <2>1. poll.task \in Task /\ poll.outcome \in Outcome
    BY DEF PollInv, PollPublish, TypeOK
  <2>2. bus' \in [Task -> Seq(Outcome)] /\ first' \in [Task -> Outcome \cup {""}]
    BY <2>1, PublishKeeps DEF PollPublish
  <2>. QED
    BY <2>2 DEF TypeOK, PollPublish
<1>2. ASSUME NEW u \in Task PROVE Local(u)'
  <2>1. poll.task \in Task /\ poll.outcome \in Outcome /\ row[poll.task] # "absent"
    BY DEF PollInv, PollPublish, TypeOK
  <2>2. CASE u # poll.task
    <3>1. bus'[u] = bus[u] /\ first'[u] = first[u]
      BY <2>1, <2>2, PublishKeeps DEF PollPublish
    <3>. QED
      BY <3>1, LocalSame DEF PollPublish, Local
  <2>3. CASE u = poll.task
    <3>1. ReplyInv(u)' /\ FirstInv(u)'
      BY <2>1, <2>3, PublishKeeps DEF PollPublish
    <3>2. WorkerInv(u)' /\ TurnInv(u)'
      BY <2>1, <2>3 DEF PollPublish, WorkerInv, TurnInv, Dispatching
    <3>. QED
      BY <3>1, <3>2 DEF Local
  <2>. QED
    BY <2>2, <2>3
<1>3. PollInv'
  <2>1. /\ poll'.at \in {"confirm", "idle"} /\ poll'.task = poll.task
        /\ poll'.outcome = poll.outcome /\ poll'.work = poll.work
    BY DEF TypeOK, PollPublish
  <2>. QED
    BY <2>1 DEF PollInv, PollPublish
<1>. QED
  BY <1>1, <1>2, <1>3 DEF Local

\* Confirming ends the work on the task, and B may drop what it kept.
LEMMA PollConfirmKeeps ==
    ASSUME Inv, NEW reached \in BOOLEAN, PollConfirm(reached)
    PROVE  Inv'
<1>. USE DEF Inv
<1>1. TypeOK'
  <2>1. poll.task \in Task
    BY DEF PollInv, PollConfirm
  <2>2. stored' \in [Task -> {"none", "running", "done"}]
    BY <2>1 DEF TypeOK, PollConfirm
  <2>3. poll' \in [at : {"idle", "settle", "publish", "confirm"}, work : SUBSET Task,
                   task : Task \cup {""}, outcome : Outcome \cup {""}]
    BY DEF TypeOK, PollConfirm
  <2>. QED
    BY <2>2, <2>3 DEF TypeOK, PollConfirm
<1>2. ASSUME NEW u \in Task PROVE Local(u)'
  <2>1. poll.task \in Task
    BY DEF PollInv, PollConfirm
  <2>2. stored'[u] \in {stored[u], "none"}
    BY <2>1, Domains DEF PollConfirm
  <2>3. WorkerInv(u)'
    BY <2>2 DEF PollConfirm, WorkerInv
  <2>4. TurnInv(u)' /\ ReplyInv(u)' /\ FirstInv(u)'
    BY DEF PollConfirm, TurnInv, Dispatching, ReplyInv, FirstInv
  <2>. QED
    BY <2>3, <2>4 DEF Local
<1>3. PollInv'
  <2>1. poll'.at = "idle" /\ poll'.work = poll.work /\ row' = row
    BY DEF TypeOK, PollConfirm
  <2>. QED
    BY <2>1 DEF PollInv
<1>. QED
  BY <1>1, <1>2, <1>3 DEF Local

\* The first outcome on the bus is the one that the handler takes up.
LEMMA TakeContinuationKeeps ==
    ASSUME Inv, NEW t \in Task, TakeContinuation(t)
    PROVE  Inv'
<1>. USE DEF Inv
<1>1. TypeOK'
  <2>1. bus[t] \in Seq(Outcome) /\ bus[t] # <<>>
    BY DEF TypeOK, TakeContinuation
  <2>2. Head(bus[t]) \in Outcome /\ Tail(bus[t]) \in Seq(Outcome)
    BY <2>1, AppendFacts, Constants
  <2>3. bus' \in [Task -> Seq(Outcome)]
    BY <2>2 DEF TypeOK, TakeContinuation
  <2>4. cont' \in [Task -> [at : {"idle", "merge", "reply", "finish"}, outcome : Outcome \cup {""}]]
        /\ \A u \in Task : cont'[u].at # "idle" => snap[u].kind = "snapshot"
    <3>1. CASE cont[t].at # "idle" \/ snap[t].kind = "none"
      BY <3>1 DEF TypeOK, TakeContinuation
    <3>2. CASE ~(cont[t].at # "idle" \/ snap[t].kind = "none")
      <4>. DEFINE c == [at |-> IF snap[t].final THEN "finish" ELSE "merge", outcome |-> Head(bus[t])]
      <4>1. cont' = [cont EXCEPT ![t] = c]
        BY <3>2 DEF TakeContinuation
      <4>2. c \in [at : {"idle", "merge", "reply", "finish"}, outcome : Outcome \cup {""}]
        BY <2>2
      <4>3. snap[t] \in Snap
        BY DEF TypeOK
      <4>4. snap[t].kind = "snapshot"
        BY <3>2, <4>3 DEF Snap
      <4>. HIDE DEF c
      <4>. QED
        BY <4>1, <4>2, <4>4 DEF TypeOK
    <3>. QED
      BY <3>1, <3>2
  <2>. QED
    BY <2>3, <2>4 DEF TypeOK, TakeContinuation
<1>2. Local(t)'
  <2>1. Local(t) /\ bus[t] \in Seq(Outcome) /\ bus[t] # <<>> /\ ~Dispatching(t) /\ request[t] # "none"
    BY DEF TypeOK, TakeContinuation, Local, TurnInv
  <2>2. WorkerInv(t)' /\ TurnInv(t)'
    BY <2>1 DEF TakeContinuation, Local, WorkerInv, TurnInv, Dispatching
  <2>3. CASE cont[t].at # "idle" \/ snap[t].kind = "none"
    <3>1. cont' = cont
      BY <2>3 DEF TakeContinuation
    <3>2. ReplyInv(t)'
      BY <2>1, <3>1 DEF TakeContinuation, Local, ReplyInv
    <3>3. FirstInv(t)'
      BY <2>1, <2>3, <3>1 DEF TakeContinuation, Local, FirstInv
    <3>. QED
      BY <2>2, <3>2, <3>3 DEF Local
  <2>4. CASE ~(cont[t].at # "idle" \/ snap[t].kind = "none")
    <3>1. /\ cont'[t].at = IF snap[t].final THEN "finish" ELSE "merge"
          /\ cont'[t].outcome = Head(bus[t])
      BY <2>4, Domains DEF TakeContinuation
    <3>2. snap[t].kind = "snapshot"
      BY <2>4, Shapes
    <3>3. Head(bus[t]) # ""
      BY <2>1, AppendFacts, Constants
    <3>4. snap' = snap /\ replies' = replies /\ first' = first
      BY DEF TakeContinuation
    <3>5. ReplyInv(t)'
      BY <2>1, <3>1, <3>3, <3>4 DEF Local, ReplyInv
    <3>6. snap[t].slot = "" => Head(bus[t]) = first[t]
      BY <2>1, <2>4, <3>2 DEF Local, FirstInv
    <3>7. FirstInv(t)'
      BY <2>1, <3>1, <3>4, <3>6 DEF Local, FirstInv
    <3>. QED
      BY <2>2, <3>5, <3>7 DEF Local
  <2>. QED
    BY <2>3, <2>4
<1>3. ASSUME NEW u \in Task, u # t PROVE Local(u)'
  <2>1. cont'[u] = cont[u] /\ bus'[u] = bus[u]
    BY <1>3, Domains DEF TakeContinuation
  <2>. QED
    BY <1>3, <2>1, LocalSame DEF TakeContinuation, Local
<1>4. PollInv'
  BY PollSame DEF TakeContinuation, RowsGrow
<1>. QED
  BY <1>1, <1>2, <1>3, <1>4 DEF Local

\* The first outcome goes into the snapshot, or is there already.
LEMMA MergeKeeps ==
    ASSUME Inv, NEW t \in Task, Merge(t)
    PROVE  Inv'
<1>. USE DEF Inv
<1>1. TypeOK'
  <2>1. snap[t] \in Snap /\ cont[t].outcome \in Outcome /\ snap[t].kind = "snapshot"
    BY Constants DEF TypeOK, Merge, ReplyInv
  <2>2. Merged(t) \in Outcome /\ Merged(t) \in Outcome \cup {""}
    BY <2>1 DEF Merged, Snap
  <2>3. snap' \in [Task -> Snap] /\ snap'[t].kind = "snapshot" /\ \A u \in Task : snap'[u].kind = snap[u].kind
    <3>1. PICK s \in Snap : snap' = [snap EXCEPT ![t] = s] /\ s.kind = snap[t].kind
      <4>1. /\ [snap[t] EXCEPT !.slot = Merged(t)] \in Snap
            /\ [snap[t] EXCEPT !.slot = Merged(t)].kind = snap[t].kind
        BY <2>1, <2>2 DEF Snap
      <4>. QED
        BY <4>1 DEF Merge
    <3>2. snap \in [Task -> Snap]
      BY DEF TypeOK
    <3>. QED
      BY <2>1, <3>1, <3>2
  <2>4. cont' \in [Task -> [at : {"idle", "merge", "reply", "finish"}, outcome : Outcome \cup {""}]]
    BY <2>2 DEF TypeOK, Merge
  <2>5. \A u \in Task : cont'[u].at # "idle" => snap'[u].kind = "snapshot"
    BY <2>3, Shapes, Domains DEF Merge
  <2>. QED
    BY <2>3, <2>4, <2>5 DEF TypeOK, Merge
<1>2. Local(t)'
  <2>1. /\ Local(t) /\ snap[t] \in Snap /\ cont[t].at = "merge"
        /\ snap[t].kind = "snapshot" /\ ~snap[t].final /\ cont[t].outcome # "" /\ replies[t] = <<>>
    BY DEF TypeOK, Merge, ReplyInv, Local
  <2>2. /\ snap'[t].kind = snap[t].kind /\ snap'[t].final = snap[t].final /\ snap'[t].slot = Merged(t)
        /\ cont'[t].at = "reply" /\ cont'[t].outcome = Merged(t)
    BY <2>1, Shapes, Domains DEF Merge
  <2>3. Merged(t) # "" /\ Merged(t) = first[t]
    BY <2>1 DEF Merged, Local, FirstInv
  <2>4. request[t] # "none" /\ ~Dispatching(t)
    BY <2>1, Constants DEF Local, TurnInv
  <2>5. WorkerInv(t)' /\ TurnInv(t)'
    BY <2>1, <2>4 DEF Merge, Local, WorkerInv, TurnInv, Dispatching
  <2>6. ReplyInv(t)'
    BY <2>1, <2>2, <2>3 DEF Merge, ReplyInv
  <2>7. FirstInv(t)'
    BY <2>2, <2>3 DEF Merge, FirstInv
  <2>. QED
    BY <2>5, <2>6, <2>7 DEF Local
<1>3. ASSUME NEW u \in Task, u # t PROVE Local(u)'
  <2>1. cont'[u] = cont[u] /\ snap'[u] = snap[u]
    BY <1>3, Domains DEF Merge
  <2>. QED
    BY <1>3, <2>1, LocalSame DEF Merge, Local
<1>4. PollInv'
  BY PollSame DEF Merge, RowsGrow
<1>. QED
  BY <1>1, <1>2, <1>3, <1>4 DEF Local

\* The reply shows the outcome in the snapshot, and there was none before.
LEMMA ReplyKeeps ==
    ASSUME Inv, NEW t \in Task, Reply(t)
    PROVE  Inv'
<1>. USE DEF Inv
<1>1. TypeOK'
  <2>1. /\ snap[t] \in Snap /\ snap[t].kind = "snapshot"
        /\ replies[t] \in Seq(Outcome) /\ cont[t].outcome \in Outcome
    BY Constants DEF TypeOK, Reply, ReplyInv
  <2>2. /\ snap' \in [Task -> Snap] /\ replies' \in [Task -> Seq(Outcome)]
        /\ \A u \in Task : snap'[u].kind = snap[u].kind
    <3>1. CASE snap' = snap /\ replies' = replies
      BY <3>1 DEF TypeOK
    <3>2. CASE /\ replies' = [replies EXCEPT ![t] = Append(@, cont[t].outcome)]
               /\ snap' = [snap EXCEPT ![t].final = TRUE]
      <4>1. [snap[t] EXCEPT !.final = TRUE] \in Snap /\ [snap[t] EXCEPT !.final = TRUE].kind = snap[t].kind
        BY <2>1 DEF Snap
      <4>2. Append(replies[t], cont[t].outcome) \in Seq(Outcome)
        BY <2>1
      <4>. QED
        <5>. DEFINE s == [snap[t] EXCEPT !.final = TRUE]
        <5>1. snap \in [Task -> Snap] /\ replies \in [Task -> Seq(Outcome)]
          BY DEF TypeOK
        <5>2. snap' = [snap EXCEPT ![t] = s] /\ s \in Snap /\ s.kind = snap[t].kind
          BY <3>2, <4>1
        <5>. HIDE DEF s
        <5>3. replies' \in [Task -> Seq(Outcome)]
          BY <3>2, <4>2, <5>1
        <5>. QED
          BY <5>1, <5>2, <5>3
    <3>. QED
      BY <3>1, <3>2 DEF Reply
  <2>3. cont' \in [Task -> [at : {"idle", "merge", "reply", "finish"}, outcome : Outcome \cup {""}]]
    <3>1. cont[t] \in [at : {"idle", "merge", "reply", "finish"}, outcome : Outcome \cup {""}]
      BY DEF TypeOK
    <3>2. [cont[t] EXCEPT !.at = "finish"]
            \in [at : {"idle", "merge", "reply", "finish"}, outcome : Outcome \cup {""}]
      BY <3>1
    <3>3. cont' = [cont EXCEPT ![t] = [cont[t] EXCEPT !.at = "finish"]]
      BY DEF Reply
    <3>. QED
      BY <3>2, <3>3 DEF TypeOK
  <2>4. \A u \in Task : cont'[u].at # "idle" => snap'[u].kind = "snapshot"
    BY <2>2, Shapes, Domains DEF Reply
  <2>5. closed' \subseteq Task
    <3>1. closed' = closed \/ closed' = closed \cup {t}
      BY DEF Reply
    <3>2. closed \subseteq Task
      BY DEF TypeOK
    <3>. QED
      BY <3>1, <3>2
  <2>. QED
    BY <2>2, <2>3, <2>4, <2>5 DEF TypeOK, Reply
<1>2. Local(t)'
  <2>1. /\ Local(t) /\ snap[t] \in Snap /\ cont[t].at = "reply" /\ snap[t].kind = "snapshot"
        /\ ~snap[t].final /\ cont[t].outcome = snap[t].slot /\ cont[t].outcome # "" /\ replies[t] = <<>>
    BY DEF TypeOK, Reply, ReplyInv, Local
  <2>2. cont'[t].at = "finish"
    BY Shapes, Domains DEF Reply
  <2>3. snap'[t].kind = "snapshot" /\ snap'[t].slot = snap[t].slot
        /\ \/ ~snap'[t].final /\ replies'[t] = <<>>
           \/ snap'[t].final /\ replies'[t] = <<snap[t].slot>>
    <3>1. CASE snap' = snap /\ replies' = replies
      BY <2>1, <3>1
    <3>2. CASE /\ replies' = [replies EXCEPT ![t] = Append(@, cont[t].outcome)]
               /\ snap' = [snap EXCEPT ![t].final = TRUE]
      <4>1. snap'[t].kind = "snapshot" /\ snap'[t].slot = snap[t].slot /\ snap'[t].final
        BY <2>1, <3>2, Shapes, Domains
      <4>2. replies'[t] = Append(<<>>, snap[t].slot)
        BY <2>1, <3>2, Domains
      <4>3. Append(<<>>, snap[t].slot) = <<snap[t].slot>>
        OBVIOUS
      <4>. QED
        BY <4>1, <4>2, <4>3
    <3>. QED
      BY <3>1, <3>2 DEF Reply
  <2>4. request[t] # "none" /\ ~Dispatching(t)
    BY <2>1, Constants DEF Local, TurnInv
  <2>5. WorkerInv(t)' /\ TurnInv(t)'
    BY <2>1, <2>4 DEF Reply, Local, WorkerInv, TurnInv, Dispatching
  <2>6. ReplyInv(t)'
    <3>1. Len(replies'[t]) <= 1
      <4>1. CASE replies'[t] = <<>>
        BY <4>1
      <4>2. CASE replies'[t] = <<snap[t].slot>>
        BY <4>2
      <4>. QED
        BY <2>3, <4>1, <4>2
    <3>. QED
      BY <2>2, <2>3, <3>1 DEF ReplyInv
  <2>7. FirstInv(t)'
    BY <2>1, <2>2, <2>3 DEF Reply, Local, FirstInv
  <2>. QED
    BY <2>5, <2>6, <2>7 DEF Local
<1>3. ASSUME NEW u \in Task, u # t PROVE Local(u)'
  <2>1. cont'[u] = cont[u] /\ snap'[u] = snap[u] /\ replies'[u] = replies[u]
    BY <1>3, Domains DEF Reply
  <2>. QED
    BY <1>3, <2>1, LocalSame DEF Reply, Local
<1>4. PollInv'
  BY PollSame DEF Reply, RowsGrow
<1>. QED
  BY <1>1, <1>2, <1>3, <1>4 DEF Local

\* With the snapshot the task's outcome is forgotten, its reply stays.
LEMMA FinishKeeps ==
    ASSUME Inv, NEW t \in Task, Finish(t)
    PROVE  Inv'
<1>. USE DEF Inv
<1>1. TypeOK'
  <2>1. snap' \in [Task -> Snap]
    BY Placeholders DEF TypeOK, Finish
  <2>2. cont' \in [Task -> [at : {"idle", "merge", "reply", "finish"}, outcome : Outcome \cup {""}]]
    BY Constants DEF TypeOK, Finish
  <2>3. \A u \in Task : cont'[u].at # "idle" => snap'[u].kind = "snapshot"
    BY Constants, Shapes, Domains DEF Finish
  <2>. QED
    BY <2>1, <2>2, <2>3 DEF TypeOK, Finish
<1>2. Local(t)'
  <2>1. Local(t) /\ cont[t].at = "finish" /\ snap'[t] = NoSnap /\ cont'[t] = Idle
    BY Domains DEF Finish, Local
  <2>2. request[t] # "none" /\ ~Dispatching(t)
    BY <2>1, Constants DEF Local, TurnInv
  <2>3. WorkerInv(t)' /\ TurnInv(t)'
    BY <2>1, <2>2 DEF Finish, Local, WorkerInv, TurnInv, Dispatching
  <2>4. ReplyInv(t)' /\ FirstInv(t)'
    BY <2>1, Placeholders, Constants DEF Finish, Local, ReplyInv, FirstInv
  <2>. QED
    BY <2>3, <2>4 DEF Local
<1>3. ASSUME NEW u \in Task, u # t PROVE Local(u)'
  BY <1>3, LocalSame, Domains DEF Finish, Local
<1>4. PollInv'
  BY PollSame DEF Finish, RowsGrow
<1>. QED
  BY <1>1, <1>2, <1>3, <1>4 DEF Local

\* Time passes.
LEMMA ExpireKeeps ==
    ASSUME Inv, NEW t \in Task, Expire(t)
    PROVE  Inv'
<1>. USE DEF Inv
<1>1. TypeOK'
  <2>1. expired' \subseteq Task
    <3>1. expired \subseteq Task /\ expired' = expired \cup {t}
      BY DEF TypeOK, Expire
    <3>. QED
      BY <3>1
  <2>. QED
    BY <2>1 DEF TypeOK, Expire
<1>2. Local(t)'
  BY LocalSame DEF Expire, Local
<1>3. ASSUME NEW u \in Task, u # t PROVE Local(u)'
  BY LocalSame DEF Expire, Local
<1>4. PollInv'
  BY PollSame DEF Expire, RowsGrow
<1>. QED
  BY <1>1, <1>2, <1>3, <1>4 DEF Local

\* Node A restarts with what is on disk; what it has learned is what the snapshots hold.
LEMMA RestartAKeeps ==
    ASSUME Inv, RestartA
    PROVE  Inv'
<1>. USE DEF Inv
<1>1. TypeOK'
  <2>1. row' \in [Task -> {"absent", "Pending", "Completed", "Failed"}]
    BY DEF TypeOK, RestartA, Rebuilt
  <2>2. request' \in [Task -> {"none", "calling", "acked", "registered", "saved", "lost", "refused", "crashed"}]
    BY DEF TypeOK, RestartA
  <2>3. bus' \in [Task -> Seq(Outcome)]
    BY DEF RestartA
  <2>4. /\ cont' \in [Task -> [at : {"idle", "merge", "reply", "finish"}, outcome : Outcome \cup {""}]]
        /\ \A u \in Task : cont'[u].at = "idle"
    BY Constants DEF RestartA
  <2>5. poll' \in [at : {"idle", "settle", "publish", "confirm"}, work : SUBSET Task,
                   task : Task \cup {""}, outcome : Outcome \cup {""}]
    BY DEF RestartA, IdlePoll
  <2>6. first' \in [Task -> Outcome \cup {""}]
    <3>1. \A u \in Task : snap[u].slot \in Outcome \cup {""}
      BY DEF TypeOK, Snap
    <3>. QED
      BY <3>1 DEF RestartA
  <2>7. crashA' \in 0..MaxCrashA
    <3>1. crashA \in 0..MaxCrashA /\ crashA < MaxCrashA /\ crashA' = crashA + 1
      BY DEF TypeOK, RestartA
    <3>. QED
      BY <3>1, BoundAssumption
  <2>8. inbound' \in [Task -> {"idle", "settle", "answer", "orphan"}] /\ struck' \subseteq Task
    BY DEF TypeOK, RestartA
  <2>. QED
    BY <2>1, <2>2, <2>3, <2>4, <2>5, <2>6, <2>7, <2>8 DEF TypeOK, RestartA
<1>2. ASSUME NEW u \in Task PROVE Local(u)'
  <2>1. /\ request'[u] = IF Dispatching(u) THEN "crashed" ELSE request[u]
        /\ bus'[u] = <<>> /\ cont'[u] = Idle /\ inbound'[u] = "idle" /\ first'[u] = snap[u].slot
        /\ row'[u] = IF snap[u].kind = "snapshot" /\ row[u] = "absent" THEN "Pending" ELSE row[u]
    BY DEF RestartA, Rebuilt
  <2>2. snap' = snap /\ replies' = replies /\ worker' = worker /\ tries' = tries /\ stored' = stored
    BY DEF RestartA
  <2>3. WorkerInv(u)'
    BY <2>1, <2>2 DEF WorkerInv
  <2>4. TurnInv(u)'
    <3>1. ~Dispatching(u)'
      BY <2>1 DEF Dispatching
    <3>2. request'[u] = "none" => request[u] = "none"
      BY <2>1
    <3>. QED
      <4>1. ASSUME request[u] = "none"
            PROVE  /\ snap[u] = NoSnap /\ row[u] = "absent" /\ replies[u] = <<>> /\ worker[u] = "none"
                   /\ row'[u] = "absent" /\ first'[u] = ""
        <5>1. snap[u] = NoSnap /\ row[u] = "absent" /\ replies[u] = <<>> /\ worker[u] = "none"
          BY <4>1 DEF TurnInv
        <5>. QED
          BY <2>1, <5>1, Placeholders
      <4>. QED
        BY <2>1, <2>2, <3>1, <3>2, <4>1 DEF TurnInv
  <2>5. ReplyInv(u)'
    BY <2>1, <2>2, Constants DEF ReplyInv
  <2>6. FirstInv(u)'
    BY <2>1, <2>2, Constants DEF FirstInv
  <2>. QED
    BY <2>3, <2>4, <2>5, <2>6 DEF Local
<1>3. PollInv'
  BY DEF RestartA, IdlePoll, PollInv
<1>. QED
  BY <1>1, <1>2, <1>3 DEF Local

\* Node B restarts: the callback in progress loses it, and an execution starts again from its beginning.
LEMMA RestartBKeeps ==
    ASSUME Inv, RestartB
    PROVE  Inv'
<1>. USE DEF Inv
<1>1. TypeOK'
  <2>1. worker' \in [Task -> {"none", "working", "reporting", "done"}]
    BY DEF RestartB
  <2>2. stored' \in [Task -> {"none", "running", "done"}]
    BY DEF TypeOK, RestartB
  <2>3. inbound' \in [Task -> {"idle", "settle", "answer", "orphan"}]
    BY DEF TypeOK, RestartB
  <2>4. crashB' \in 0..MaxCrashB
    <3>1. crashB \in 0..MaxCrashB /\ crashB < MaxCrashB /\ crashB' = crashB + 1
      BY DEF TypeOK, RestartB
    <3>. QED
      BY <3>1, BoundAssumption
  <2>. QED
    BY <2>1, <2>2, <2>3, <2>4 DEF TypeOK, RestartB
<1>2. ASSUME NEW u \in Task PROVE Local(u)'
  <2>1. /\ worker'[u] \in {"none", "working", "done"}
        /\ worker[u] = "none" => worker'[u] = "none"
        /\ worker[u] = "done" => worker'[u] = "done"
    <3>1. PICK again \in SUBSET {t \in Task : worker[t] \in {"working", "reporting"}} :
             worker' = [t \in Task |-> CASE t \in again -> "working"
                                         [] worker[t] = "none" -> "none"
                                         [] OTHER -> "done"]
      BY DEF RestartB
    <3>2. u \in again => worker[u] \in {"working", "reporting"}
      OBVIOUS
    <3>3. worker'[u] = CASE u \in again -> "working" [] worker[u] = "none" -> "none" [] OTHER -> "done"
      BY <3>1
    <3>. QED
      BY <3>2, <3>3
  <2>2. inbound'[u] \in {"idle", "orphan"} /\ (stored'[u] = "done" => stored[u] = "done")
    <3>1. /\ inbound[u] \in {"idle", "settle", "answer", "orphan"}
          /\ inbound'[u] = CASE inbound[u] = "settle" -> "orphan" [] inbound[u] = "answer" -> "idle"
                             [] OTHER -> inbound[u]
          /\ stored'[u] = IF stored[u] = "running" THEN "none" ELSE stored[u]
      BY DEF TypeOK, RestartB
    <3>2. inbound'[u] \in {"idle", "orphan"}
      BY <3>1
    <3>. QED
      BY <3>1, <3>2
  <2>3. WorkerInv(u)'
    BY <2>1, <2>2 DEF WorkerInv
  <2>4. TurnInv(u)'
    BY <2>1 DEF RestartB, TurnInv, Dispatching
  <2>5. ReplyInv(u)' /\ FirstInv(u)'
    BY DEF RestartB, ReplyInv, FirstInv
  <2>. QED
    BY <2>3, <2>4, <2>5 DEF Local
<1>3. PollInv'
  BY PollSame DEF RestartB, RowsGrow
<1>. QED
  BY <1>1, <1>2, <1>3 DEF Local

-------------------------------------------------------------------------------
(* The theorems.                                                           *)

\* Nothing has happened yet.
LEMMA InitKeeps == Init => Inv
<1>. SUFFICES ASSUME Init PROVE Inv
  OBVIOUS
<1>1. TypeOK
  <2>1. 0 \in 0..MaxTries /\ 0 \in 0..MaxCrashA /\ 0 \in 0..MaxCrashB
    BY BoundAssumption
  <2>2. /\ snap \in [Task -> Snap] /\ bus \in [Task -> Seq(Outcome)] /\ replies \in [Task -> Seq(Outcome)]
        /\ cont \in [Task -> [at : {"idle", "merge", "reply", "finish"}, outcome : Outcome \cup {""}]]
    <3>1. snap \in [Task -> Snap]
      BY Placeholders DEF Init
    <3>2. cont \in [Task -> [at : {"idle", "merge", "reply", "finish"}, outcome : Outcome \cup {""}]]
      BY Constants DEF Init
    <3>3. <<>> \in Seq(Outcome)
      OBVIOUS
    <3>. QED
      BY <3>1, <3>2, <3>3 DEF Init
  <2>3. poll \in [at : {"idle", "settle", "publish", "confirm"}, work : SUBSET Task,
                  task : Task \cup {""}, outcome : Outcome \cup {""}]
    BY DEF Init, IdlePoll
  <2>4. \A t \in Task : cont[t].at = "idle"
    BY Constants DEF Init
  <2>. QED
    BY <2>1, <2>2, <2>3, <2>4 DEF TypeOK, Init
<1>2. ASSUME NEW t \in Task PROVE Local(t)
  <2>1. /\ request[t] = "none" /\ row[t] = "absent" /\ snap[t] = NoSnap /\ bus[t] = <<>> /\ cont[t] = Idle
        /\ inbound[t] = "idle" /\ replies[t] = <<>> /\ worker[t] = "none" /\ stored[t] = "none" /\ first[t] = ""
    BY DEF Init
  <2>2. WorkerInv(t) /\ TurnInv(t)
    BY <2>1 DEF WorkerInv, TurnInv, Dispatching
  <2>3. ReplyInv(t)
    <3>1. Len(<<>>) <= 1
      OBVIOUS
    <3>. QED
      BY <2>1, <3>1, Placeholders, Constants DEF ReplyInv
  <2>4. FirstInv(t)
    BY <2>1, Placeholders, Constants DEF FirstInv
  <2>. QED
    BY <2>2, <2>3, <2>4 DEF Local
<1>3. PollInv
  BY DEF Init, IdlePoll, PollInv
<1>. QED
  BY <1>1, <1>2, <1>3 DEF Inv, Local

\* Every step of either node, of the network and of time keeps the invariant.
LEMMA NextKeeps == Inv /\ [Next]_vars => Inv'
<1>. SUFFICES ASSUME Inv, [Next]_vars PROVE Inv'
  OBVIOUS
<1>1. CASE \E t \in Task : Dispatch(t) \/ Accept(t) \/ TurnStep(t)
  BY <1>1, DispatchKeeps, AcceptKeeps, RefusedKeeps, RequestLostKeeps, AcknowledgedKeeps,
     RegisterKeeps, SaveSnapshotKeeps DEF TurnStep
<1>2. CASE \E t \in Task : WorkerStep(t) \/ CallbackSettle(t)
  BY <1>2, ExecuteKeeps, CallbackPublishKeeps, CallbackAnsweredKeeps, CallbackFailsKeeps,
     CallbackSettleKeeps DEF WorkerStep
<1>3. CASE \E t \in Task : PollQueryLost(t) \/ ContStep(t) \/ Expire(t)
  BY <1>3, PollQueryLostKeeps, TakeContinuationKeeps, MergeKeeps, ReplyKeeps, FinishKeeps,
     ExpireKeeps DEF ContStep
<1>4. CASE PollStep
  BY <1>4, PollTickKeeps, PollVisitKeeps, PollSettleKeeps, PollPublishKeeps, PollConfirmKeeps
     DEF PollStep
<1>5. CASE RestartA
  BY <1>5, RestartAKeeps
<1>6. CASE RestartB
  BY <1>6, RestartBKeeps
<1>7. CASE UNCHANGED vars
  <2>1. TypeOK' /\ PollInv'
    BY <1>7 DEF vars, Inv, TypeOK, PollInv
  <2>2. ASSUME NEW u \in Task PROVE Local(u)'
    BY <1>7, LocalSame DEF vars, Inv, Local
  <2>. QED
    BY <2>1, <2>2 DEF Inv, Local
<1>. QED
  BY <1>1, <1>2, <1>3, <1>4, <1>5, <1>6, <1>7 DEF Next

\* The invariant holds in every state that two nodes, their network and their
\* crashes can reach.
THEOREM Invariance == Spec => []Inv
  BY InitKeeps, NextKeeps, PTL DEF Spec

\* Every variable has its type, and no handler is at work on a task whose
\* snapshot is gone.
THEOREM TypesHold == Spec => []TypeOK
<1>1. Inv => TypeOK
  BY DEF Inv
<1>. QED
  BY <1>1, Invariance, PTL

\* The user sees at most one reply to a delegated task, and it is built on the
\* outcome that A learned first: neither the late answer of the other path nor a
\* crash between the two changes it.
THEOREM TheFirstOutcomeIsShown == Spec => []FirstLearnedIsShown
<1>1. Inv => FirstLearnedIsShown
  <2>. SUFFICES ASSUME Inv, NEW t \in Task
                PROVE  /\ Len(replies[t]) <= 1
                       /\ cont[t].at \in {"reply", "finish"} /\ replies[t] # <<>>
                             => replies[t] = <<snap[t].slot>>
                       /\ snap[t].slot # "" => snap[t].slot = first[t]
    BY DEF FirstLearnedIsShown
  <2>1. ReplyInv(t) /\ FirstInv(t) /\ (cont[t].at # "idle" => snap[t].kind = "snapshot")
    BY DEF Inv, TypeOK
  <2>. QED
    BY <2>1 DEF ReplyInv, FirstInv
<1>. QED
  BY <1>1, Invariance, PTL

\* B gives up a result that it kept only when the row in A's tasks.db is settled:
\* of the three steps that delete it, an answered callback has none to delete, a
\* restart loses placeholders only, and the confirmation follows the row.
THEOREM ResultsAreKeptUntilRecorded == Spec => KeptUntilRecorded
<1>1. ASSUME Inv, [Next]_vars, NEW t \in Task, stored[t] = "done", stored'[t] = "none"
      PROVE  row[t] \in {"Completed", "Failed"}
  <2>1. stored' # stored /\ stored \in [Task -> {"none", "running", "done"}]
    BY <1>1 DEF Inv, TypeOK
  <2>2. worker[t] = "done"
    BY <1>1 DEF Inv, WorkerInv
  <2>3. ASSUME NEW u \in Task, Accept(u) PROVE FALSE
    BY <1>1, <2>1, <2>2, <2>3 DEF Accept
  <2>4. ASSUME NEW u \in Task, CallbackAnswered(u) PROVE FALSE
    <3>1. worker[u] = "reporting"
      BY <1>1, <2>4 DEF CallbackAnswered, Inv, WorkerInv
    <3>. QED
      BY <1>1, <2>1, <2>2, <2>4, <3>1 DEF CallbackAnswered
  <2>5. ASSUME NEW u \in Task, CallbackFails(u) PROVE FALSE
    <3>1. stored' = [stored EXCEPT ![u] = "done"]
      BY <2>1, <2>5 DEF CallbackFails, KeepResult
    <3>. QED
      BY <1>1, <2>1, <3>1
  <2>6. ASSUME NEW reached \in BOOLEAN, PollConfirm(reached) PROVE row[t] \in {"Completed", "Failed"}
    <3>1. stored' = [stored EXCEPT ![poll.task] = "none"] /\ poll.at = "confirm"
      BY <2>1, <2>6 DEF PollConfirm
    <3>2. t = poll.task
      BY <1>1, <2>1, <3>1
    <3>. QED
      BY <1>1, <3>1, <3>2 DEF Inv, PollInv
  <2>7. ASSUME RestartB PROVE FALSE
    BY <1>1, <2>7 DEF RestartB
  <2>8. \/ \E u \in Task : Accept(u) \/ CallbackAnswered(u) \/ CallbackFails(u)
        \/ \E reached \in BOOLEAN : PollConfirm(reached)
        \/ RestartB
    <3>1. CASE \E u \in Task : Dispatch(u) \/ Accept(u) \/ TurnStep(u)
      BY <2>1, <3>1 DEF Dispatch, TurnStep, Refused, RequestLost, Acknowledged, Register,
         SaveSnapshot
    <3>2. CASE \E u \in Task : WorkerStep(u) \/ CallbackSettle(u)
      BY <2>1, <3>2 DEF WorkerStep, Execute, CallbackPublish, CallbackSettle
    <3>3. CASE \E u \in Task : PollQueryLost(u) \/ ContStep(u) \/ Expire(u)
      BY <2>1, <3>3 DEF PollQueryLost, ContStep, TakeContinuation, Merge, Reply, Finish, Expire
    <3>4. CASE PollStep
      BY <2>1, <3>4 DEF PollStep, PollTick, PollVisit, PollSettle, PollPublish
    <3>5. CASE RestartA \/ UNCHANGED vars
      BY <2>1, <3>5 DEF RestartA, vars
    <3>. QED
      BY <1>1, <3>1, <3>2, <3>3, <3>4, <3>5 DEF Next
  <2>. QED
    BY <2>3, <2>4, <2>5, <2>6, <2>7, <2>8
<1>2. Inv /\ [Next]_vars => [\A t \in Task : stored[t] = "done" /\ stored'[t] = "none"
                                => row[t] \in {"Completed", "Failed"}]_vars
  BY <1>1
<1>. QED
  BY <1>2, Invariance, PTL DEF Spec, KeptUntilRecorded
===============================================================================
