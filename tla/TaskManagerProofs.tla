-------------------------- MODULE TaskManagerProofs --------------------------
(***************************************************************************)
(* TaskManager for every set of tasks, threads and results, either store,  *)
(* and any number of restarts.                                             *)
(*                                                                         *)
(* HeardOnce and AnswersAgree are not inductive: they do not say what the  *)
(* threads in the middle of settle_task will still do.  IInv adds it: a    *)
(* thread that won the conditional update owns the announcement of its     *)
(* task, no second thread owns the same one, and nothing was announced     *)
(* while it is owned.                                                      *)
(***************************************************************************)
EXTENDS TaskManager, TLAPS

\* Thread h won the conditional update on t and has not announced it yet.
Owns(h, t) == call[h].at \in {"won", "fire"} /\ call[h].task = t

\* The history of a task agrees with its row.
RowMatchesOutcome ==
    \A t \in Task :
        /\ store[t].status \in Open => outcome[t] = Unsettled
        /\ store[t].status \in Terminal => outcome[t] = OutcomeOf(store[t])
        /\ outcome[t] = Unsettled => heard[t] = <<>> /\ told[t] = {}

\* A call in progress is about a task of this process run.
CallsAreOnSeenTasks ==
    /\ \A t \in Task : Present(t) => t \in seen
    /\ \A h \in Thread : call[h].at # "idle" => call[h].task \in seen

\* What the owner of an announcement knows about its task.
OwnerKnows ==
    \A h \in Thread, t \in Task : Owns(h, t) =>
        /\ outcome[t] # Unsettled
        /\ outcome[t].status = call[h].status
        /\ heard[t] = <<>>
        /\ call[h].at = "fire" => call[h].got = outcome[t]

\* An announcement has one owner.
OneOwner ==
    \A h, k \in Thread, t \in Task : Owns(h, t) /\ Owns(k, t) => h = k

\* A losing call asked for a terminal state; the cleanup loop never loses.
LosersAskTerminal ==
    \A h \in Thread : call[h].at = "lost" => call[h].status \in Terminal

IInv ==
    /\ TypeOK
    /\ RowMatchesOutcome
    /\ CallsAreOnSeenTasks
    /\ OwnerKnows
    /\ OneOwner
    /\ LosersAskTerminal
    /\ HeardOnce
    /\ AnswersAgree

-------------------------------------------------------------------------------
\* The cleanup loop starts before its first phase.
LEMMA PhaseZero == 0 \in 0..5
  OBVIOUS

\* A task is created with an empty record of announcements.
LEMMA NothingHeard == <<>> \in Seq(Outcome)
  OBVIOUS

\* The initial states satisfy the invariant: the store is empty and no thread
\* is inside settle_task.
LEMMA InitEstablishes == Init => IInv
<1> SUFFICES ASSUME Init PROVE IInv
  OBVIOUS
<1> USE DEF Init, Absent, Unsettled, IdleCall, LoopOff
<1>1. TypeOK
  <2>1. store \in [Task -> Row] /\ \A t \in Task : store[t].stamped <=> store[t].status \in Terminal
    BY DEF Row, Status, Terminal, AnyResult
  <2>2. call \in [Thread -> Call]
    BY DEF Call, Status, Open
  <2>3. loop \in Loop
    BY PhaseZero, Zenon DEF Loop
  <2>4. outcome \in [Task -> Outcome \cup {Unsettled}]
    OBVIOUS
  <2>5. heard \in [Task -> Seq(Outcome)]
    BY NothingHeard
  <2>6. told \in [Task -> SUBSET Terminal]
    OBVIOUS
  <2>7. expired \in [Task -> BOOLEAN] /\ aged \in [Task -> BOOLEAN] /\ callback \in BOOLEAN
    OBVIOUS
  <2>8. seen \subseteq Task /\ restarts \in Nat
    OBVIOUS
  <2> QED
    BY <2>1, <2>2, <2>3, <2>4, <2>5, <2>6, <2>7, <2>8 DEF TypeOK
<1>2. RowMatchesOutcome
  BY DEF RowMatchesOutcome, Open, Terminal
<1>3. CallsAreOnSeenTasks
  BY DEF CallsAreOnSeenTasks, Present
<1>4. OwnerKnows /\ OneOwner /\ LosersAskTerminal
  BY DEF OwnerKnows, OneOwner, LosersAskTerminal, Owns
<1>5. HeardOnce /\ AnswersAgree
  BY DEF HeardOnce, AnswersAgree
<1> QED
  BY <1>1, <1>2, <1>3, <1>4, <1>5 DEF IInv

\* submit and create_task_with_peer: a new row has no history.
LEMMA SubmitKeeps ==
  ASSUME IInv, NEW t \in Task, Submit(t)
  PROVE  IInv'
<1> USE DEF IInv, Submit, Create, PendingRow, Unsettled, Present
<1>1. TypeOK'
  <2>1. (store \in [Task -> Row] /\ \A u \in Task : store[u].stamped <=> store[u].status \in Terminal)'
    BY DEF TypeOK, Row, Status, Open, Terminal, AnyResult, Outcome
  <2>2. (expired \in [Task -> BOOLEAN] /\ aged \in [Task -> BOOLEAN])'
    BY DEF TypeOK
  <2>3. (heard \in [Task -> Seq(Outcome)])'
    BY DEF TypeOK
  <2>4. (outcome \in [Task -> Outcome \cup {Unsettled}] /\ told \in [Task -> SUBSET Terminal])'
    BY DEF TypeOK
  <2> QED
    BY <2>1, <2>2, <2>3, <2>4 DEF TypeOK
<1>2. RowMatchesOutcome'
  BY DEF TypeOK, RowMatchesOutcome, Open, Terminal, OutcomeOf
<1>3. CallsAreOnSeenTasks'
  BY DEF TypeOK, CallsAreOnSeenTasks
<1>4. (OwnerKnows /\ OneOwner /\ LosersAskTerminal)'
  BY DEF TypeOK, CallsAreOnSeenTasks, OwnerKnows, OneOwner, LosersAskTerminal, Owns
<1>5. (HeardOnce /\ AnswersAgree)'
  BY DEF TypeOK, HeardOnce, AnswersAgree
<1> QED
  BY <1>1, <1>2, <1>3, <1>4, <1>5

\* An update that settles or assigns a task keeps the store well typed.
LEMMA UpdatedIsTyped ==
  ASSUME TypeOK, NEW t \in Task, NEW status \in Status, NEW result \in AnyResult,
         store[t].status \in Open, store' = Updated(t, status, result)
  PROVE  /\ store' \in [Task -> Row]
         /\ \A u \in Task : store'[u].stamped <=> store'[u].status \in Terminal
         /\ store'[t].status = status /\ store'[t].result = result
         /\ \A u \in Task \ {t} : store'[u] = store[u]
  BY DEF TypeOK, Updated, Row, Status, Open, Terminal

\* assign_task.
LEMMA AssignKeeps ==
  ASSUME IInv, NEW t \in Task, AssignTask(t)
  PROVE  IInv'
<1> USE DEF IInv, AssignTask, UpdateResultIfStatus
<1>1. /\ store' \in [Task -> Row]
      /\ \A u \in Task : store'[u].stamped <=> store'[u].status \in Terminal
      /\ store'[t].status = "Running" /\ \A u \in Task \ {t} : store'[u] = store[u]
  BY UpdatedIsTyped DEF Open, Status, AnyResult
<1>2. TypeOK'
  BY <1>1 DEF TypeOK
<1>3. RowMatchesOutcome'
  <2>1. outcome' = outcome /\ heard' = heard /\ told' = told
    OBVIOUS
  <2>2. outcome[t] = Unsettled
    BY DEF RowMatchesOutcome, Open
  <2> QED BY <1>1, <2>1, <2>2 DEF RowMatchesOutcome, Terminal
<1>4. CallsAreOnSeenTasks'
  BY <1>1 DEF TypeOK, CallsAreOnSeenTasks, Present
<1>5. (OwnerKnows /\ OneOwner /\ LosersAskTerminal)'
  BY DEF OwnerKnows, OneOwner, LosersAskTerminal, Owns
<1>6. (HeardOnce /\ AnswersAgree)'
  BY DEF HeardOnce, AnswersAgree
<1> QED
  BY <1>2, <1>3, <1>4, <1>5, <1>6

\* The step that settles a task, by whichever thread: settle_task or the timeout of
\* cleanup_completed.  The thread becomes the owner of the announcement; that nobody
\* owned it before follows from OwnerKnows, because the row was still open.
LEMMA WinKeeps ==
  ASSUME IInv, NEW h \in Thread, NEW t \in Task,
         NEW status \in Terminal, NEW result \in AnyResult,
         store[t].status \in Open,
         store' = Updated(t, status, result),
         outcome' = [outcome EXCEPT ![t] = [status |-> status, result |-> result]],
         call' = [call EXCEPT ![h] = Won(t, status)],
         call[h].at = "idle",
         loop' \in Loop,
         UNCHANGED <<expired, aged, callback, seen, restarts, heard, told>>
  PROVE  IInv'
<1> USE DEF IInv
<1>1. /\ store' \in [Task -> Row]
      /\ \A u \in Task : store'[u].stamped <=> store'[u].status \in Terminal
      /\ store'[t].status = status /\ store'[t].result = result
      /\ \A u \in Task \ {t} : store'[u] = store[u]
  BY UpdatedIsTyped DEF Status
<1>2. [status |-> status, result |-> result] \in Outcome
  BY DEF Outcome
<1>3. outcome[t] = Unsettled /\ heard[t] = <<>> /\ told[t] = {} /\ t \in seen
  BY DEF RowMatchesOutcome, CallsAreOnSeenTasks, Present, Open
<1>4. Won(t, status) \in Call
  BY DEF Won, Call, Status
<1>5. TypeOK'
  BY <1>1, <1>2, <1>4 DEF TypeOK
<1>6. outcome'[t] # Unsettled /\ outcome'[t].status = status /\ outcome'[t].result = result
  BY DEF TypeOK, Unsettled, Terminal
<1>7. RowMatchesOutcome'
  BY <1>1, <1>6 DEF TypeOK, RowMatchesOutcome, OutcomeOf, Open, Terminal
<1>8. CallsAreOnSeenTasks'
  BY <1>1, <1>3, <1>4 DEF TypeOK, CallsAreOnSeenTasks, Present, Won, Open
<1>9. OwnerKnows'
  BY <1>3, <1>6 DEF TypeOK, OwnerKnows, Owns, Won
<1>10. OneOwner'
  <2>1. call'[h] = Won(t, status) /\ \A k \in Thread : k # h => call'[k] = call[k] /\ ~Owns(k, t)
    BY <1>3 DEF TypeOK, OwnerKnows
  <2>2. \A u \in Task : Owns(h, u)' => u = t
    BY <2>1 DEF Owns, Won
  <2>3. \A k \in Thread, u \in Task : k # h /\ Owns(k, u)' => Owns(k, u) /\ u # t
    BY <2>1 DEF Owns
  <2> QED BY <2>2, <2>3 DEF OneOwner
<1>11. LosersAskTerminal'
  BY DEF TypeOK, LosersAskTerminal, Won
<1>12. (HeardOnce /\ AnswersAgree)'
  BY <1>3 DEF TypeOK, HeardOnce, AnswersAgree
<1> QED
  BY <1>5, <1>7, <1>8, <1>9, <1>10, <1>11, <1>12

\* settle_task and complete_callback: winning, or finding the task settled.
LEMMA SettleKeeps ==
  ASSUME IInv, NEW c \in Caller, NEW t \in Task, NEW status \in {"Completed", "Failed"},
         NEW r \in Result, SettleTask(c, t, status, r)
  PROVE  IInv'
<1> USE DEF IInv
<1>1. c \in Thread /\ status \in Terminal /\ r \in AnyResult /\ call[c].at = "idle"
  BY DEF Thread, Terminal, AnyResult, SettleTask
<1>2. CASE /\ UpdateResultIfStatus(t, Open, status, r)
           /\ outcome' = [outcome EXCEPT ![t] = [status |-> status, result |-> r]]
           /\ call' = [call EXCEPT ![c] = Won(t, status)]
  BY <1>1, <1>2, WinKeeps DEF SettleTask, UpdateResultIfStatus, TypeOK
<1>3. CASE /\ store[t].status \in Terminal
           /\ call' = [call EXCEPT ![c] = Lost(t, status)]
           /\ UNCHANGED <<store, outcome>>
  <2>1. UNCHANGED <<store, expired, aged, callback, loop, seen, restarts, outcome, heard, told>>
    BY <1>3 DEF SettleTask
  <2>2. Lost(t, status) \in Call
    BY <1>1 DEF Lost, Call, Status
  <2>3. TypeOK'
    BY <1>3, <2>1, <2>2, <1>1 DEF TypeOK
  <2>4. CallsAreOnSeenTasks'
    BY <1>3, <2>1, <1>1 DEF TypeOK, CallsAreOnSeenTasks, Present, Lost, Terminal
  <2>5. (OwnerKnows /\ OneOwner /\ LosersAskTerminal)'
    BY <1>3, <2>1, <1>1 DEF TypeOK, OwnerKnows, OneOwner, LosersAskTerminal, Owns, Lost
  <2>6. (RowMatchesOutcome /\ HeardOnce /\ AnswersAgree)'
    BY <2>1 DEF RowMatchesOutcome, HeardOnce, AnswersAgree
  <2> QED
    BY <2>3, <2>4, <2>5, <2>6
<1> QED
  BY <1>2, <1>3 DEF SettleTask

\* A thread leaves settle_task without announcing anything; the answer it gives,
\* if it gives one, is the status its task was settled with.
LEMMA LeaveKeeps ==
  ASSUME IInv, NEW h \in Thread, NEW t \in Task,
         call' = [call EXCEPT ![h] = IdleCall],
         told' \in {told, [told EXCEPT ![t] = @ \cup {outcome[t].status}]},
         outcome[t] # Unsettled,
         UNCHANGED <<store, expired, aged, callback, loop, seen, restarts, outcome, heard>>
  PROVE  IInv'
<1> USE DEF IInv
<1>1. IdleCall \in Call
  BY DEF IdleCall, Call, Status, Open
<1>2. outcome[t].status \in Terminal
  BY DEF TypeOK, Outcome
<1>3. TypeOK'
  <2>1. call' \in [Thread -> Call]
    BY <1>1 DEF TypeOK
  <2>2. told \in [Task -> SUBSET Terminal]
    BY DEF TypeOK
  <2>3. told[t] \cup {outcome[t].status} \in SUBSET Terminal
    BY <2>2, <1>2
  <2>4. told' \in [Task -> SUBSET Terminal]
    <3> HIDE DEF IInv
    <3> QED BY <2>2, <2>3
  <2> QED
    BY <2>1, <2>4 DEF TypeOK
<1>4. RowMatchesOutcome' /\ HeardOnce'
  BY DEF TypeOK, RowMatchesOutcome, HeardOnce
<1>7. AnswersAgree'
  <2> SUFFICES ASSUME NEW u \in Task PROVE told'[u] \subseteq {outcome[u].status}
    BY DEF AnswersAgree
  <2>1. CASE told' = told
    BY <2>1 DEF AnswersAgree
  <2>2. CASE told' = [told EXCEPT ![t] = @ \cup {outcome[t].status}]
    BY <2>2 DEF TypeOK, AnswersAgree
  <2> QED
    BY <2>1, <2>2
<1>5. (CallsAreOnSeenTasks /\ LosersAskTerminal)'
  BY DEF TypeOK, CallsAreOnSeenTasks, LosersAskTerminal, IdleCall, Present
<1>8. \A k \in Thread, u \in Task : Owns(k, u)' => Owns(k, u) /\ call'[k] = call[k]
  BY DEF TypeOK, Owns, IdleCall
<1>6. (OwnerKnows /\ OneOwner)'
  <2>1. OwnerKnows'
    BY <1>8 DEF OwnerKnows
  <2>2. OneOwner'
    BY <1>8 DEF OneOwner
  <2> QED
    BY <2>1, <2>2
<1> QED
  BY <1>3, <1>4, <1>7, <1>5, <1>6

\* A call record after the read-back has its type.
LEMMA FireCallIsTyped ==
  ASSUME NEW t \in Task, NEW status \in Status, NEW got \in Outcome \cup {Unsettled}
  PROVE  [at |-> "fire", task |-> t, status |-> status, got |-> got] \in Call
  BY DEF Call

\* The winner reads the row back: what it got is the outcome the task has.
LEMMA ReadKeeps ==
  ASSUME IInv, NEW h \in Thread, call[h].at = "won", Present(call[h].task),
         call' = [call EXCEPT ![h] = Read(@, store[call[h].task])],
         UNCHANGED <<store, expired, aged, callback, loop, seen, restarts, outcome, heard, told>>
  PROVE  IInv'
<1> USE DEF IInv
<1> DEFINE t == call[h].task
<1>1. t \in Task
  BY DEF TypeOK, CallsAreOnSeenTasks
<1>2. outcome[t] # Unsettled /\ outcome[t].status = call[h].status /\ heard[t] = <<>>
  BY <1>1 DEF OwnerKnows, Owns
<1>3. OutcomeOf(store[t]) = outcome[t]
  BY <1>1, <1>2 DEF TypeOK, RowMatchesOutcome, Present, Row, Status
<1>4. Read(call[h], store[t]) = [at |-> "fire", task |-> t, status |-> call[h].status, got |-> outcome[t]]
  BY <1>3 DEF Read
<1>5. Read(call[h], store[t]) \in Call
  <2>1. call[h].status \in Status
    BY DEF TypeOK, Call
  <2>2. outcome[t] \in Outcome \cup {Unsettled}
    BY <1>1 DEF TypeOK
  <2> QED
    BY <1>1, <1>4, <2>1, <2>2, FireCallIsTyped
<1> HIDE DEF t
<1>6. call' = [call EXCEPT ![h] =
                 [at |-> "fire", task |-> t, status |-> call[h].status, got |-> outcome[t]]]
  BY <1>4 DEF t
<1>7. TypeOK'
  BY <1>4, <1>5, <1>6 DEF TypeOK
<1>8. (RowMatchesOutcome /\ HeardOnce /\ AnswersAgree)'
  BY DEF TypeOK, RowMatchesOutcome, HeardOnce, AnswersAgree
<1>9. (CallsAreOnSeenTasks /\ LosersAskTerminal)'
  BY <1>1, <1>6 DEF TypeOK, CallsAreOnSeenTasks, LosersAskTerminal, Present, t
<1>10. (OwnerKnows /\ OneOwner)'
  BY <1>1, <1>2, <1>6 DEF TypeOK, OwnerKnows, OneOwner, Owns, t
<1> QED
  BY <1>7, <1>8, <1>9, <1>10

\* The owner announces the outcome and leaves.
LEMMA FireKeeps ==
  ASSUME IInv, NEW h \in Thread, call[h].at = "fire",
         heard' \in {heard, [heard EXCEPT ![call[h].task] = Append(@, call[h].got)]},
         told' \in {told, [told EXCEPT ![call[h].task] = @ \cup {call[h].status}]},
         call' = [call EXCEPT ![h] = IdleCall],
         UNCHANGED <<store, expired, aged, callback, loop, seen, restarts, outcome>>
  PROVE  IInv'
<1> USE DEF IInv
<1> DEFINE t == call[h].task
<1>1. t \in Task
  BY DEF TypeOK, CallsAreOnSeenTasks
<1>2. /\ outcome[t] # Unsettled /\ outcome[t].status = call[h].status
      /\ heard[t] = <<>> /\ call[h].got = outcome[t]
  BY <1>1 DEF OwnerKnows, Owns
<1>3. outcome[t] \in Outcome /\ outcome[t].status \in Terminal
  BY <1>1, <1>2 DEF TypeOK, Outcome
<1>4. \A k \in Thread : Owns(k, t) => k = h
  BY <1>1 DEF OneOwner, Owns
<1>5. Append(heard[t], call[h].got) = <<outcome[t]>> /\ <<outcome[t]>> \in Seq(Outcome)
  BY <1>2, <1>3
<1>6. heard' \in {heard, [heard EXCEPT ![t] = <<outcome[t]>>]}
  BY <1>5
<1>7. told' \in {told, [told EXCEPT ![t] = @ \cup {outcome[t].status}]}
  BY <1>2
<1> HIDE DEF t
<1>8. IdleCall \in Call
  BY DEF IdleCall, Call, Status, Open
<1>9. TypeOK'
  <2>1. heard' \in [Task -> Seq(Outcome)]
    BY <1>1, <1>5, <1>6 DEF TypeOK
  <2>2. told' \in [Task -> SUBSET Terminal]
    BY <1>1, <1>3, <1>7 DEF TypeOK
  <2> QED
    BY <1>8, <2>1, <2>2 DEF TypeOK
<1>10. HeardOnce'
  <2> SUFFICES ASSUME NEW u \in Task PROVE heard'[u] \in {<<>>, <<outcome[u]>>}
    BY DEF HeardOnce
  <2>1. heard'[u] = heard[u] \/ (u = t /\ heard'[u] = <<outcome[t]>>)
    BY <1>1, <1>6 DEF TypeOK
  <2> QED
    BY <2>1, Zenon DEF HeardOnce
<1>11. AnswersAgree'
  <2> SUFFICES ASSUME NEW u \in Task PROVE told'[u] \subseteq {outcome[u].status}
    BY DEF AnswersAgree
  <2>1. told'[u] = told[u] \/ (u = t /\ told'[u] = told[u] \cup {outcome[t].status})
    BY <1>1, <1>7 DEF TypeOK
  <2> QED
    BY <2>1 DEF AnswersAgree
<1>12. RowMatchesOutcome'
  BY <1>1, <1>2, <1>6, <1>7 DEF TypeOK, RowMatchesOutcome
<1>13. (CallsAreOnSeenTasks /\ LosersAskTerminal)'
  BY DEF TypeOK, CallsAreOnSeenTasks, LosersAskTerminal, IdleCall, Present
<1>14. OneOwner'
  BY DEF TypeOK, OneOwner, Owns, IdleCall
<1>15. OwnerKnows'
  <2> SUFFICES ASSUME NEW k \in Thread, NEW u \in Task, Owns(k, u)'
               PROVE  /\ outcome[u] # Unsettled
                      /\ outcome[u].status = call'[k].status
                      /\ heard'[u] = <<>>
                      /\ call'[k].at = "fire" => call'[k].got = outcome[u]
    BY DEF OwnerKnows
  <2>1. k # h /\ call'[k] = call[k] /\ Owns(k, u)
    BY DEF TypeOK, Owns, IdleCall
  <2>2. u # t
    BY <1>4, <2>1
  <2>3. heard'[u] = heard[u]
    BY <1>1, <1>6, <2>2 DEF TypeOK
  <2> QED
    BY <2>1, <2>3 DEF OwnerKnows
<1> QED
  BY <1>9, <1>10, <1>11, <1>12, <1>13, <1>14, <1>15

\* A thread leaves settle_task with nothing to say: a losing call that answers
\* false, or the cleanup loop without a callback.
LEMMA WithdrawKeeps ==
  ASSUME IInv, NEW h \in Thread, call' = [call EXCEPT ![h] = IdleCall],
         UNCHANGED <<store, expired, aged, callback, loop, seen, restarts, outcome, heard, told>>
  PROVE  IInv'
<1> USE DEF IInv
<1>1. IdleCall \in Call
  BY DEF IdleCall, Call, Status, Open
<1>2. TypeOK'
  BY <1>1 DEF TypeOK
<1>3. (RowMatchesOutcome /\ HeardOnce /\ AnswersAgree)'
  BY DEF RowMatchesOutcome, HeardOnce, AnswersAgree
<1>4. (CallsAreOnSeenTasks /\ LosersAskTerminal)'
  BY DEF TypeOK, CallsAreOnSeenTasks, LosersAskTerminal, IdleCall, Present
<1>5. (OwnerKnows /\ OneOwner)'
  <2>1. call'[h] = IdleCall /\ \A k \in Thread : k # h => call'[k] = call[k]
    BY DEF TypeOK
  <2>2. \A u \in Task : ~Owns(h, u)'
    <3>1. IdleCall.at = "idle"
      BY DEF IdleCall
    <3> QED BY <2>1, <3>1 DEF Owns
  <2>3. \A k \in Thread, u \in Task : Owns(k, u)' => Owns(k, u) /\ call'[k] = call[k]
    BY <2>1, <2>2 DEF Owns
  <2> QED BY <2>3 DEF OwnerKnows, OneOwner
<1> QED
  BY <1>2, <1>3, <1>4, <1>5

\* start, stop and list_by_status keep the loop's record typed.
LEMMA LoopStaysTyped ==
  ASSUME TypeOK, ListPhase \/ StartLoop \/ StopLoop
  PROVE  loop' \in Loop
<1>1. CASE StopLoop
  BY <1>1, PhaseZero, Zenon DEF StopLoop, LoopOff, Loop
<1>2. CASE StartLoop
  <2>1. loop' = [on |-> TRUE, callback |-> callback, phase |-> 0, work |-> {}]
    BY <1>2 DEF StartLoop, LoopOff
  <2> QED
    BY <2>1, PhaseZero, Zenon DEF TypeOK, Loop
<1>3. CASE ListPhase
  <2>1. /\ loop.on \in BOOLEAN /\ loop.callback \in BOOLEAN
        /\ loop.phase \in 0..5 /\ loop.work \in SUBSET Task
    BY DEF TypeOK, Loop
  <2>2. PICK p \in 0..5, w \in SUBSET Task :
           loop' = [loop EXCEPT !.phase = p, !.work = w]
    <3>1. CASE loop.phase = 5
      <4>1. loop' = [loop EXCEPT !.phase = 0, !.work = loop.work]
        BY <1>3, <3>1 DEF ListPhase, TypeOK, Loop
      <4> QED
        BY <4>1, <2>1, PhaseZero
    <3>2. CASE loop.phase # 5
      <4>1. loop.phase + 1 \in 0..5
        BY <2>1, <3>2
      <4> QED
        BY <1>3, <3>2, <4>1 DEF ListPhase
    <3> QED
      BY <3>1, <3>2
  <2>3. loop' = [on |-> loop.on, callback |-> loop.callback, phase |-> p, work |-> w]
    BY <2>2 DEF TypeOK, Loop
  <2> QED
    BY <2>1, <2>3, Zenon DEF Loop
<1> QED
  BY <1>1, <1>2, <1>3

\* Rows are deleted, by delete_task or by the two-hour sweep of cleanup_completed.
LEMMA DropKeeps ==
  ASSUME IInv, store' \in [Task -> Row],
         \A t \in Task : store'[t] \in {store[t], Absent}, loop' \in Loop,
         UNCHANGED <<expired, aged, callback, call, seen, restarts, outcome, heard, told>>
  PROVE  IInv'
<1> USE DEF IInv
<1>1. \A t \in Task : store'[t].stamped <=> store'[t].status \in Terminal
  BY DEF TypeOK, Absent, Terminal
<1>2. TypeOK'
  BY <1>1 DEF TypeOK
<1>3. RowMatchesOutcome'
  BY DEF RowMatchesOutcome, Absent, Open, Terminal
<1>4. CallsAreOnSeenTasks'
  BY DEF CallsAreOnSeenTasks, Present, Absent
<1>5. (OwnerKnows /\ OneOwner /\ LosersAskTerminal /\ HeardOnce /\ AnswersAgree)'
  BY DEF OwnerKnows, OneOwner, LosersAskTerminal, HeardOnce, AnswersAgree, Owns
<1> QED
  BY <1>2, <1>3, <1>4, <1>5

\* Steps that touch only clocks, the installed callback or the cleanup loop's worklist.
LEMMA QuietKeeps ==
  ASSUME IInv, expired' \in [Task -> BOOLEAN], aged' \in [Task -> BOOLEAN],
         callback' \in BOOLEAN, loop' \in Loop,
         UNCHANGED <<store, call, seen, restarts, outcome, heard, told>>
  PROVE  IInv'
<1> USE DEF IInv
<1>1. TypeOK'
  BY DEF TypeOK
<1>2. (RowMatchesOutcome /\ CallsAreOnSeenTasks /\ HeardOnce /\ AnswersAgree)'
  BY DEF RowMatchesOutcome, CallsAreOnSeenTasks, HeardOnce, AnswersAgree, Present
<1>3. (OwnerKnows /\ OneOwner /\ LosersAskTerminal)'
  BY DEF OwnerKnows, OneOwner, LosersAskTerminal, Owns
<1> QED
  BY <1>1, <1>2, <1>3

\* A restart: the announcements that were owned are lost, so nobody owns one.
LEMMA RestartKeeps ==
  ASSUME IInv, Restart
  PROVE  IInv'
<1> USE DEF IInv, Restart
<1>1. /\ store' \in [Task -> Row]
      /\ \A t \in Task : store'[t] \in {store[t], Absent}
  BY DEF TypeOK, Absent, Row, Status, AnyResult
<1>2. IdleCall \in Call
  BY DEF IdleCall, Call, Status, Open
<1>3. LoopOff \in Loop
  BY PhaseZero, Zenon DEF Loop, LoopOff
<1>4. TypeOK'
  <2>1. \A t \in Task : store'[t].stamped <=> store'[t].status \in Terminal
    BY <1>1 DEF TypeOK, Absent, Terminal
  <2>2. restarts' \in Nat
    BY DEF TypeOK
  <2>3. call' \in [Thread -> Call] /\ loop' \in Loop /\ seen' \subseteq Task
    BY <1>2, <1>3
  <2> QED
    BY <1>1, <2>1, <2>2, <2>3 DEF TypeOK
<1>5. RowMatchesOutcome'
  BY <1>1 DEF RowMatchesOutcome, Absent, Open, Terminal
<1>6. CallsAreOnSeenTasks'
  BY <1>1 DEF CallsAreOnSeenTasks, Present, Absent, IdleCall
<1>7. (OwnerKnows /\ OneOwner /\ LosersAskTerminal)'
  BY DEF OwnerKnows, OneOwner, LosersAskTerminal, Owns, IdleCall
<1>8. (HeardOnce /\ AnswersAgree)'
  BY DEF HeardOnce, AnswersAgree
<1> QED
  BY <1>4, <1>5, <1>6, <1>7, <1>8

-------------------------------------------------------------------------------
\* Every step of the specification keeps the invariant.
LEMMA StepKeeps == IInv /\ [Next]_vars => IInv'
<1> SUFFICES ASSUME IInv, [Next]_vars PROVE IInv'
  OBVIOUS
<1>1. ASSUME NEW t \in Task, Submit(t) PROVE IInv'
  BY <1>1, SubmitKeeps
<1>2. ASSUME NEW t \in Task, AssignTask(t) PROVE IInv'
  BY <1>2, AssignKeeps
<1>3. ASSUME NEW t \in Task, DeleteTask(t) PROVE IInv'
  <2>1. store' \in [Task -> Row] /\ \A u \in Task : store'[u] \in {store[u], Absent}
    BY <1>3 DEF IInv, TypeOK, DeleteTask, Row, Status, AnyResult, Absent
  <2> QED
    BY <1>3, <2>1, DropKeeps DEF IInv, TypeOK, DeleteTask
<1>4. ASSUME NEW t \in Task, Expire(t) \/ Age(t) PROVE IInv'
  BY <1>4, QuietKeeps DEF IInv, TypeOK, Expire, Age
<1>5. ASSUME NEW c \in Caller, NEW t \in Task, NEW reported \in {"success", "error"},
             NEW r \in Result, CompleteCallback(c, t, reported, r)
      PROVE  IInv'
  BY <1>5, SettleKeeps DEF CompleteCallback
<1>6. ASSUME NEW c \in Caller, ReadBack(c) PROVE IInv'
  <2>1. c \in Thread /\ call[c].at = "won" /\ call[c].task \in Task
    BY <1>6 DEF ReadBack, Thread, IInv, TypeOK, CallsAreOnSeenTasks
  <2>2. outcome[call[c].task] # Unsettled /\ outcome[call[c].task].status = call[c].status
    BY <2>1 DEF IInv, OwnerKnows, Owns
  <2>3. CASE Present(call[c].task)
    BY <1>6, <2>1, <2>3, ReadKeeps DEF ReadBack
  <2>4. CASE ~Present(call[c].task)
    <3>1. /\ call' = [call EXCEPT ![c] = IdleCall]
          /\ told' = [told EXCEPT ![call[c].task] = @ \cup {outcome[call[c].task].status}]
          /\ UNCHANGED <<store, expired, aged, callback, loop, seen, restarts, outcome, heard>>
      BY <1>6, <2>2, <2>4 DEF ReadBack
    <3> QED
      BY <2>1, <2>2, <3>1, LeaveKeeps
  <2> QED
    BY <2>3, <2>4
<1>7. ASSUME NEW c \in Caller, FireCallback(c) PROVE IInv'
  BY <1>7, FireKeeps DEF FireCallback, Thread
<1>8. ASSUME NEW c \in Caller, CompareLost(c) PROVE IInv'
  <2> DEFINE t == call[c].task
  <2>1. c \in Thread /\ call[c].at = "lost"
    BY <1>8 DEF CompareLost, Thread
  <2>2. t \in Task /\ call[c].status \in Terminal
    BY <2>1 DEF IInv, TypeOK, CallsAreOnSeenTasks, LosersAskTerminal
  <2>3. CASE store[t].status = call[c].status
    <3>1. outcome[t] # Unsettled /\ outcome[t].status = call[c].status
      <4>1. outcome[t] = OutcomeOf(store[t])
        BY <2>2, <2>3 DEF IInv, RowMatchesOutcome
      <4>2. outcome[t].status = call[c].status
        BY <2>3, <4>1 DEF OutcomeOf
      <4> QED
        BY <2>2, <4>2 DEF Unsettled, Terminal
    <3>2. told' = [told EXCEPT ![t] = @ \cup {outcome[t].status}]
      BY <1>8, <2>3, <3>1 DEF CompareLost
    <3> QED
      BY <1>8, <2>1, <2>2, <3>1, <3>2, LeaveKeeps DEF CompareLost
  <2>4. CASE store[t].status # call[c].status
    BY <1>8, <2>1, <2>2, <2>4, WithdrawKeeps DEF CompareLost
  <2> QED
    BY <2>3, <2>4
<1>9. ASSUME ListPhase \/ StartLoop \/ StopLoop \/ SetCallback PROVE IInv'
  <2>1. loop' \in Loop /\ callback' \in BOOLEAN
    BY <1>9, LoopStaysTyped DEF IInv, ListPhase, SetCallback, TypeOK, StartLoop, StopLoop
  <2> QED
    BY <1>9, <2>1, QuietKeeps DEF IInv, TypeOK, ListPhase, StartLoop, StopLoop, SetCallback
<1>10. ASSUME NEW t \in Task, VisitSettled(t) PROVE IInv'
  <2>1. store' \in [Task -> Row] /\ \A u \in Task : store'[u] \in {store[u], Absent}
    BY <1>10 DEF IInv, TypeOK, VisitSettled, Row, Status, AnyResult, Absent
  <2>2. loop' \in Loop
    BY <1>10 DEF IInv, TypeOK, VisitSettled, Loop
  <2> QED
    BY <1>10, <2>1, <2>2, DropKeeps DEF VisitSettled
<1>11. ASSUME NEW t \in Task, VisitOpen(t) PROVE IInv'
  <2>1. loop' \in Loop
    BY <1>11 DEF IInv, TypeOK, VisitOpen, Loop
  <2>2. CASE UNCHANGED <<store, outcome, call>>
    BY <1>11, <2>1, <2>2, QuietKeeps DEF IInv, TypeOK, VisitOpen
  <2>3. CASE /\ UpdateResultIfStatus(t, {Phases[loop.phase]}, "Failed", TimedOut)
             /\ outcome' = [outcome EXCEPT ![t] = [status |-> "Failed", result |-> TimedOut]]
             /\ call' = [call EXCEPT ![CleanupLoop] = Won(t, "Failed")]
    <3>1. Phases[loop.phase] \in Open
      BY <1>11 DEF VisitOpen, Phases, Open
    <3>2. "Failed" \in Terminal /\ TimedOut \in AnyResult /\ CleanupLoop \in Thread
      BY DEF Terminal, AnyResult, Thread
    <3> QED
      BY <1>11, <2>1, <2>3, <3>1, <3>2, WinKeeps DEF VisitOpen, UpdateResultIfStatus
  <2> QED
    BY <1>11, <2>2, <2>3 DEF VisitOpen
<1>12. ASSUME LoopReadBack PROVE IInv'
  <2>1. CleanupLoop \in Thread
    BY DEF Thread
  <2>2. CASE loop.callback /\ Present(call[CleanupLoop].task)
    BY <1>12, <2>1, <2>2, ReadKeeps DEF LoopReadBack
  <2>3. CASE ~(loop.callback /\ Present(call[CleanupLoop].task))
    BY <1>12, <2>1, <2>3, WithdrawKeeps DEF LoopReadBack
  <2> QED
    BY <2>2, <2>3
<1>13. ASSUME LoopFire PROVE IInv'
  BY <1>13, FireKeeps DEF LoopFire, Thread
<1>14. ASSUME Restart PROVE IInv'
  BY <1>14, RestartKeeps
<1>15. CASE UNCHANGED vars
  BY <1>15, QuietKeeps DEF vars, IInv, TypeOK
<1> QED
  BY <1>1, <1>2, <1>3, <1>4, <1>5, <1>6, <1>7, <1>8, <1>9, <1>10, <1>11, <1>12, <1>13, <1>14,
     <1>15 DEF Next, CallerStep, LoopStep

\* The inductive invariant holds in every reachable state.
THEOREM Invariance == Spec => []IInv
<1>1. Init => IInv
  BY InitEstablishes
<1>2. IInv /\ [Next]_vars => IInv'
  BY StepKeeps
<1> QED
  BY <1>1, <1>2, PTL DEF Spec

\* Every variable of the manager keeps its type, and completed_at is stamped on
\* exactly the settled rows.
THEOREM TypeCorrect == Spec => []TypeOK
<1>1. IInv => TypeOK
  BY DEF IInv
<1> QED
  BY <1>1, Invariance, PTL

\* The completion callback hears of a task at most once, with the outcome stored.
THEOREM CallbackHeardOnce == Spec => []HeardOnce
<1>1. IInv => HeardOnce
  BY DEF IInv
<1> QED
  BY <1>1, Invariance, PTL

\* Calls of settle_task that report success for a task agree on its final state.
THEOREM SettleAnswersAgree == Spec => []AnswersAgree
<1>1. IInv => AnswersAgree
  BY DEF IInv
<1> QED
  BY <1>1, Invariance, PTL

-------------------------------------------------------------------------------
\* A step leaves a settled row alone or deletes it.
Final == \A t \in Task : store[t].status \in Terminal => store'[t] \in {store[t], Absent}

\* A conditional update whose expected statuses are open never meets a settled row.
LEMMA OpenUpdateSparesSettled ==
  ASSUME TypeOK, NEW t \in Task, NEW expected \in SUBSET Open, NEW status, NEW result,
         UpdateResultIfStatus(t, expected, status, result)
  PROVE  Final
  BY DEF TypeOK, UpdateResultIfStatus, Updated, Final, Open, Terminal

\* Settled rows are final in every step.
LEMMA StepSparesSettled == IInv /\ [Next]_vars => Final
<1> SUFFICES ASSUME IInv, [Next]_vars PROVE Final
  OBVIOUS
<1>1. TypeOK
  BY DEF IInv
<1>2. ASSUME NEW t \in Task, Submit(t) PROVE Final
  BY <1>1, <1>2 DEF Submit, Create, Present, Final, TypeOK, Terminal
<1>3. ASSUME NEW t \in Task, AssignTask(t) PROVE Final
  BY <1>1, <1>3, OpenUpdateSparesSettled DEF AssignTask, Open
<1>4. ASSUME NEW t \in Task, DeleteTask(t) PROVE Final
  BY <1>1, <1>4 DEF DeleteTask, Final, TypeOK
<1>5. ASSUME NEW c \in Caller, NEW t \in Task, NEW reported \in {"success", "error"},
             NEW r \in Result, CompleteCallback(c, t, reported, r)
      PROVE  Final
  <2>1. CASE store' = store
    BY <2>1 DEF Final
  <2>2. CASE store' # store
    BY <1>1, <1>5, <2>2, OpenUpdateSparesSettled DEF CompleteCallback, SettleTask
  <2> QED
    BY <2>1, <2>2
<1>6. ASSUME NEW t \in Task, VisitSettled(t) PROVE Final
  BY <1>1, <1>6 DEF VisitSettled, Final, TypeOK
<1>7. ASSUME NEW t \in Task, VisitOpen(t) PROVE Final
  <2>1. CASE store' = store
    BY <2>1 DEF Final
  <2>2. CASE store' # store
    <3>1. {Phases[loop.phase]} \in SUBSET Open
      BY <1>7 DEF VisitOpen, Phases, Open
    <3> QED
      BY <1>1, <1>7, <2>2, <3>1, OpenUpdateSparesSettled DEF VisitOpen
  <2> QED
    BY <2>1, <2>2
<1>8. ASSUME Restart PROVE Final
  BY <1>8 DEF Restart, Final
<1>9. CASE UNCHANGED store
  BY <1>9 DEF Final
<1>10. ASSUME NEW c \in Caller, CallerStep(c) PROVE UNCHANGED store
  BY <1>10 DEF CallerStep, ReadBack, FireCallback, CompareLost
<1>11. ASSUME \/ \E t \in Task : Expire(t) \/ Age(t)
              \/ ListPhase \/ LoopReadBack \/ LoopFire
              \/ SetCallback \/ StartLoop \/ StopLoop \/ UNCHANGED vars
       PROVE  UNCHANGED store
  BY <1>11 DEF Expire, Age, ListPhase, LoopReadBack, LoopFire, SetCallback, StartLoop, StopLoop, vars
<1> QED
  BY <1>2, <1>3, <1>4, <1>5, <1>6, <1>7, <1>8, <1>9, <1>10, <1>11 DEF Next, LoopStep

\* A settled row never changes again, it is only deleted: the first outcome wins
\* over late answers, timeouts and re-assignments.
THEOREM SettledRowsAreFinal == Spec => SettledIsFinal
<1>1. IInv /\ [Next]_vars => [Final]_vars
  BY StepSparesSettled
<1> QED
  BY <1>1, Invariance, PTL DEF Spec, SettledIsFinal, Final

-------------------------------------------------------------------------------
(* TaskManager implements SettleOnce.                                      *)

AbstractStep == [SO!Next]_(SO!vars)

\* A step that leaves every row's presence and the history alone is a stutter.
LEMMA StutterRefines ==
  ASSUME \A t \in Task : Present(t)' <=> Present(t), UNCHANGED <<outcome, heard>>
  PROVE  AbstractStep
<1>1. [t \in Task |-> Present(t)]' = [t \in Task |-> Present(t)]
  BY Zenon DEF Present
<1> QED
  BY <1>1 DEF AbstractStep, SO!vars

\* Deleting rows is Forget.
LEMMA DropRefines ==
  ASSUME \A t \in Task : store'[t] \in {store[t], Absent}, UNCHANGED <<outcome, heard>>
  PROVE  AbstractStep
<1> DEFINE S == {t \in Task : ~Present(t)'}
<1>1. \A t \in Task : Present(t)' <=> Present(t) /\ t \notin S
  BY DEF Present, Absent
<1>2. [t \in Task |-> Present(t)]' = [t \in Task |-> [u \in Task |-> Present(u)][t] /\ t \notin S]
  BY <1>1, Zenon DEF Present
<1>3. SO!Forget(S)
  BY <1>2 DEF SO!Forget
<1>4. S \in SUBSET Task
  OBVIOUS
<1> QED
  BY <1>3, <1>4 DEF AbstractStep, SO!Next

\* The step that wins the conditional update is Settle.
LEMMA WinRefines ==
  ASSUME IInv, NEW t \in Task, NEW status \in Terminal, NEW result \in AnyResult,
         store[t].status \in Open, store' = Updated(t, status, result),
         outcome' = [outcome EXCEPT ![t] = [status |-> status, result |-> result]],
         UNCHANGED heard
  PROVE  AbstractStep
<1>1. outcome[t] = Unsettled /\ Present(t)
  BY DEF IInv, RowMatchesOutcome, Present, Open
<1>2. \A u \in Task : Present(u)' <=> Present(u)
  BY <1>1 DEF IInv, TypeOK, Updated, Present, Terminal
<1>3. [u \in Task |-> Present(u)]' = [u \in Task |-> Present(u)]
  BY <1>2, Zenon DEF Present
<1>4. [status |-> status, result |-> result] \in Outcome
  BY DEF Outcome
<1>5. SO!Settle(t, [status |-> status, result |-> result])
  BY <1>1, <1>3 DEF SO!Settle
<1> QED
  BY <1>4, <1>5 DEF AbstractStep, SO!Next

\* The owner's callback is Announce; without an installed callback, a stutter.
LEMMA FireRefines ==
  ASSUME IInv, NEW h \in Thread, call[h].at = "fire",
         heard' \in {heard, [heard EXCEPT ![call[h].task] = Append(@, call[h].got)]},
         UNCHANGED <<store, outcome>>
  PROVE  AbstractStep
<1> DEFINE t == call[h].task
<1>1. t \in Task
  BY DEF IInv, TypeOK, CallsAreOnSeenTasks
<1>2. outcome[t] # Unsettled /\ heard[t] = <<>> /\ call[h].got = outcome[t]
  BY <1>1 DEF IInv, OwnerKnows, Owns
<1>3. Append(heard[t], call[h].got) = <<outcome[t]>>
  BY <1>2
<1>4. [u \in Task |-> Present(u)]' = [u \in Task |-> Present(u)]
  BY DEF Present
<1>5. CASE heard' = heard
  BY <1>4, <1>5 DEF AbstractStep, SO!vars
<1>6. CASE heard' # heard
  <2>1. heard' = [heard EXCEPT ![t] = <<outcome[t]>>]
    BY <1>3, <1>6
  <2>2. SO!Announce(t)
    BY <1>2, <1>4, <2>1 DEF SO!Announce
  <2> QED
    BY <1>1, <2>2 DEF AbstractStep, SO!Next
<1> QED
  BY <1>5, <1>6

\* submit is Open.
LEMMA SubmitRefines ==
  ASSUME IInv, NEW t \in Task, Submit(t)
  PROVE  AbstractStep
<1>1. ~Present(t) /\ \A u \in Task : Present(u)' <=> (u = t \/ Present(u))
  BY DEF IInv, TypeOK, Submit, Create, Present, PendingRow
<1>2. [u \in Task |-> Present(u)]' = [[u \in Task |-> Present(u)] EXCEPT ![t] = TRUE]
  BY <1>1, Zenon DEF Present
<1>3. SO!Open(t)
  BY <1>1, <1>2 DEF SO!Open, Submit
<1> QED
  BY <1>3 DEF AbstractStep, SO!Next

\* Every step of the manager is a step of SettleOnce or leaves it unchanged.
LEMMA StepRefines == IInv /\ [Next]_vars => AbstractStep
<1> SUFFICES ASSUME IInv, [Next]_vars PROVE AbstractStep
  OBVIOUS
<1>1. TypeOK
  BY DEF IInv
<1>2. ASSUME NEW t \in Task, Submit(t) PROVE AbstractStep
  BY <1>2, SubmitRefines
<1>3. ASSUME NEW t \in Task, AssignTask(t) PROVE AbstractStep
  <2>1. \A u \in Task : Present(u)' <=> Present(u)
    BY <1>1, <1>3 DEF TypeOK, AssignTask, UpdateResultIfStatus, Updated, Present
  <2> QED
    BY <1>3, <2>1, StutterRefines DEF AssignTask
<1>4. ASSUME NEW t \in Task, DeleteTask(t) PROVE AbstractStep
  BY <1>1, <1>4, DropRefines DEF DeleteTask, TypeOK
<1>5. ASSUME NEW c \in Caller, NEW t \in Task, NEW reported \in {"success", "error"},
             NEW r \in Result, CompleteCallback(c, t, reported, r)
      PROVE  AbstractStep
  <2>1. PICK status \in {"Completed", "Failed"} : SettleTask(c, t, status, r)
    BY <1>5 DEF CompleteCallback
  <2>2. status \in Terminal /\ r \in AnyResult
    BY DEF Terminal, AnyResult
  <2>3. CASE UNCHANGED <<store, outcome>>
    BY <2>1, <2>3, StutterRefines DEF SettleTask, Present
  <2>4. CASE ~UNCHANGED <<store, outcome>>
    BY <2>1, <2>2, <2>4, WinRefines DEF SettleTask, UpdateResultIfStatus
  <2> QED
    BY <2>3, <2>4
<1>6. ASSUME NEW c \in Caller, FireCallback(c) PROVE AbstractStep
  BY <1>6, FireRefines DEF FireCallback, Thread
<1>7. ASSUME LoopFire PROVE AbstractStep
  BY <1>7, FireRefines DEF LoopFire, Thread
<1>8. ASSUME NEW t \in Task, VisitSettled(t) PROVE AbstractStep
  BY <1>1, <1>8, DropRefines DEF VisitSettled, TypeOK
<1>9. ASSUME NEW t \in Task, VisitOpen(t) PROVE AbstractStep
  <2>1. CASE UNCHANGED <<store, outcome>>
    BY <1>9, <2>1, StutterRefines DEF VisitOpen, Present
  <2>2. CASE ~UNCHANGED <<store, outcome>>
    <3>1. Phases[loop.phase] \in Open
      BY <1>9 DEF VisitOpen, Phases, Open
    <3>2. "Failed" \in Terminal /\ TimedOut \in AnyResult
      BY DEF Terminal, AnyResult
    <3> QED
      BY <1>9, <2>2, <3>1, <3>2, WinRefines DEF VisitOpen, UpdateResultIfStatus
  <2> QED
    BY <2>1, <2>2
<1>10. ASSUME Restart PROVE AbstractStep
  BY <1>10, DropRefines DEF Restart
<1>11. ASSUME \/ \E t \in Task : Expire(t) \/ Age(t)
              \/ \E c \in Caller : ReadBack(c) \/ CompareLost(c)
              \/ ListPhase \/ LoopReadBack
              \/ SetCallback \/ StartLoop \/ StopLoop \/ UNCHANGED vars
       PROVE  AbstractStep
  <2>1. UNCHANGED <<store, outcome, heard>>
    BY <1>11 DEF Expire, Age, ReadBack, CompareLost, ListPhase, LoopReadBack, SetCallback,
                 StartLoop, StopLoop, vars
  <2> QED
    BY <2>1, StutterRefines DEF Present
<1> QED
  BY <1>2, <1>3, <1>4, <1>5, <1>6, <1>7, <1>8, <1>9, <1>10, <1>11 DEF Next, LoopStep, CallerStep

\* The manager implements SettleOnce: whatever threads, timeouts, deletions and
\* restarts interleave, a task is opened, settled once and announced at most once.
THEOREM ImplementsSettleOnce == Spec => SettlesOnce
<1>1. Init => SO!Init
  <2> SUFFICES ASSUME Init PROVE SO!Init
    OBVIOUS
  <2>1. \A t \in Task : Present(t) = FALSE
    BY DEF Init, Present, Absent
  <2>2. [t \in Task |-> Present(t)] = [t \in Task |-> FALSE]
    BY <2>1
  <2> QED
    BY <2>2 DEF Init, SO!Init
<1>2. IInv /\ [Next]_vars => [SO!Next]_(SO!vars)
  BY StepRefines DEF AbstractStep
<1> QED
  BY <1>1, <1>2, Invariance, PTL DEF Spec, SettlesOnce, SO!Spec

==============================================================================
