---------------------------- MODULE TurnGateProofs ----------------------------
(***************************************************************************)
(* The turns of a session, for any messages, calls and tasks and any       *)
(* bounds: a session is busy exactly while one turn works in it, whatever  *)
(* the tails of earlier turns do; a message on its way is in exactly one   *)
(* place; and it reaches the model in one form, whatever its way.          *)
(***************************************************************************)
EXTENDS TurnGate, FiniteSetTheorems, TLAPS

\* Where the tasks are and whether the session is taken: all that BusyIsHeld speaks of.
StageInv ==
    /\ busy \in BOOLEAN
    /\ stage \in [Task -> Stage]
    /\ BusyIsHeld

\* The steps of a task that keeps the session, and the ones of a task that does not have it.
InTurn(t) ==
    \/ Begin(t) \/ Work(t) \/ RoundEnds(t) \/ Claim(t) \/ Answer(t) \/ SkipBatch(t)
    \/ StartCalls(t) \/ RefuseCall(t) \/ FinishCalls(t)

InTail(t) == Transfer(t) \/ ClaimHead(t) \/ Reinject(t) \/ Pending(t) \/ Clear(t)

-------------------------------------------------------------------------------
\* A step within a turn, and one within a tail, has the session as free as before.
LEMMA KeepLemma ==
    ASSUME StageInv, NEW t \in Task, NEW to \in Stage, Goes(t, to), UNCHANGED busy,
           stage[t] \in Working <=> to \in Working
    PROVE  StageInv'
<1>1. stage' \in [Task -> Stage]
  BY DEF StageInv, Goes
<1>2. \A u \in Task : Works(u)' <=> Works(u)
  BY DEF StageInv, Goes, Works
<1>. QED
  BY <1>1, <1>2 DEF StageInv, BusyIsHeld

\* try_acquire_session: the session was free, so no other turn is in it.
LEMMA AcquireLemma ==
    ASSUME StageInv, NEW m, Acquire(m)
    PROVE  StageInv'
<1>1. PICK t \in Task : stage[t] = "idle" /\ Goes(t, "begin")
  BY DEF Acquire
<1>2. ~busy /\ busy' = TRUE
  BY DEF Acquire
<1>3. \A u \in Task : ~Works(u)
  BY <1>2 DEF StageInv, BusyIsHeld
<1>4. stage' \in [Task -> Stage] /\ \A u \in Task : Works(u)' <=> u = t
  <2>1. "begin" \in Stage /\ "begin" \in Working
    BY DEF Stage, Working
  <2>. QED
    BY <1>1, <1>3, <2>1 DEF StageInv, Goes, Works
<1>. QED
  BY <1>2, <1>4 DEF StageInv, BusyIsHeld

\* release_session: only the turn that has the session comes here.
LEMMA ReleaseLemma ==
    ASSUME StageInv, NEW t \in Task, Release(t)
    PROVE  StageInv'
<1>1. stage[t] = "release" /\ Goes(t, "transfer") /\ busy' = FALSE
  BY DEF Release
<1>2. Works(t)
  BY <1>1 DEF Works, Working
<1>3. \A u \in Task : Works(u) => u = t
  BY <1>2 DEF StageInv, BusyIsHeld
<1>4. stage' \in [Task -> Stage] /\ \A u \in Task : ~Works(u)'
  <2>1. "transfer" \in Stage /\ "transfer" \notin Working
    BY DEF Stage, Working
  <2>. QED
    BY <1>1, <1>3, <2>1 DEF StageInv, Goes, Works
<1>. QED
  BY <1>1, <1>4 DEF StageInv, BusyIsHeld

\* All tasks are gone with the process, and so is session_busy.
LEMMA CrashLemma ==
    ASSUME StageInv, Crash
    PROVE  StageInv'
<1>1. busy' = FALSE /\ stage' = [t \in Task |-> "idle"]
  BY DEF Crash
<1>2. "idle" \in Stage /\ "idle" \notin Working
  BY DEF Stage, Working
<1>3. stage' \in [Task -> Stage] /\ \A u \in Task : ~Works(u)'
  BY <1>1, <1>2 DEF Works
<1>. QED
  BY <1>1, <1>3 DEF StageInv, BusyIsHeld

\* What goes on within a turn stays within it.
LEMMA InTurnLemma ==
    ASSUME StageInv, NEW t \in Task, InTurn(t)
    PROVE  StageInv'
<1>1. UNCHANGED busy
  BY DEF InTurn, Begin, Work, RoundEnds, Claim, Answer, SkipBatch, StartCalls, RefuseCall, FinishCalls
<1>2. stage[t] \in Working
  BY DEF InTurn, Begin, Work, RoundEnds, Claim, Answer, SkipBatch, StartCalls, RefuseCall, FinishCalls,
         Working
<1>3. \E to \in Working : Goes(t, to)
  BY DEF InTurn, Begin, Work, RoundEnds, Claim, Answer, SkipBatch, StartCalls, RefuseCall, FinishCalls,
         Working
<1>4. Working \subseteq Stage
  BY DEF Working, Stage
<1>. QED
  BY <1>1, <1>2, <1>3, <1>4, KeepLemma

\* A tail has given the session back and does not take it again.
LEMMA InTailLemma ==
    ASSUME StageInv, NEW t \in Task, InTail(t)
    PROVE  StageInv'
<1>1. UNCHANGED busy
  BY DEF InTail, Transfer, ClaimHead, Reinject, Pending, Clear
<1>2. stage[t] \notin Working
  BY DEF InTail, Transfer, ClaimHead, Reinject, Pending, Clear, Working
<1>3. \E to \in Stage \ Working : Goes(t, to)
  BY DEF InTail, Transfer, ClaimHead, Reinject, Pending, Clear, Stage, Working
<1>. QED
  BY <1>1, <1>2, <1>3, KeepLemma

LEMMA StageInit == Init => StageInv
<1>1. Init => busy = FALSE /\ stage = [t \in Task |-> "idle"]
  BY DEF Init
<1>2. "idle" \in Stage /\ "idle" \notin Working
  BY DEF Stage, Working
<1>. QED
  BY <1>1, <1>2 DEF StageInv, BusyIsHeld, Works

LEMMA StageStep == StageInv /\ [Next]_vars => StageInv'
<1>. SUFFICES ASSUME StageInv, [Next]_vars
              PROVE  StageInv'
  OBVIOUS
<1>1. CASE UNCHANGED <<busy, stage>>
  BY <1>1 DEF StageInv, BusyIsHeld, Works
<1>2. CASE \E m \in Msg : Arrive(m)
  BY <1>1, <1>2 DEF Arrive, task
<1>3. CASE PumpStep
  <2>1. CASE Recv \/ Enqueue \/ Recover
    BY <1>1, <2>1 DEF Recv, Enqueue, Recover, task
  <2>2. CASE Gate
    <3>1. CASE Acquire(pump.msg)
      BY <3>1, AcquireLemma
    <3>2. CASE Busy(pump.msg)
      BY <1>1, <3>2 DEF Busy, task
    <3>. QED
      BY <2>2, <3>1, <3>2 DEF Gate
  <2>. QED
    BY <1>3, <2>1, <2>2 DEF PumpStep
<1>4. CASE \E t \in Task : TaskStep(t)
  <2>1. PICK t \in Task : TaskStep(t)
    BY <1>4
  <2>2. InTurn(t) \/ Release(t) \/ InTail(t)
    BY <2>1 DEF TaskStep, InTurn, InTail
  <2>. QED
    BY <2>2, InTurnLemma, ReleaseLemma, InTailLemma
<1>5. CASE Crash
  BY <1>5, CrashLemma
<1>6. CASE UNCHANGED vars
  BY <1>1, <1>6 DEF vars, task
<1>. QED
  BY <1>2, <1>3, <1>4, <1>5, <1>6 DEF Next

\* The comment at process_admitted: an admitted session never leaks busy.  For any number of
\* messages, tasks and crashes, the session is busy exactly while a turn works in it, and
\* never two of them.
THEOREM BusyIsAlwaysHeld == Spec => []BusyIsHeld
<1>1. StageInv => BusyIsHeld
  BY DEF StageInv
<1>. QED
  BY StageInit, StageStep, <1>1, PTL DEF Spec

-------------------------------------------------------------------------------
(* Where a message is.                                                     *)

Way   == {"sent", "owed", "late"}
Place == {"channel", "turn", "step", "hand", "pump", "todo"}

IsAt(m, p) ==
    \/ p = "channel" /\ m \in In(channel)
    \/ p = "turn" /\ m \in In(nextTurn)
    \/ p = "step" /\ m \in In(nextStep)
    \/ p = "hand" /\ \E t \in Task : hand[t] = m
    \/ p = "pump" /\ pump.msg = m
    \/ p = "todo" /\ (m \in pump.todo \/ (pump.at = "boot" /\ m \in open))

\* A message on its way is in one place, and any other message is nowhere.
Held(m) ==
    /\ fate[m] \in Way => \E p \in Place : \A q \in Place : IsAt(m, q) <=> q = p
    /\ fate[m] \notin Way => \A q \in Place : ~IsAt(m, q)

\* No message is twice in a queue.
Distinct(q) == \A i, j \in DOMAIN q : q[i] = q[j] => i = j

\* The types that the ways of a message depend on.
Kinds ==
    /\ mode \in {"reject", "queue", "steer"}
    /\ channel \in Seq(Message) /\ nextTurn \in Seq(Message) /\ nextStep \in Seq(Message)
    /\ pump \in Pump
    /\ stage \in [Task -> Stage]
    /\ hand \in [Task -> Message \cup {NoMsg}]
    /\ open \subseteq Call
    /\ DOMAIN fate = Message

\* Pump and tasks have a message in hand exactly where they need one, no task
\* runs before the recovery is done, and only steer mode uses the second queue.
Hands ==
    /\ pump.at \in {"gate", "enqueue"} <=> pump.msg # NoMsg
    /\ \A t \in Task : stage[t] \in {"begin", "send"} <=> hand[t] # NoMsg
    /\ \A t, u \in Task : hand[t] = hand[u] /\ hand[t] # NoMsg => t = u
    /\ pump.at = "boot" => \A t \in Task : stage[t] = "idle"
    /\ mode # "steer" => nextStep = << >>

Queues == Distinct(channel) /\ Distinct(nextTurn) /\ Distinct(nextStep)

PlaceInv == Kinds /\ Hands /\ Queues /\ \A m \in Message : Held(m)

-------------------------------------------------------------------------------
(* Queues.                                                                 *)

\* A message that is not yet in a queue is put at its end.
LEMMA QueueAppend ==
    ASSUME NEW q \in Seq(Message), Distinct(q), NEW x \in Message, x \notin In(q)
    PROVE  /\ Append(q, x) \in Seq(Message) /\ Distinct(Append(q, x))
           /\ \A m : m \in In(Append(q, x)) <=> m \in In(q) \/ m = x
<1>1. /\ Append(q, x) \in Seq(Message) /\ DOMAIN Append(q, x) = 1..(Len(q) + 1) /\ DOMAIN q = 1..Len(q)
      /\ Len(q) \in Nat
      /\ \A i \in 1..Len(q) : Append(q, x)[i] = q[i]
      /\ Append(q, x)[Len(q) + 1] = x
  OBVIOUS
<1>2. \A i \in 1..(Len(q) + 1) : i \in 1..Len(q) \/ i = Len(q) + 1
  BY <1>1
<1>3. \A i \in 1..Len(q) : q[i] # x /\ i \in 1..(Len(q) + 1)
  BY <1>1 DEF In
<1>4. Len(q) + 1 \in 1..(Len(q) + 1)
  BY <1>1
<1> DEFINE a == Append(q, x)
           n == Len(q) + 1
<1> HIDE DEF a, n
<1>5. Distinct(a)
  BY <1>1, <1>2, <1>3, <1>4 DEF Distinct, a, n
<1>6. \A m : m \in In(a) <=> m \in In(q) \/ m = x
  BY <1>1, <1>2, <1>3, <1>4 DEF In, a, n
<1> QED BY <1>1, <1>5, <1>6 DEF a

\* The first message of a queue is taken.
LEMMA QueueTail ==
    ASSUME NEW q \in Seq(Message), Distinct(q), q # << >>
    PROVE  /\ Tail(q) \in Seq(Message) /\ Distinct(Tail(q))
           /\ Head(q) \in Message /\ Head(q) \in In(q)
           /\ \A m : m \in In(Tail(q)) <=> m \in In(q) /\ m # Head(q)
<1>1. /\ Tail(q) \in Seq(Message) /\ DOMAIN Tail(q) = 1..(Len(q) - 1) /\ DOMAIN q = 1..Len(q)
      /\ Len(q) \in Nat /\ Len(q) # 0
      /\ \A i \in 1..(Len(q) - 1) : Tail(q)[i] = q[i + 1] /\ i + 1 \in 1..Len(q) /\ i + 1 # 1
      /\ Head(q) = q[1] /\ 1 \in 1..Len(q) /\ Head(q) \in Message
  OBVIOUS
<1>2. \A i \in 1..Len(q) : i # 1 => \E j \in 1..(Len(q) - 1) : i = j + 1
  <2>1. ASSUME NEW i \in 1..Len(q), i # 1 PROVE i - 1 \in 1..(Len(q) - 1) /\ i = (i - 1) + 1
    BY <1>1, <2>1
  <2> QED BY <2>1
<1>3. \A i, j \in 1..(Len(q) - 1) : i + 1 = j + 1 => i = j
  OBVIOUS
<1>4. Distinct(Tail(q))
  BY <1>1, <1>3 DEF Distinct
<1>5. \A m : m \in In(Tail(q)) <=> m \in In(q) /\ m # Head(q)
  <2>1. ASSUME NEW m, m \in In(Tail(q)) PROVE m \in In(q) /\ m # Head(q)
    BY <1>1, <2>1 DEF In, Distinct
  <2>2. ASSUME NEW m, m \in In(q), m # Head(q) PROVE m \in In(Tail(q))
    <3>1. PICK i \in 1..Len(q) : q[i] = m
      BY <1>1, <2>2 DEF In
    <3>2. PICK j \in 1..(Len(q) - 1) : i = j + 1
      BY <1>1, <1>2, <2>2, <3>1
    <3>3. j \in DOMAIN Tail(q) /\ Tail(q)[j] = m
      BY <1>1, <3>1, <3>2
    <3> QED BY <3>3 DEF In
  <2> QED BY <2>1, <2>2
<1>6. Head(q) \in In(q)
  BY <1>1 DEF In
<1> QED BY <1>1, <1>4, <1>5, <1>6

\* One queue is put behind another that shares no message with it.
LEMMA QueueJoin ==
    ASSUME NEW q \in Seq(Message), NEW r \in Seq(Message), Distinct(q), Distinct(r),
           In(q) \cap In(r) = {}
    PROVE  /\ q \o r \in Seq(Message) /\ Distinct(q \o r)
           /\ \A m : m \in In(q \o r) <=> m \in In(q) \/ m \in In(r)
<1>1. /\ q \o r \in Seq(Message) /\ DOMAIN (q \o r) = 1..(Len(q) + Len(r))
      /\ DOMAIN q = 1..Len(q) /\ DOMAIN r = 1..Len(r) /\ Len(q) \in Nat /\ Len(r) \in Nat
      /\ \A i \in 1..Len(q) : (q \o r)[i] = q[i] /\ i \in 1..(Len(q) + Len(r))
  OBVIOUS
<1>2. \A i \in 1..Len(r) : (q \o r)[i + Len(q)] = r[i] /\ i + Len(q) \in 1..(Len(q) + Len(r))
  <2>1. ASSUME NEW i \in 1..Len(r)
        PROVE  (q \o r)[i + Len(q)] = r[i] /\ i + Len(q) \in 1..(Len(q) + Len(r))
    BY <1>1
  <2> QED BY <2>1
<1>3. \A k \in 1..(Len(q) + Len(r)) : k \in 1..Len(q) \/ \E i \in 1..Len(r) : k = i + Len(q)
  <2>1. ASSUME NEW k \in 1..(Len(q) + Len(r)), k \notin 1..Len(q)
        PROVE  k - Len(q) \in 1..Len(r) /\ k = (k - Len(q)) + Len(q)
    BY <1>1, <2>1
  <2> QED BY <2>1
<1> DEFINE s == q \o r
<1>4. \A k \in DOMAIN s : \/ k \in DOMAIN q /\ s[k] = q[k]
                          \/ \E i \in DOMAIN r : k = i + Len(q) /\ s[k] = r[i]
  <2>1. ASSUME NEW k \in DOMAIN s, k \notin DOMAIN q
        PROVE  \E i \in DOMAIN r : k = i + Len(q) /\ s[k] = r[i]
    <3>1. PICK i \in 1..Len(r) : k = i + Len(q)
      BY <1>1, <1>3, <2>1
    <3> QED BY <1>1, <1>2, <3>1
  <2>2. ASSUME NEW k \in DOMAIN s, k \in DOMAIN q PROVE s[k] = q[k]
    BY <1>1, <2>2
  <2> QED BY <2>1, <2>2
<1>5. /\ \A k \in DOMAIN q : k \in DOMAIN s /\ s[k] = q[k]
      /\ \A i \in DOMAIN r : \E k \in DOMAIN s : s[k] = r[i]
  BY <1>1, <1>2
<1> HIDE DEF s
<1>6. Distinct(s)
  <2> SUFFICES ASSUME NEW k \in DOMAIN s, NEW l \in DOMAIN s, s[k] = s[l] PROVE k = l
    BY DEF Distinct
  <2>1. \A i \in DOMAIN q, j \in DOMAIN r : q[i] # r[j]
    BY DEF In
  <2> QED BY <1>4, <2>1 DEF Distinct
<1>7. \A m : m \in In(s) <=> m \in In(q) \/ m \in In(r)
  BY <1>4, <1>5 DEF In
<1> QED BY <1>1, <1>6, <1>7 DEF s

\* What is in an empty queue.
LEMMA QueueEmpty == << >> \in Seq(Message) /\ Distinct(<< >>) /\ \A m : m \notin In(<< >>)
BY DEF Distinct, In

\* A queue holds a message of a set of queues of distinct messages at most once.
LEMMA QueueCount ==
    ASSUME NEW q, Distinct(q), NEW m
    PROVE  Count(q, m) = IF m \in In(q) THEN 1 ELSE 0
<1> DEFINE S == {i \in DOMAIN q : q[i] = m}
<1>1. CASE m \in In(q)
  <2>1. PICK i \in DOMAIN q : q[i] = m
    BY <1>1 DEF In
  <2>2. S = {i}
    BY <2>1 DEF Distinct
  <2> QED BY <1>1, <2>2, FS_Singleton DEF Count
<1>2. CASE m \notin In(q)
  <2>1. S = {}
    BY <1>2 DEF In
  <2> QED BY <1>2, <2>1, FS_EmptySet DEF Count
<1> QED BY <1>1, <1>2

-------------------------------------------------------------------------------
(* The ways of one message.                                                *)

Stays(m) ==
    /\ fate'[m] \in Way <=> fate[m] \in Way
    /\ \A p \in Place : IsAt(m, p)' <=> IsAt(m, p)

MovesTo(m, b) ==
    /\ fate'[m] \in Way /\ b \in Place
    /\ \A p \in Place : IsAt(m, p)' <=> p = b

Gone(m) ==
    /\ fate'[m] \notin Way
    /\ \A p \in Place : ~IsAt(m, p)'

\* Whatever of these a step does to a message, it is in one place or in none.
LEMMA HeldKeeps ==
    ASSUME NEW m, Held(m), Stays(m) \/ Gone(m) \/ \E b \in Place : MovesTo(m, b)
    PROVE  Held(m)'
<1>1. CASE Stays(m)
  BY <1>1 DEF Held, Stays
<1>2. CASE Gone(m)
  BY <1>2 DEF Held, Gone
<1>3. CASE \E b \in Place : MovesTo(m, b)
  BY <1>3 DEF Held, MovesTo
<1> QED BY <1>1, <1>2, <1>3

\* A message that is in one place is in no other.
LEMMA OnlyThere ==
    ASSUME NEW m, Held(m), NEW p \in Place, IsAt(m, p)
    PROVE  /\ fate[m] \in Way
           /\ m \in In(channel) => p = "channel"
           /\ m \in In(nextTurn) => p = "turn"
           /\ m \in In(nextStep) => p = "step"
           /\ (\E t \in Task : hand[t] = m) => p = "hand"
           /\ pump.msg = m => p = "pump"
           /\ m \in pump.todo \/ (pump.at = "boot" /\ m \in open) => p = "todo"
<1>1. fate[m] \in Way /\ \A q \in Place : IsAt(m, q) => q = p
  BY DEF Held
<1> QED BY <1>1 DEF IsAt, Place

\* The pump lets go of its message, or goes on with it.
LEMMA PumpSteps ==
    ASSUME pump \in Pump
    PROVE  /\ Free => /\ pump' \in Pump /\ pump'.at = "idle" /\ pump'.msg = NoMsg
                      /\ pump'.todo = pump.todo
           /\ \A s \in {"idle", "enqueue"} :
                 PumpAt(s) => /\ pump' \in Pump /\ pump'.at = s /\ pump'.msg = pump.msg
                              /\ pump'.todo = pump.todo
BY DEF Free, PumpAt, Pump

\* A task takes a message.
LEMMA HandTakes ==
    ASSUME Kinds, Hands, NEW t \in Task, NEW x \in Message, hand[t] = NoMsg,
           \A u \in Task : hand[u] # x, hand' = [hand EXCEPT ![t] = x]
    PROVE  /\ hand' \in [Task -> Message \cup {NoMsg}] /\ hand'[t] = x
           /\ \A u \in Task : u # t => hand'[u] = hand[u]
           /\ \A u, v \in Task : hand'[u] = hand'[v] /\ hand'[u] # NoMsg => u = v
           /\ \A m \in Message : (\E u \in Task : hand'[u] = m) <=> (\E u \in Task : hand[u] = m) \/ m = x
BY MessageAssumption DEF Kinds, Hands

\* A task lets go of its message.
LEMMA HandDrops ==
    ASSUME Kinds, Hands, NEW t \in Task, hand' = [hand EXCEPT ![t] = NoMsg]
    PROVE  /\ hand' \in [Task -> Message \cup {NoMsg}] /\ hand'[t] = NoMsg
           /\ \A u \in Task : u # t => hand'[u] = hand[u]
           /\ \A u, v \in Task : hand'[u] = hand'[v] /\ hand'[u] # NoMsg => u = v
           /\ \A m \in Message : (\E u \in Task : hand'[u] = m)
                                    <=> (\E u \in Task : hand[u] = m) /\ m # hand[t]
BY MessageAssumption DEF Kinds, Hands

\* A task goes on.
LEMMA StageGoes ==
    ASSUME Kinds, NEW t \in Task, NEW s \in Stage, Goes(t, s)
    PROVE  /\ stage' \in [Task -> Stage] /\ stage'[t] = s
           /\ \A u \in Task : u # t => stage'[u] = stage[u]
BY DEF Kinds, Goes

\* The fate of some messages is settled.
LEMMA FateBecomes ==
    ASSUME NEW M, NEW what, Become(M, what)
    PROVE  /\ DOMAIN fate' = Message
           /\ \A m \in Message : fate'[m] = IF m \in M THEN what ELSE fate[m]
BY DEF Become

\* What a step has to show.
LEMMA PlaceFrame ==
    ASSUME PlaceInv, Kinds', Hands', Queues',
           \A m \in Message : Stays(m) \/ Gone(m) \/ \E b \in Place : MovesTo(m, b)
    PROVE  PlaceInv'
BY HeldKeeps DEF PlaceInv

-------------------------------------------------------------------------------
(* One lemma per action.                                                   *)

\* A user's message is nowhere before it is sent.
LEMMA ArrivePlace ==
    ASSUME PlaceInv, NEW x \in Msg, Arrive(x)
    PROVE  PlaceInv'
<1>1. /\ x \in Message /\ fate[x] = "new" /\ channel' = Append(channel, x) /\ Become({x}, "sent")
      /\ UNCHANGED <<mode, pump, nextTurn, nextStep, stage, hand, open>>
  BY DEF Arrive, Message, inbox, task
<1>2. \A p \in Place : ~IsAt(x, p)
  BY <1>1 DEF PlaceInv, Held, Way
<1>3. /\ channel' \in Seq(Message) /\ Distinct(channel')
      /\ \A m : m \in In(channel') <=> m \in In(channel) \/ m = x
  <2>1. x \notin In(channel)
    BY <1>2 DEF IsAt, Place
  <2> QED BY <1>1, <2>1, QueueAppend DEF PlaceInv, Kinds, Queues
<1>4. DOMAIN fate' = Message /\ \A m \in Message : fate'[m] = IF m = x THEN "sent" ELSE fate[m]
  BY <1>1, FateBecomes
<1>5. Kinds' /\ Hands' /\ Queues'
  BY <1>1, <1>3, <1>4 DEF PlaceInv, Kinds, Hands, Queues
<1>6. MovesTo(x, "channel")
  BY <1>1, <1>2, <1>3, <1>4 DEF MovesTo, IsAt, Place, Way
<1>7. ASSUME NEW m \in Message, m # x PROVE Stays(m)
  BY <1>1, <1>3, <1>4, <1>7 DEF Stays, IsAt
<1> QED BY <1>5, <1>6, <1>7, PlaceFrame DEF Place

\* The pump takes up an interrupted call.
LEMMA RecvCallPlace ==
    ASSUME PlaceInv, Recv, pump.todo # {}
    PROVE  PlaceInv'
<1>1. PICK x \in pump.todo : pump' = [at |-> "gate", msg |-> x, todo |-> pump.todo \ {x}]
  BY DEF Recv
<1>2. /\ pump.at = "idle" /\ pump.msg = NoMsg
      /\ UNCHANGED <<mode, channel, nextTurn, nextStep, stage, hand, open, fate>>
  BY DEF Recv, PlaceInv, Hands, inbox, task, history
<1>3. x \in Message /\ x # NoMsg /\ pump' \in Pump
  BY <1>1, MessageAssumption DEF PlaceInv, Kinds, Pump, Message
<1>4. pump'.at = "gate" /\ pump'.msg = x /\ pump'.todo = pump.todo \ {x}
  BY <1>1
<1>5. Kinds' /\ Hands' /\ Queues'
  BY <1>2, <1>3, <1>4 DEF PlaceInv, Kinds, Hands, Queues
<1>6. MovesTo(x, "pump")
  <2>1. IsAt(x, "todo") /\ Held(x)
    BY <1>3 DEF IsAt, PlaceInv
  <2>2. /\ fate[x] \in Way /\ x \notin In(channel) /\ x \notin In(nextTurn) /\ x \notin In(nextStep)
        /\ ~ \E t \in Task : hand[t] = x
    BY <2>1, OnlyThere DEF Place
  <2> QED BY <1>2, <1>4, <2>2 DEF MovesTo, IsAt, Place
<1>7. ASSUME NEW m \in Message, m # x PROVE Stays(m)
  BY <1>2, <1>4, <1>7, MessageAssumption DEF Stays, IsAt
<1> QED BY <1>3, <1>5, <1>6, <1>7, PlaceFrame DEF Place

\* The pump takes the head of the channel.
LEMMA RecvPlace ==
    ASSUME PlaceInv, Recv, pump.todo = {}
    PROVE  PlaceInv'
<1>1. /\ channel # << >> /\ channel' = Tail(channel)
      /\ pump' = [pump EXCEPT !.at = "gate", !.msg = Head(channel)]
      /\ pump.at = "idle" /\ pump.msg = NoMsg
      /\ UNCHANGED <<mode, nextTurn, nextStep, stage, hand, open, fate>>
  BY DEF Recv, PlaceInv, Hands, inbox, task, history
<1>2. PICK x : x = Head(channel)
  OBVIOUS
<1>3. /\ channel' \in Seq(Message) /\ Distinct(channel') /\ x \in Message /\ x \in In(channel)
      /\ \A m : m \in In(channel') <=> m \in In(channel) /\ m # x
  BY <1>1, <1>2, QueueTail DEF PlaceInv, Kinds, Queues
<1>4. pump' \in Pump /\ pump'.at = "gate" /\ pump'.msg = x /\ pump'.todo = pump.todo /\ x # NoMsg
  BY <1>1, <1>2, <1>3, MessageAssumption DEF PlaceInv, Kinds, Pump
<1>5. Kinds' /\ Hands' /\ Queues'
  BY <1>1, <1>3, <1>4 DEF PlaceInv, Kinds, Hands, Queues
<1>6. MovesTo(x, "pump")
  <2>1. IsAt(x, "channel") /\ Held(x)
    BY <1>3 DEF IsAt, PlaceInv
  <2>2. /\ fate[x] \in Way /\ x \notin In(nextTurn) /\ x \notin In(nextStep)
        /\ ~ \E t \in Task : hand[t] = x
        /\ x \notin pump.todo
    BY <2>1, OnlyThere DEF Place
  <2> QED BY <1>1, <1>3, <1>4, <2>2 DEF MovesTo, IsAt, Place
<1>7. ASSUME NEW m \in Message, m # x PROVE Stays(m)
  BY <1>1, <1>3, <1>4, <1>7, MessageAssumption DEF Stays, IsAt
<1> QED BY <1>3, <1>5, <1>6, <1>7, PlaceFrame DEF Place

\* The message at the gate or at the inbox is with the pump and nowhere else.
LEMMA AtPump ==
    ASSUME PlaceInv, pump.at \in {"gate", "enqueue"}
    PROVE  /\ pump.msg \in Message /\ pump.msg # NoMsg /\ fate[pump.msg] \in Way
           /\ pump.msg \notin In(channel) /\ pump.msg \notin In(nextTurn) /\ pump.msg \notin In(nextStep)
           /\ ~ \E t \in Task : hand[t] = pump.msg
           /\ pump.msg \notin pump.todo
<1>1. pump.msg \in Message /\ pump.msg # NoMsg
  BY DEF PlaceInv, Hands, Kinds, Pump
<1>2. IsAt(pump.msg, "pump") /\ Held(pump.msg)
  BY <1>1 DEF IsAt, PlaceInv
<1> QED BY <1>1, <1>2, OnlyThere DEF Place

\* try_acquire_session: the message goes to the new turn.
LEMMA AcquirePlace ==
    ASSUME PlaceInv, Gate, Acquire(pump.msg)
    PROVE  PlaceInv'
<1>1. PICK x : x = pump.msg
  OBVIOUS
<1>2. /\ pump.at = "gate" /\ Become({x}, "owed") /\ Free
      /\ UNCHANGED <<mode, channel, nextTurn, nextStep, open>>
  BY <1>1 DEF Gate, Acquire, inbox
<1>3. PICK t \in Task : stage[t] = "idle" /\ Goes(t, "begin") /\ hand' = [hand EXCEPT ![t] = x]
  BY <1>1 DEF Acquire
<1>4. /\ x \in Message /\ x # NoMsg /\ x \notin In(channel) /\ x \notin In(nextTurn)
      /\ x \notin In(nextStep) /\ x \notin pump.todo /\ \A u \in Task : hand[u] # x
  BY <1>1, <1>2, AtPump
<1>5. /\ pump' \in Pump /\ pump'.at = "idle" /\ pump'.msg = NoMsg /\ pump'.todo = pump.todo
  BY <1>2, PumpSteps DEF PlaceInv, Kinds
<1>6. /\ hand' \in [Task -> Message \cup {NoMsg}] /\ hand'[t] = x
      /\ \A u \in Task : u # t => hand'[u] = hand[u]
      /\ \A u, v \in Task : hand'[u] = hand'[v] /\ hand'[u] # NoMsg => u = v
      /\ \A m \in Message : (\E u \in Task : hand'[u] = m) <=> (\E u \in Task : hand[u] = m) \/ m = x
  <2>1. hand[t] = NoMsg
    BY <1>3 DEF PlaceInv, Hands
  <2>2. Kinds /\ Hands
    BY DEF PlaceInv
  <2>3. x \in Message /\ (\A u \in Task : hand[u] # x) /\ hand' = [hand EXCEPT ![t] = x]
    BY <1>3, <1>4
  <2> QED BY <2>1, <2>2, <2>3, HandTakes
<1>7. /\ stage' \in [Task -> Stage] /\ stage'[t] = "begin"
      /\ \A u \in Task : u # t => stage'[u] = stage[u]
  BY <1>3, StageGoes DEF PlaceInv, Stage
<1>8. DOMAIN fate' = Message /\ \A m \in Message : fate'[m] = IF m = x THEN "owed" ELSE fate[m]
  BY <1>2, FateBecomes
<1>9. Kinds' /\ Queues'
  BY <1>2, <1>5, <1>6, <1>7, <1>8 DEF PlaceInv, Kinds, Queues
<1>10. Hands'
  BY <1>2, <1>4, <1>5, <1>6, <1>7 DEF PlaceInv, Hands
<1>11. MovesTo(x, "hand")
  BY <1>2, <1>4, <1>5, <1>6, <1>8 DEF MovesTo, IsAt, Place, Way
<1>12. ASSUME NEW m \in Message, m # x PROVE Stays(m)
  BY <1>1, <1>2, <1>5, <1>6, <1>8, <1>12, MessageAssumption DEF Stays, IsAt
<1> QED BY <1>4, <1>9, <1>10, <1>11, <1>12, PlaceFrame DEF Place

\* A message is turned away: the pump has it no more, and nobody else.
LEMMA RefusedPlace ==
    ASSUME PlaceInv, pump.at \in {"gate", "enqueue"}, Refused(pump.msg), Free,
           UNCHANGED <<mode, channel, nextTurn, nextStep, stage, hand, open>>
    PROVE  PlaceInv'
<1>1. PICK x : x = pump.msg
  OBVIOUS
<1>2. /\ x \in Message /\ x # NoMsg /\ x \notin In(channel) /\ x \notin In(nextTurn)
      /\ x \notin In(nextStep) /\ x \notin pump.todo /\ ~ \E t \in Task : hand[t] = x
  BY <1>1, AtPump
<1>3. /\ pump' \in Pump /\ pump'.at = "idle" /\ pump'.msg = NoMsg /\ pump'.todo = pump.todo
  BY PumpSteps DEF PlaceInv, Kinds
<1>4. PICK f \in {"refused", "bounced"} : Become({x}, f)
  BY <1>1 DEF Refused
<1>5. DOMAIN fate' = Message /\ \A m \in Message : fate'[m] = IF m = x THEN f ELSE fate[m]
  BY <1>4, FateBecomes
<1>6. Kinds' /\ Hands' /\ Queues'
  BY <1>3, <1>5 DEF PlaceInv, Kinds, Hands, Queues
<1>7. Gone(x)
  BY <1>2, <1>3, <1>5 DEF Gone, IsAt, Place, Way
<1>8. ASSUME NEW m \in Message, m # x PROVE Stays(m)
  BY <1>1, <1>3, <1>5, <1>8, MessageAssumption DEF Stays, IsAt
<1> QED BY <1>2, <1>6, <1>7, <1>8, PlaceFrame

\* The gate.
LEMMA GatePlace ==
    ASSUME PlaceInv, Gate
    PROVE  PlaceInv'
<1>1. CASE Acquire(pump.msg)
  BY <1>1, AcquirePlace
<1>2. CASE Busy(pump.msg) /\ Refused(pump.msg) /\ Free
  BY <1>2, RefusedPlace DEF Gate, Busy, task, inbox
<1>3. CASE Busy(pump.msg) /\ PumpAt("enqueue") /\ UNCHANGED fate
  <2>1. /\ pump.at = "gate" /\ pump' \in Pump /\ pump'.at = "enqueue" /\ pump'.msg = pump.msg
        /\ pump'.todo = pump.todo
        /\ UNCHANGED <<mode, channel, nextTurn, nextStep, stage, hand, open, fate>>
    BY <1>3, PumpSteps DEF Gate, Busy, inbox, task, PlaceInv, Kinds
  <2>2. Kinds' /\ Hands' /\ Queues'
    BY <2>1 DEF PlaceInv, Kinds, Hands, Queues
  <2>3. \A m \in Message : Stays(m)
    BY <2>1 DEF Stays, IsAt
  <2> QED BY <2>2, <2>3, PlaceFrame
<1> QED BY <1>1, <1>2, <1>3 DEF Gate, Busy

\* enqueue_for_mode.
LEMMA EnqueuePlace ==
    ASSUME PlaceInv, Enqueue
    PROVE  PlaceInv'
<1>1. PICK x : x = pump.msg
  OBVIOUS
<1>2. pump.at = "enqueue" /\ Free /\ UNCHANGED <<mode, channel, stage, hand, open>>
  BY DEF Enqueue, task
<1>3. CASE Refused(pump.msg) /\ UNCHANGED inbox
  BY <1>2, <1>3, RefusedPlace DEF inbox
<1>4. CASE \E f \in {"late", "owed"} :
              /\ Become({x}, f)
              /\ \/ Steers(x) /\ nextStep' = Append(nextStep, x) /\ UNCHANGED nextTurn
                 \/ nextTurn' = Append(nextTurn, x) /\ UNCHANGED nextStep
  <2>1. PICK f \in {"late", "owed"} :
              /\ Become({x}, f)
              /\ \/ Steers(x) /\ nextStep' = Append(nextStep, x) /\ UNCHANGED nextTurn
                 \/ nextTurn' = Append(nextTurn, x) /\ UNCHANGED nextStep
    BY <1>4
  <2>2. /\ x \in Message /\ x # NoMsg /\ x \notin In(channel) /\ x \notin In(nextTurn)
        /\ x \notin In(nextStep) /\ x \notin pump.todo /\ ~ \E t \in Task : hand[t] = x
    BY <1>1, <1>2, AtPump
  <2>3. /\ pump' \in Pump /\ pump'.at = "idle" /\ pump'.msg = NoMsg /\ pump'.todo = pump.todo
    BY <1>2, PumpSteps DEF PlaceInv, Kinds
  <2>4. DOMAIN fate' = Message /\ \A m \in Message : fate'[m] = IF m = x THEN f ELSE fate[m]
    BY <2>1, FateBecomes
  <2>5. \/ /\ mode = "steer" /\ nextStep' \in Seq(Message) /\ Distinct(nextStep') /\ UNCHANGED nextTurn
           /\ \A m : m \in In(nextStep') <=> m \in In(nextStep) \/ m = x
        \/ /\ nextTurn' \in Seq(Message) /\ Distinct(nextTurn') /\ UNCHANGED nextStep
           /\ \A m : m \in In(nextTurn') <=> m \in In(nextTurn) \/ m = x
    <3>1. /\ nextStep \in Seq(Message) /\ Distinct(nextStep)
          /\ nextTurn \in Seq(Message) /\ Distinct(nextTurn)
      BY DEF PlaceInv, Kinds, Queues
    <3>2. CASE Steers(x) /\ nextStep' = Append(nextStep, x) /\ UNCHANGED nextTurn
      BY <2>2, <3>1, <3>2, QueueAppend DEF Steers
    <3>3. CASE nextTurn' = Append(nextTurn, x) /\ UNCHANGED nextStep
      BY <2>2, <3>1, <3>3, QueueAppend
    <3> QED BY <2>1, <3>2, <3>3
  <2>6. Kinds' /\ Hands' /\ Queues'
    BY <1>2, <2>3, <2>4, <2>5 DEF PlaceInv, Kinds, Hands, Queues
  <2>7. MovesTo(x, "step") \/ MovesTo(x, "turn")
    BY <1>2, <2>2, <2>3, <2>4, <2>5 DEF MovesTo, IsAt, Place, Way
  <2>8. ASSUME NEW m \in Message, m # x PROVE Stays(m)
    BY <1>1, <1>2, <2>3, <2>4, <2>5, <2>8, MessageAssumption DEF Stays, IsAt
  <2> QED BY <2>2, <2>6, <2>7, <2>8, PlaceFrame DEF Place
<1> QED BY <1>1, <1>3, <1>4 DEF Enqueue

\* A task that is not idle runs after the recovery.
LEMMA NotBooting ==
    ASSUME PlaceInv, NEW t \in Task, stage[t] # "idle"
    PROVE  pump.at # "boot"
BY DEF PlaceInv, Hands

\* The message enters the conversation.
LEMMA BeginPlace ==
    ASSUME PlaceInv, NEW t \in Task, Begin(t)
    PROVE  PlaceInv'
<1>1. PICK x : x = hand[t]
  OBVIOUS
<1>2. /\ stage[t] = "begin" /\ hand' = [hand EXCEPT ![t] = NoMsg] /\ Become({x}, "seen")
      /\ UNCHANGED <<mode, channel, pump, nextTurn, nextStep, open>>
  BY <1>1 DEF Begin, inbox
<1>3. PICK s \in {"work", "top"} : Goes(t, s)
  BY DEF Begin
<1>4. /\ stage' \in [Task -> Stage] /\ stage'[t] = s /\ \A u \in Task : u # t => stage'[u] = stage[u]
  BY <1>3, StageGoes DEF PlaceInv, Stage
<1>5. /\ hand' \in [Task -> Message \cup {NoMsg}] /\ hand'[t] = NoMsg
      /\ \A u \in Task : u # t => hand'[u] = hand[u]
      /\ \A u, v \in Task : hand'[u] = hand'[v] /\ hand'[u] # NoMsg => u = v
      /\ \A m \in Message : (\E u \in Task : hand'[u] = m) <=> (\E u \in Task : hand[u] = m) /\ m # x
  <2>1. Kinds /\ Hands
    BY DEF PlaceInv
  <2>2. x = hand[t] /\ hand' = [hand EXCEPT ![t] = NoMsg]
    BY <1>1, <1>2
  <2>3. \A m \in Message : (\E u \in Task : hand'[u] = m) <=> (\E u \in Task : hand[u] = m) /\ m # hand[t]
    BY <2>1, <2>2, HandDrops
  <2> QED BY <2>1, <2>2, <2>3, HandDrops
<1>6. DOMAIN fate' = Message /\ \A m \in Message : fate'[m] = IF m = x THEN "seen" ELSE fate[m]
  BY <1>2, FateBecomes
<1>7. pump.at # "boot"
  BY <1>2, NotBooting
<1>8. Kinds' /\ Hands' /\ Queues'
  BY <1>2, <1>4, <1>5, <1>6, <1>7 DEF PlaceInv, Kinds, Hands, Queues
<1>9. x \in Message => Gone(x)
  <2>1. ASSUME x \in Message PROVE IsAt(x, "hand") /\ Held(x)
    BY <1>1, <2>1 DEF IsAt, PlaceInv
  <2>2. ASSUME x \in Message
        PROVE  /\ x \notin In(channel) /\ x \notin In(nextTurn) /\ x \notin In(nextStep)
               /\ pump.msg # x /\ x \notin pump.todo
    BY <2>1, <2>2, OnlyThere DEF Place
  <2> QED BY <1>2, <1>5, <1>6, <1>7, <2>2 DEF Gone, IsAt, Place, Way
<1>10. ASSUME NEW m \in Message, m # x PROVE Stays(m)
  BY <1>2, <1>5, <1>6, <1>10 DEF Stays, IsAt
<1> QED BY <1>8, <1>9, <1>10, PlaceFrame

\* Within its rounds, and when it gives the session back, a turn moves no message.
LEMMA InsidePlace ==
    ASSUME PlaceInv, NEW t \in Task,
           \/ Work(t) \/ RoundEnds(t) \/ Answer(t) \/ SkipBatch(t) \/ StartCalls(t)
           \/ RefuseCall(t) \/ FinishCalls(t) \/ Release(t) \/ Pending(t)
    PROVE  PlaceInv'
<1>1. /\ stage[t] \notin {"idle", "begin", "send"}
      /\ UNCHANGED <<mode, channel, pump, nextTurn, nextStep, hand, fate>>
  BY DEF Work, RoundEnds, Answer, SkipBatch, StartCalls, RefuseCall, FinishCalls, Release, Pending,
         inbox, history
<1>2. \E s \in Stage \ {"begin", "send"} : Goes(t, s)
  BY DEF Work, RoundEnds, Answer, SkipBatch, StartCalls, RefuseCall, FinishCalls, Release, Pending, Stage
<1>3. /\ stage' \in [Task -> Stage] /\ stage'[t] \notin {"begin", "send"}
      /\ \A u \in Task : u # t => stage'[u] = stage[u]
  BY <1>2, StageGoes DEF PlaceInv
<1>4. open' \subseteq Call
  BY DEF Work, RoundEnds, Answer, SkipBatch, StartCalls, RefuseCall, FinishCalls, Release, Pending,
         PlaceInv, Kinds
<1>5. pump.at # "boot"
  BY <1>1, NotBooting
<1>6. Kinds' /\ Hands' /\ Queues'
  BY <1>1, <1>3, <1>4, <1>5 DEF PlaceInv, Kinds, Hands, Queues
<1>7. \A m \in Message : Stays(m)
  BY <1>1, <1>5 DEF Stays, IsAt
<1> QED BY <1>6, <1>7, PlaceFrame

\* claim_steer_messages.
LEMMA ClaimPlace ==
    ASSUME PlaceInv, NEW t \in Task, Claim(t)
    PROVE  PlaceInv'
<1>1. /\ stage[t] = "top" /\ Goes(t, "llm") /\ nextStep' = << >> /\ Become(In(nextStep), "seen")
      /\ UNCHANGED <<mode, channel, pump, nextTurn, hand, open>>
  BY DEF Claim
<1>2. /\ stage' \in [Task -> Stage] /\ stage'[t] = "llm"
      /\ \A u \in Task : u # t => stage'[u] = stage[u]
  BY <1>1, StageGoes DEF PlaceInv, Stage
<1>3. /\ DOMAIN fate' = Message
      /\ \A m \in Message : fate'[m] = IF m \in In(nextStep) THEN "seen" ELSE fate[m]
  BY <1>1, FateBecomes
<1>4. pump.at # "boot"
  BY <1>1, NotBooting
<1>5. Kinds' /\ Hands' /\ Queues'
  BY <1>1, <1>2, <1>3, <1>4, QueueEmpty DEF PlaceInv, Kinds, Hands, Queues
<1>6. ASSUME NEW m \in Message, m \in In(nextStep) PROVE Gone(m)
  <2>1. IsAt(m, "step") /\ Held(m)
    BY <1>6 DEF IsAt, PlaceInv
  <2>2. /\ m \notin In(channel) /\ m \notin In(nextTurn) /\ pump.msg # m /\ m \notin pump.todo
        /\ ~ \E u \in Task : hand[u] = m
    BY <2>1, OnlyThere DEF Place
  <2> QED BY <1>1, <1>3, <1>4, <1>6, <2>2, QueueEmpty DEF Gone, IsAt, Place, Way
<1>7. ASSUME NEW m \in Message, m \notin In(nextStep) PROVE Stays(m)
  BY <1>1, <1>3, <1>7, QueueEmpty DEF Stays, IsAt
<1> QED BY <1>5, <1>6, <1>7, PlaceFrame

\* transfer_next_step_to_next_turn.
LEMMA TransferPlace ==
    ASSUME PlaceInv, NEW t \in Task, Transfer(t)
    PROVE  PlaceInv'
<1>1. /\ stage[t] = "transfer" /\ nextTurn' = nextTurn \o nextStep /\ nextStep' = << >>
      /\ UNCHANGED <<mode, channel, pump, hand, open, fate>>
  BY DEF Transfer
<1>2. PICK s \in {"idle", "head"} : Goes(t, s)
  BY DEF Transfer
<1>3. /\ stage' \in [Task -> Stage] /\ stage'[t] = s /\ \A u \in Task : u # t => stage'[u] = stage[u]
  BY <1>2, StageGoes DEF PlaceInv, Stage
<1>4. In(nextTurn) \cap In(nextStep) = {}
  <2> SUFFICES ASSUME NEW m, m \in In(nextTurn), m \in In(nextStep) PROVE FALSE
    OBVIOUS
  <2>1. m \in Message
    BY DEF In, PlaceInv, Kinds
  <2>2. IsAt(m, "turn") /\ Held(m)
    BY <2>1 DEF IsAt, PlaceInv
  <2> QED BY <2>2, OnlyThere DEF Place
<1>5. /\ nextTurn' \in Seq(Message) /\ Distinct(nextTurn')
      /\ \A m : m \in In(nextTurn') <=> m \in In(nextTurn) \/ m \in In(nextStep)
  BY <1>1, <1>4, QueueJoin DEF PlaceInv, Kinds, Queues
<1>6. pump.at # "boot"
  BY <1>1, NotBooting
<1>7. Kinds' /\ Hands' /\ Queues'
  BY <1>1, <1>3, <1>5, <1>6, QueueEmpty DEF PlaceInv, Kinds, Hands, Queues
<1>8. ASSUME NEW m \in Message, m \in In(nextStep) PROVE MovesTo(m, "turn")
  <2>1. IsAt(m, "step") /\ Held(m)
    BY <1>8 DEF IsAt, PlaceInv
  <2>2. /\ fate[m] \in Way /\ m \notin In(channel) /\ pump.msg # m /\ m \notin pump.todo
        /\ ~ \E u \in Task : hand[u] = m
    BY <2>1, OnlyThere DEF Place
  <2> QED BY <1>1, <1>5, <1>6, <1>8, <2>2, QueueEmpty DEF MovesTo, IsAt, Place
<1>9. ASSUME NEW m \in Message, m \notin In(nextStep) PROVE Stays(m)
  BY <1>1, <1>5, <1>9, QueueEmpty DEF Stays, IsAt
<1> QED BY <1>7, <1>8, <1>9, PlaceFrame DEF Place

\* claim_next_turn_head.
LEMMA ClaimHeadPlace ==
    ASSUME PlaceInv, NEW t \in Task, ClaimHead(t)
    PROVE  PlaceInv'
<1>1. /\ stage[t] = "head" /\ hand[t] = NoMsg /\ pump.at # "boot"
      /\ UNCHANGED <<mode, channel, pump, nextStep, open, fate>>
  BY NotBooting DEF ClaimHead, PlaceInv, Hands, history
<1>2. CASE nextTurn = << >>
  <2>1. Goes(t, "pending") /\ UNCHANGED <<hand, nextTurn>>
    BY <1>2 DEF ClaimHead
  <2>2. /\ stage' \in [Task -> Stage] /\ stage'[t] = "pending"
        /\ \A u \in Task : u # t => stage'[u] = stage[u]
    BY <2>1, StageGoes DEF PlaceInv, Stage
  <2>3. Kinds' /\ Hands' /\ Queues'
    BY <1>1, <2>1, <2>2 DEF PlaceInv, Kinds, Hands, Queues
  <2>4. \A m \in Message : Stays(m)
    BY <1>1, <2>1 DEF Stays, IsAt
  <2> QED BY <2>3, <2>4, PlaceFrame
<1>3. CASE nextTurn # << >>
  <2>1. PICK x : x = Head(nextTurn)
    OBVIOUS
  <2>2. Goes(t, "send") /\ hand' = [hand EXCEPT ![t] = x] /\ nextTurn' = Tail(nextTurn)
    BY <1>3, <2>1 DEF ClaimHead
  <2>3. /\ nextTurn' \in Seq(Message) /\ Distinct(nextTurn') /\ x \in Message /\ x \in In(nextTurn)
        /\ \A m : m \in In(nextTurn') <=> m \in In(nextTurn) /\ m # x
    BY <1>3, <2>1, <2>2, QueueTail DEF PlaceInv, Kinds, Queues
  <2>4. IsAt(x, "turn") /\ Held(x)
    BY <2>3 DEF IsAt, PlaceInv
  <2>5. /\ fate[x] \in Way /\ x \notin In(channel) /\ x \notin In(nextStep) /\ pump.msg # x
        /\ x \notin pump.todo /\ \A u \in Task : hand[u] # x
    BY <2>4, OnlyThere DEF Place
  <2>6. /\ hand' \in [Task -> Message \cup {NoMsg}] /\ hand'[t] = x
        /\ \A u \in Task : u # t => hand'[u] = hand[u]
        /\ \A u, v \in Task : hand'[u] = hand'[v] /\ hand'[u] # NoMsg => u = v
        /\ \A m \in Message : (\E u \in Task : hand'[u] = m) <=> (\E u \in Task : hand[u] = m) \/ m = x
    <3>1. Kinds /\ Hands
      BY DEF PlaceInv
    <3>2. hand[t] = NoMsg /\ x \in Message /\ \A u \in Task : hand[u] # x
      BY <1>1, <2>3, <2>5
    <3> QED BY <2>2, <3>1, <3>2, HandTakes
  <2>7. /\ stage' \in [Task -> Stage] /\ stage'[t] = "send"
        /\ \A u \in Task : u # t => stage'[u] = stage[u]
    BY <2>2, StageGoes DEF PlaceInv, Stage
  <2>8. x # NoMsg
    BY <2>3, MessageAssumption
  <2>9. Kinds' /\ Hands' /\ Queues'
    BY <1>1, <2>3, <2>6, <2>7, <2>8 DEF PlaceInv, Kinds, Hands, Queues
  <2>10. MovesTo(x, "hand")
    BY <1>1, <2>3, <2>5, <2>6 DEF MovesTo, IsAt, Place
  <2>11. ASSUME NEW m \in Message, m # x PROVE Stays(m)
    BY <1>1, <2>3, <2>6, <2>11 DEF Stays, IsAt
  <2> QED BY <2>3, <2>9, <2>10, <2>11, PlaceFrame DEF Place
<1> QED BY <1>2, <1>3

\* The head goes back to the channel.
LEMMA ReinjectPlace ==
    ASSUME PlaceInv, NEW t \in Task, Reinject(t)
    PROVE  PlaceInv'
<1>1. PICK x : x = hand[t]
  OBVIOUS
<1>2. /\ stage[t] = "send" /\ channel' = Append(channel, x) /\ Goes(t, "pending")
      /\ hand' = [hand EXCEPT ![t] = NoMsg]
      /\ UNCHANGED <<mode, pump, nextTurn, nextStep, open, fate>>
  BY <1>1 DEF Reinject, inbox, history
<1>3. x \in Message
  BY <1>1, <1>2 DEF PlaceInv, Kinds, Hands
<1>4. IsAt(x, "hand") /\ Held(x) /\ pump.at # "boot"
  BY <1>1, <1>2, <1>3, NotBooting DEF IsAt, PlaceInv
<1>5. /\ fate[x] \in Way /\ x \notin In(channel) /\ x \notin In(nextTurn) /\ x \notin In(nextStep)
      /\ pump.msg # x /\ x \notin pump.todo
  BY <1>4, OnlyThere DEF Place
<1>6. /\ channel' \in Seq(Message) /\ Distinct(channel')
      /\ \A m : m \in In(channel') <=> m \in In(channel) \/ m = x
  BY <1>2, <1>3, <1>5, QueueAppend DEF PlaceInv, Kinds, Queues
<1>7. /\ hand' \in [Task -> Message \cup {NoMsg}] /\ hand'[t] = NoMsg
      /\ \A u \in Task : u # t => hand'[u] = hand[u]
      /\ \A u, v \in Task : hand'[u] = hand'[v] /\ hand'[u] # NoMsg => u = v
      /\ \A m \in Message : (\E u \in Task : hand'[u] = m) <=> (\E u \in Task : hand[u] = m) /\ m # x
  <2>1. Kinds /\ Hands
    BY DEF PlaceInv
  <2>2. x = hand[t] /\ hand' = [hand EXCEPT ![t] = NoMsg]
    BY <1>1, <1>2
  <2>3. \A m \in Message : (\E u \in Task : hand'[u] = m) <=> (\E u \in Task : hand[u] = m) /\ m # hand[t]
    BY <2>1, <2>2, HandDrops
  <2> QED BY <2>1, <2>2, <2>3, HandDrops
<1>8. /\ stage' \in [Task -> Stage] /\ stage'[t] = "pending"
      /\ \A u \in Task : u # t => stage'[u] = stage[u]
  BY <1>2, StageGoes DEF PlaceInv, Stage
<1>9. Kinds' /\ Hands' /\ Queues'
  BY <1>2, <1>4, <1>6, <1>7, <1>8 DEF PlaceInv, Kinds, Hands, Queues
<1>10. MovesTo(x, "channel")
  BY <1>2, <1>4, <1>5, <1>6, <1>7, <1>3 DEF MovesTo, IsAt, Place
<1>11. ASSUME NEW m \in Message, m # x PROVE Stays(m)
  BY <1>2, <1>6, <1>7, <1>11 DEF Stays, IsAt
<1> QED BY <1>3, <1>9, <1>10, <1>11, PlaceFrame DEF Place

\* Both queues are removed, with what has come in between.
LEMMA ClearPlace ==
    ASSUME PlaceInv, NEW t \in Task, Clear(t)
    PROVE  PlaceInv'
<1>1. /\ stage[t] = "clear" /\ Goes(t, "idle") /\ nextTurn' = << >> /\ nextStep' = << >>
      /\ Become(In(nextTurn) \cup In(nextStep), "cleared")
      /\ UNCHANGED <<mode, channel, pump, hand, open>>
  BY DEF Clear
<1>2. /\ stage' \in [Task -> Stage] /\ stage'[t] = "idle"
      /\ \A u \in Task : u # t => stage'[u] = stage[u]
  BY <1>1, StageGoes DEF PlaceInv, Stage
<1>3. /\ DOMAIN fate' = Message
      /\ \A m \in Message :
            fate'[m] = IF m \in In(nextTurn) \/ m \in In(nextStep) THEN "cleared" ELSE fate[m]
  BY <1>1, FateBecomes
<1>4. pump.at # "boot"
  BY <1>1, NotBooting
<1>5. Kinds' /\ Hands' /\ Queues'
  BY <1>1, <1>2, <1>3, <1>4, QueueEmpty DEF PlaceInv, Kinds, Hands, Queues
<1>6. ASSUME NEW m \in Message, m \in In(nextTurn) \/ m \in In(nextStep) PROVE Gone(m)
  <2>1. PICK p \in {"turn", "step"} : IsAt(m, p)
    BY <1>6 DEF IsAt
  <2>2. /\ m \notin In(channel) /\ pump.msg # m /\ m \notin pump.todo
        /\ ~ \E u \in Task : hand[u] = m
    BY <2>1, OnlyThere DEF Place, PlaceInv
  <2> QED BY <1>1, <1>3, <1>4, <1>6, <2>2, QueueEmpty DEF Gone, IsAt, Place, Way
<1>7. ASSUME NEW m \in Message, m \notin In(nextTurn), m \notin In(nextStep) PROVE Stays(m)
  BY <1>1, <1>3, <1>7, QueueEmpty DEF Stays, IsAt
<1> QED BY <1>5, <1>6, <1>7, PlaceFrame

\* The process dies: only the calls with an open record are left.
LEMMA CrashPlace ==
    ASSUME PlaceInv, Crash
    PROVE  PlaceInv'
<1>1. /\ channel' = << >> /\ nextTurn' = << >> /\ nextStep' = << >>
      /\ pump' = [at |-> "boot", msg |-> NoMsg, todo |-> {}]
      /\ stage' = [t \in Task |-> "idle"] /\ hand' = [t \in Task |-> NoMsg]
      /\ UNCHANGED <<mode, open>>
  BY DEF Crash
<1>2. /\ DOMAIN fate' = Message
      /\ \A m \in Message : m \in open => fate'[m] = "owed"
      /\ \A m \in Message : m \notin open =>
            fate'[m] = IF fate[m] \in Way THEN "crashed" ELSE fate[m]
  BY DEF Crash, Way
<1>3. /\ pump' \in Pump /\ pump'.at = "boot" /\ pump'.msg = NoMsg /\ pump'.todo = {}
  BY <1>1 DEF Pump
<1>4. Kinds' /\ Hands' /\ Queues'
  BY <1>1, <1>2, <1>3, QueueEmpty DEF PlaceInv, Kinds, Hands, Queues, Stage
<1>5. ASSUME NEW m \in Message, m \in open PROVE MovesTo(m, "todo")
  BY <1>1, <1>2, <1>3, <1>5, QueueEmpty, MessageAssumption DEF MovesTo, IsAt, Place, Way
<1>6. ASSUME NEW m \in Message, m \notin open PROVE Gone(m)
  BY <1>1, <1>2, <1>3, <1>6, QueueEmpty, MessageAssumption DEF Gone, IsAt, Place, Way
<1> QED BY <1>4, <1>5, <1>6, PlaceFrame DEF Place

\* recover_interrupted_turns: a call goes from the log to the list of the pump.
LEMMA RecoverPlace ==
    ASSUME PlaceInv, Recover
    PROVE  PlaceInv'
<1>1. pump.at = "boot" /\ UNCHANGED <<mode, channel, nextTurn, nextStep, stage, hand, fate>>
  BY DEF Recover, inbox, task, history
<1>2. CASE \E c \in open : open' = open \ {c} /\ pump' = [pump EXCEPT !.todo = @ \cup {c}]
  <2>1. PICK c \in open : open' = open \ {c} /\ pump' = [pump EXCEPT !.todo = @ \cup {c}]
    BY <1>2
  <2>2. /\ pump' \in Pump /\ pump'.at = "boot" /\ pump'.msg = pump.msg
        /\ pump'.todo = pump.todo \cup {c}
    BY <1>1, <2>1 DEF PlaceInv, Kinds, Pump
  <2>3. Kinds' /\ Hands' /\ Queues'
    BY <1>1, <2>1, <2>2 DEF PlaceInv, Kinds, Hands, Queues
  <2>4. \A m \in Message : Stays(m)
    BY <1>1, <2>1, <2>2 DEF Stays, IsAt
  <2> QED BY <2>3, <2>4, PlaceFrame
<1>3. CASE open = {} /\ PumpAt("idle") /\ UNCHANGED open
  <2>1. /\ pump' \in Pump /\ pump'.at = "idle" /\ pump'.msg = pump.msg /\ pump'.todo = pump.todo
    BY <1>3, PumpSteps DEF PlaceInv, Kinds
  <2>2. Kinds' /\ Hands' /\ Queues'
    BY <1>1, <1>3, <2>1 DEF PlaceInv, Kinds, Hands, Queues
  <2>3. \A m \in Message : Stays(m)
    BY <1>1, <1>3, <2>1 DEF Stays, IsAt
  <2> QED BY <2>2, <2>3, PlaceFrame
<1> QED BY <1>2, <1>3 DEF Recover

\* Initially no message is anywhere.
LEMMA PlaceInit == Init => PlaceInv
<1> SUFFICES ASSUME Init PROVE PlaceInv
  OBVIOUS
<1>1. /\ channel = << >> /\ nextTurn = << >> /\ nextStep = << >>
      /\ pump = [at |-> "idle", msg |-> NoMsg, todo |-> {}]
      /\ stage = [t \in Task |-> "idle"] /\ hand = [t \in Task |-> NoMsg]
      /\ open = {} /\ fate = [m \in Message |-> "new"] /\ mode \in {"reject", "queue", "steer"}
  BY DEF Init
<1>2. Kinds /\ Hands /\ Queues
  BY <1>1, QueueEmpty DEF Kinds, Hands, Queues, Stage, Pump
<1>3. \A m \in Message : Held(m)
  BY <1>1, QueueEmpty, MessageAssumption DEF Held, IsAt, Place, Way
<1> QED BY <1>2, <1>3 DEF PlaceInv

\* Every step keeps every message in its one place.
LEMMA PlaceStep == PlaceInv /\ [Next]_vars => PlaceInv'
<1> SUFFICES ASSUME PlaceInv, [Next]_vars PROVE PlaceInv'
  OBVIOUS
<1>1. CASE PumpStep
  BY <1>1, RecvCallPlace, RecvPlace, GatePlace, EnqueuePlace, RecoverPlace DEF PumpStep
<1>2. ASSUME NEW t \in Task, TaskStep(t) PROVE PlaceInv'
  BY <1>2, BeginPlace, InsidePlace, ClaimPlace, TransferPlace, ClaimHeadPlace, ReinjectPlace,
     ClearPlace DEF TaskStep
<1>3. CASE UNCHANGED vars
  <2>1. UNCHANGED <<mode, channel, pump, nextTurn, nextStep, stage, hand, open, fate>>
    BY <1>3 DEF vars, inbox, task, history
  <2>2. Kinds' /\ Hands' /\ Queues'
    BY <2>1 DEF PlaceInv, Kinds, Hands, Queues
  <2>3. \A m \in Message : Stays(m)
    BY <2>1 DEF Stays, IsAt
  <2> QED BY <2>2, <2>3, PlaceFrame
<1> QED BY <1>1, <1>2, <1>3, ArrivePlace, CrashPlace DEF Next

\* PlaceInv holds in every state that TurnGate reaches: channel, gate, inbox, tasks and log
\* share no message, and together they have every message that is on its way.
THEOREM PlacesAreKept == Spec => []PlaceInv
BY PlaceInit, PlaceStep, PTL DEF Spec

-------------------------------------------------------------------------------
(* HeldOnce, from the places to their number.                              *)

\* The number of tasks that have a message in hand.
LEMMA HandCount ==
    ASSUME Hands, NEW m, m # NoMsg
    PROVE  Cardinality({t \in Task : hand[t] = m}) = IF \E t \in Task : hand[t] = m THEN 1 ELSE 0
<1>1. CASE \E t \in Task : hand[t] = m
  <2>1. PICK t \in Task : hand[t] = m
    BY <1>1
  <2>2. {u \in Task : hand[u] = m} = {t}
    BY <2>1 DEF Hands
  <2> QED BY <1>1, <2>2, FS_Singleton
<1>2. CASE ~ \E t \in Task : hand[t] = m
  <2>1. {u \in Task : hand[u] = m} = {}
    BY <1>2
  <2> QED BY <1>2, <2>1, FS_EmptySet
<1> QED BY <1>1, <1>2

\* A message that a user sent, and a call that a crash cut off, is in exactly one of the
\* channel, the pump, the two queues of the inbox, the hand of a turn and the calls that
\* recover_interrupted_turns has to take up; any other message is nowhere.
THEOREM NothingLostNothingTwice == Spec => []HeldOnce
<1>1. PlaceInv => HeldOnce
  <2> SUFFICES ASSUME PlaceInv, NEW m \in Message
               PROVE  Places(m) = IF fate[m] \in {"sent", "owed", "late"} THEN 1 ELSE 0
    BY DEF HeldOnce
  <2> DEFINE N(p) == IF IsAt(m, p) THEN 1 ELSE 0
  <2>1. /\ Count(channel, m) = N("channel") /\ Count(nextTurn, m) = N("turn")
        /\ Count(nextStep, m) = N("step")
    BY QueueCount DEF PlaceInv, Queues, IsAt
  <2>2. Cardinality({t \in Task : hand[t] = m}) = N("hand")
    BY HandCount, MessageAssumption DEF PlaceInv, IsAt
  <2>3. /\ (IF pump.msg = m THEN 1 ELSE 0) = N("pump")
        /\ (IF m \in pump.todo \/ (pump.at = "boot" /\ m \in open) THEN 1 ELSE 0) = N("todo")
    BY DEF IsAt
  <2>4. Places(m) = N("channel") + N("turn") + N("step") + N("hand") + N("pump") + N("todo")
    BY <2>1, <2>2, <2>3 DEF Places
  <2>5. Held(m)
    BY DEF PlaceInv
  <2>6. CASE fate[m] \in Way
    <3>1. PICK p \in Place : \A q \in Place : IsAt(m, q) <=> q = p
      BY <2>5, <2>6 DEF Held
    <3>2. Places(m) = 1
      BY <2>4, <3>1 DEF Place
    <3> QED BY <2>6, <3>2 DEF Way
  <2>7. CASE fate[m] \notin Way
    <3>1. \A q \in Place : ~IsAt(m, q)
      BY <2>5, <2>7 DEF Held
    <3>2. Places(m) = 0
      BY <2>4, <3>1 DEF Place
    <3> QED BY <2>7, <3>2 DEF Way
  <2> QED BY <2>6, <2>7
<1> QED BY <1>1, PlacesAreKept, PTL

-------------------------------------------------------------------------------
(* SeenAsSent: the form in which a message reaches the model.              *)

\* The marks that a message has when the model sees it.
Shown(m) == IF mode = "steer" /\ Marks[m] > 0 THEN Marks[m] - 1 ELSE Marks[m]

\* Until then it has all of them, or, in steer mode, has lost its only one.
Formed(m) ==
    /\ fate[m] = "seen" => marks[m] = Shown(m)
    /\ fate[m] # "seen" => \/ marks[m] = Marks[m]
                           \/ mode = "steer" /\ Marks[m] = 1 /\ marks[m] = 0

MarkInv ==
    /\ PlaceInv
    /\ marks \in [Message -> 0..2]
    /\ \A m \in Msg \ twice : Formed(m)

\* One mark less.
LEMMA Strips ==
    ASSUME marks \in [Message -> 0..2], NEW M, marks' = Stripped(M)
    PROVE  /\ marks' \in [Message -> 0..2]
           /\ \A m \in Message : m \notin M => marks'[m] = marks[m]
           /\ \A m \in Message : m \in M => marks'[m] = IF marks[m] > 0 THEN marks[m] - 1 ELSE marks[m]
BY DEF Stripped

\* What one mark less makes of a message in steer mode.
LEMMA StripForms ==
    ASSUME NEW a \in 0..2, NEW b \in 0..2, a = b \/ (b = 1 /\ a = 0)
    PROVE  /\ (IF a > 0 THEN a - 1 ELSE a) = IF b > 0 THEN b - 1 ELSE b
           /\ a # 2 => \/ (IF a > 0 THEN a - 1 ELSE a) = b
                       \/ b = 1 /\ (IF a > 0 THEN a - 1 ELSE a) = 0
OBVIOUS

\* A message that the model has seen is nowhere.
LEMMA SeenIsNowhere ==
    ASSUME PlaceInv, NEW m \in Message, fate[m] = "seen"
    PROVE  /\ m \notin In(nextStep) /\ m # pump.msg /\ m \notin In(nextTurn)
           /\ \A t \in Task : hand[t] # m
<1>1. \A q \in Place : ~IsAt(m, q)
  BY DEF PlaceInv, Held, Way
<1> QED BY <1>1 DEF IsAt, Place

\* A step after which every mark is as before, and no message is newly seen or unseen.
LEMMA MarksStay ==
    ASSUME MarkInv, UNCHANGED <<marks, mode>>, twice \subseteq twice',
           \A m \in Msg : fate'[m] = "seen" <=> fate[m] = "seen"
    PROVE  marks' \in [Message -> 0..2] /\ \A m \in Msg \ twice' : Formed(m)'
BY DEF MarkInv, Formed, Shown

\* The message of a new turn: process_admitted strips it in steer mode.
LEMMA BeginMarks ==
    ASSUME MarkInv, NEW t \in Task, Begin(t)
    PROVE  marks' \in [Message -> 0..2] /\ \A m \in Msg \ twice' : Formed(m)'
<1>1. PICK x : x = hand[t]
  OBVIOUS
<1>2. UNCHANGED <<mode, twice>> /\ Become({x}, "seen")
  BY <1>1 DEF Begin
<1>3. \A m \in Message : fate'[m] = IF m = x THEN "seen" ELSE fate[m]
  BY <1>2, FateBecomes
<1>4. \A m \in Msg : m \in Message /\ Marks[m] \in 0..2
  BY MessageAssumption DEF Message
<1>5. \A m \in Message : fate[m] = "seen" => m # x
  BY <1>1, SeenIsNowhere DEF MarkInv
<1>6. CASE mode = "steer"
  <2>1. /\ marks' \in [Message -> 0..2]
        /\ \A m \in Message : m # x => marks'[m] = marks[m]
        /\ x \in Message => marks'[x] = IF marks[x] > 0 THEN marks[x] - 1 ELSE marks[x]
    BY <1>1, <1>6, Strips DEF Begin, MarkInv
  <2>2. ASSUME NEW m \in Msg \ twice' PROVE Formed(m)'
    <3>1. Formed(m) /\ m \in Message /\ marks[m] \in 0..2 /\ Marks[m] \in 0..2
      BY <1>2, <1>4 DEF MarkInv
    <3>2. CASE m # x
      BY <1>2, <1>3, <2>1, <3>1, <3>2 DEF Formed, Shown
    <3>3. CASE m = x
      <4>1. fate[m] # "seen" /\ fate'[m] = "seen"
        BY <1>3, <1>5, <3>1, <3>3
      <4>2. marks[m] = Marks[m] \/ (Marks[m] = 1 /\ marks[m] = 0)
        BY <3>1, <4>1 DEF Formed
      <4>3. (IF marks[m] > 0 THEN marks[m] - 1 ELSE marks[m]) = IF Marks[m] > 0 THEN Marks[m] - 1 ELSE Marks[m]
        BY <3>1, <4>2, StripForms
      <4> QED BY <1>2, <1>6, <2>1, <3>1, <3>3, <4>1, <4>3 DEF Formed, Shown
    <3> QED BY <3>2, <3>3
  <2> QED BY <2>1, <2>2
<1>7. CASE mode # "steer"
  <2>1. marks' = marks
    BY <1>7 DEF Begin
  <2> QED BY <1>2, <1>3, <1>4, <1>7, <2>1 DEF MarkInv, Formed, Shown
<1> QED BY <1>6, <1>7

\* claim_steer_messages: only steer mode has any.
LEMMA ClaimMarks ==
    ASSUME MarkInv, NEW t \in Task, Claim(t)
    PROVE  marks' \in [Message -> 0..2] /\ \A m \in Msg \ twice' : Formed(m)'
<1>1. UNCHANGED <<mode, twice>> /\ Become(In(nextStep), "seen") /\ marks' = Stripped(In(nextStep))
  BY DEF Claim
<1>2. \A m \in Message : fate'[m] = IF m \in In(nextStep) THEN "seen" ELSE fate[m]
  BY <1>1, FateBecomes
<1>3. /\ marks' \in [Message -> 0..2]
      /\ \A m \in Message : m \notin In(nextStep) => marks'[m] = marks[m]
      /\ \A m \in Message : m \in In(nextStep) => marks'[m] = IF marks[m] > 0 THEN marks[m] - 1 ELSE marks[m]
  BY <1>1, Strips DEF MarkInv
<1>4. ASSUME NEW m \in Msg \ twice' PROVE Formed(m)'
  <2>1. Formed(m) /\ m \in Message /\ marks[m] \in 0..2 /\ Marks[m] \in 0..2
    BY <1>1, MessageAssumption DEF MarkInv, Message
  <2>2. CASE m \notin In(nextStep)
    BY <1>1, <1>2, <1>3, <2>1, <2>2 DEF Formed, Shown
  <2>3. CASE m \in In(nextStep)
    <3>1. mode = "steer"
      BY <2>3, QueueEmpty DEF MarkInv, PlaceInv, Hands
    <3>2. fate[m] # "seen" /\ fate'[m] = "seen"
      BY <1>2, <2>1, <2>3, SeenIsNowhere DEF MarkInv
    <3>3. marks[m] = Marks[m] \/ (Marks[m] = 1 /\ marks[m] = 0)
      BY <2>1, <3>2 DEF Formed
    <3>4. (IF marks[m] > 0 THEN marks[m] - 1 ELSE marks[m]) = IF Marks[m] > 0 THEN Marks[m] - 1 ELSE Marks[m]
      BY <2>1, <3>3, StripForms
    <3> QED BY <1>1, <1>3, <2>1, <2>3, <3>1, <3>2, <3>4 DEF Formed, Shown
  <2> QED BY <2>2, <2>3
<1> QED BY <1>3, <1>4

\* transfer_next_step_to_next_turn: a message with two marks is excused from then on.
LEMMA TransferMarks ==
    ASSUME MarkInv, NEW t \in Task, Transfer(t)
    PROVE  marks' \in [Message -> 0..2] /\ \A m \in Msg \ twice' : Formed(m)'
<1>1. /\ UNCHANGED <<mode, fate>> /\ marks' = Stripped(In(nextStep))
      /\ twice' = twice \cup {m \in In(nextStep) : marks[m] = 2}
  BY DEF Transfer
<1>2. /\ marks' \in [Message -> 0..2]
      /\ \A m \in Message : m \notin In(nextStep) => marks'[m] = marks[m]
      /\ \A m \in Message : m \in In(nextStep) => marks'[m] = IF marks[m] > 0 THEN marks[m] - 1 ELSE marks[m]
  BY <1>1, Strips DEF MarkInv
<1>3. ASSUME NEW m \in Msg \ twice' PROVE Formed(m)'
  <2>1. Formed(m) /\ m \in Message /\ marks[m] \in 0..2 /\ Marks[m] \in 0..2
    BY <1>1, <1>3, MessageAssumption DEF MarkInv, Message
  <2>2. CASE m \notin In(nextStep)
    BY <1>1, <1>2, <2>1, <2>2 DEF Formed, Shown
  <2>3. CASE m \in In(nextStep)
    <3>1. mode = "steer" /\ marks[m] # 2
      BY <1>1, <1>3, <2>3, QueueEmpty DEF MarkInv, PlaceInv, Hands
    <3>2. fate[m] # "seen"
      BY <2>1, <2>3, SeenIsNowhere DEF MarkInv
    <3>3. marks[m] = Marks[m] \/ (Marks[m] = 1 /\ marks[m] = 0)
      BY <2>1, <3>2 DEF Formed
    <3>4. \/ (IF marks[m] > 0 THEN marks[m] - 1 ELSE marks[m]) = Marks[m]
          \/ Marks[m] = 1 /\ (IF marks[m] > 0 THEN marks[m] - 1 ELSE marks[m]) = 0
      BY <2>1, <3>1, <3>3, StripForms
    <3> QED BY <1>1, <1>2, <2>1, <2>3, <3>1, <3>2, <3>4 DEF Formed
  <2> QED BY <2>2, <2>3
<1> QED BY <1>2, <1>3

\* What every other step does to a message that the model has seen, or has not.
LEMMA OtherMarks ==
    ASSUME MarkInv, Next, ~ \E t \in Task : Begin(t) \/ Claim(t) \/ Transfer(t)
    PROVE  marks' \in [Message -> 0..2] /\ \A m \in Msg \ twice' : Formed(m)'
<1>1. \A m \in Msg : m \in Message
  BY DEF Message
<1>2. CASE \E x \in Msg : Arrive(x)
  <2>1. PICK x \in Msg : Arrive(x)
    BY <1>2
  <2>2. UNCHANGED <<marks, mode, twice>> /\ fate[x] = "new" /\ Become({x}, "sent")
    BY <2>1 DEF Arrive
  <2>3. \A m \in Msg : fate'[m] = "seen" <=> fate[m] = "seen"
    BY <1>1, <2>2, FateBecomes
  <2> QED BY <2>2, <2>3, MarksStay
<1>3. CASE Gate \/ Enqueue
  <2>1. /\ UNCHANGED <<marks, mode, twice>> /\ pump.at \in {"gate", "enqueue"}
        /\ \/ UNCHANGED fate
           \/ \E f \in {"owed", "late", "refused", "bounced"} : Become({pump.msg}, f)
    BY <1>3 DEF Gate, Enqueue, Acquire, Busy, Refused
  <2>2. fate[pump.msg] # "seen"
    BY <2>1, AtPump DEF MarkInv, Way
  <2>3. \A m \in Msg : fate'[m] = "seen" <=> fate[m] = "seen"
    BY <1>1, <2>1, <2>2, FateBecomes
  <2> QED BY <2>1, <2>3, MarksStay
<1>4. CASE \E t \in Task : Clear(t)
  <2>1. /\ UNCHANGED <<marks, mode, twice>>
        /\ Become(In(nextTurn) \cup In(nextStep), "cleared")
    BY <1>4 DEF Clear
  <2>2. ASSUME NEW m \in Msg PROVE fate'[m] = "seen" <=> fate[m] = "seen"
    BY <1>1, <2>1, FateBecomes, SeenIsNowhere DEF MarkInv
  <2> QED BY <2>1, <2>2, MarksStay
<1>5. CASE Crash
  <2>1. UNCHANGED <<marks, mode, twice>>
    BY <1>5 DEF Crash
  <2>2. ASSUME NEW m \in Msg PROVE fate'[m] = "seen" <=> fate[m] = "seen"
    <3>1. m \notin open /\ m \in Message
      BY <1>1, MessageAssumption DEF MarkInv, PlaceInv, Kinds
    <3> QED BY <1>5, <3>1 DEF Crash
  <2> QED BY <2>1, <2>2, MarksStay
<1>6. CASE UNCHANGED <<marks, mode, twice, fate>>
  BY <1>6, MarksStay
<1>7. CASE Recv \/ Recover
  BY <1>6, <1>7 DEF Recv, Recover, history
<1>8. CASE \E t \in Task : TaskStep(t)
  BY <1>4, <1>6, <1>8
  DEF TaskStep, Work, RoundEnds, Answer, SkipBatch, StartCalls, RefuseCall, FinishCalls, Release,
      ClaimHead, Reinject, Pending, history
<1> QED BY <1>2, <1>3, <1>5, <1>7, <1>8 DEF Next, PumpStep

\* A message of a user reaches the model in one form, whatever its way through the gate and
\* the inbox: in steer mode process_admitted and claim_steer_messages take one mark off it,
\* and in any other mode it is as it was sent.
THEOREM MessagesAreSeenAsSent == Spec => []SeenAsSent
<1>1. Init => MarkInv
  <2> SUFFICES ASSUME Init PROVE MarkInv
    OBVIOUS
  <2>1. marks = Marks /\ twice = {} /\ fate = [m \in Message |-> "new"]
    BY DEF Init
  <2>2. marks \in [Message -> 0..2]
    BY <2>1, MessageAssumption
  <2>3. \A m \in Msg : Formed(m)
    BY <2>1 DEF Formed, Message
  <2> QED BY <2>2, <2>3, PlaceInit DEF MarkInv
<1>2. MarkInv /\ [Next]_vars => MarkInv'
  <2> SUFFICES ASSUME MarkInv, [Next]_vars PROVE MarkInv'
    OBVIOUS
  <2>1. PlaceInv'
    BY PlaceStep DEF MarkInv
  <2>2. CASE UNCHANGED vars
    BY <2>1, <2>2, MarksStay DEF vars, history, MarkInv
  <2>3. CASE Next
    BY <2>1, <2>3, BeginMarks, ClaimMarks, TransferMarks, OtherMarks DEF MarkInv
  <2> QED BY <2>2, <2>3
<1>3. MarkInv => SeenAsSent
  BY DEF MarkInv, SeenAsSent, Formed, Shown
<1> QED BY <1>1, <1>2, <1>3, PTL DEF Spec

===============================================================================
