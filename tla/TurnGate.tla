------------------------------- MODULE TurnGate -------------------------------
(***************************************************************************)
(* The turns of one session of the agent loop: the pump that admits        *)
(* messages, the inbox in which they wait while a turn is running, the     *)
(* rounds of a turn, the tail that releases the session and drains the     *)
(* inbox, and the log from which a turn that a crash has cut off is taken  *)
(* up again (crates/nemesis-agent/src/loop/admission.rs, bus.rs,           *)
(* run_loop.rs, tool_batch.rs, maintenance.rs; inbox.rs, turn_wal.rs).     *)
(*                                                                         *)
(* Sessions share nothing but the pump and the limit on turns, which only  *)
(* delay.  A turn is a task of its own: between two locks of session_busy  *)
(* or of the inbox the pump and the tail of an earlier turn may act.       *)
(***************************************************************************)
EXTENDS Naturals, Sequences, FiniteSets

CONSTANTS Msg,         \* what the users send
          Maint,       \* the ones that are /compact, /clear or /build ... repo:...
          Marks,       \* Marks[m]: how many "!" message m begins with, 0, 1 or 2
          Call,        \* tool calls that may be open at one time; the message that takes up
                       \* a call after a crash goes by the same name
          NoMsg,
          Task,        \* turn tasks: a running one and earlier ones that drain the inbox
          Capacity,    \* of the inbox
          MaxRound,    \* rounds of a turn, the grace round included
          MaxCrash

Message == Msg \cup Call

ASSUME MessageAssumption ==
    /\ Maint \subseteq Msg /\ Msg \cap Call = {}
    /\ Marks \in [Message -> 0..2]
    /\ NoMsg \notin Message
ASSUME BoundAssumption == {Capacity, MaxRound, MaxCrash} \subseteq Nat

VARIABLES
    mode,      \* concurrent_mode
    channel,   \* the loop's own mpsc channel
    pump,      \* what the pump is doing
    busy,      \* session_busy
    nextTurn,  \* the two queues of the inbox
    nextStep,
    stage,     \* stage[t]: what turn task t does next
    hand,      \* hand[t]: the message it holds
    loop,      \* loop[t]: where it is in its rounds
    marks,     \* marks[m]: the "!" that the message still has
    open,      \* calls with a record in the log and no final one
    crashes,
    \* History
    fate,      \* fate[m]: what has become of message m
    twice      \* messages with "!!" that were stripped when they changed queues

inbox   == <<nextTurn, nextStep>>
task    == <<stage, hand, loop>>
history == <<fate, twice>>
vars    == <<mode, channel, pump, busy, inbox, task, marks, open, crashes, history>>

-------------------------------------------------------------------------------
\* at: what comes next.  todo: the interrupted calls that are to be taken up.
Pump == [at : {"boot", "idle", "gate", "enqueue"}, msg : Message \cup {NoMsg}, todo : SUBSET Call]

Stage == {"idle", "begin", "top", "llm", "tools", "running", "work", "release",
          "transfer", "head", "send", "pending", "clear"}

\* left: calls of the batch that are still to be made.  escaped: steer_escape_used.
Loop  == [round : 0..MaxRound, left : 0..Cardinality(Call), escaped : BOOLEAN]
Fresh == [round |-> 0, left |-> 0, escaped |-> FALSE]

\* From the admission to release_session.
Working  == {"begin", "top", "llm", "tools", "running", "work", "release"}
Works(t) == stage[t] \in Working

Goes(t, to) == stage' = [stage EXCEPT ![t] = to]
PumpAt(at)  == pump' = [pump EXCEPT !.at = at]
Free        == pump' = [pump EXCEPT !.at = "idle", !.msg = NoMsg]

\* strip_steer_marker, one mark of each message of M.
Stripped(M) == [m \in Message |-> IF m \in M /\ marks[m] > 0 THEN marks[m] - 1 ELSE marks[m]]

In(q) == {q[i] : i \in DOMAIN q}
Become(M, what) == fate' = [m \in Message |-> IF m \in M THEN what ELSE fate[m]]

Init ==
    /\ mode \in {"reject", "queue", "steer"}
    /\ channel = <<>>
    /\ pump = [at |-> "idle", msg |-> NoMsg, todo |-> {}]
    /\ busy = FALSE
    /\ nextTurn = <<>> /\ nextStep = <<>>
    /\ stage = [t \in Task |-> "idle"] /\ hand = [t \in Task |-> NoMsg]
    /\ loop = [t \in Task |-> Fresh]
    /\ marks = Marks
    /\ open = {}
    /\ crashes = 0
    /\ fate = [m \in Message |-> "new"]
    /\ twice = {}

-------------------------------------------------------------------------------
(* The pump: run_bus_impl, pump_dispatch, gate_inbound.                    *)

\* A user writes.
Arrive(m) ==
    /\ fate[m] = "new"
    /\ channel' = Append(channel, m)
    /\ Become({m}, "sent")
    /\ UNCHANGED <<mode, pump, busy, inbox, task, marks, open, crashes, twice>>

\* The calls that a crash has cut off come first, then the channel.
Recv ==
    /\ pump.at = "idle"
    /\ IF pump.todo # {}
       THEN /\ \E c \in pump.todo : pump' = [at |-> "gate", msg |-> c, todo |-> pump.todo \ {c}]
            /\ UNCHANGED channel
       ELSE /\ channel # <<>>
            /\ pump' = [pump EXCEPT !.at = "gate", !.msg = Head(channel)]
            /\ channel' = Tail(channel)
    /\ UNCHANGED <<mode, busy, inbox, task, marks, open, crashes, history>>

\* A message that was told to wait and is then turned away is a broken promise.
Refused(m) == Become({m}, IF fate[m] = "sent" THEN "refused" ELSE "bounced")

\* A plausible bug: session_busy is not looked at.
AcquireUnchecked(m) ==
    /\ busy' = TRUE
    /\ \E t \in Task : stage[t] = "idle" /\ Goes(t, "begin") /\ hand' = [hand EXCEPT ![t] = m]
    /\ Become({m}, "owed")
    /\ Free
    /\ UNCHANGED loop

\* try_acquire_session succeeds: the turn is spawned.
Acquire(m) ==
    /\ ~busy
    /\ busy' = TRUE
    /\ \E t \in Task : stage[t] = "idle" /\ Goes(t, "begin") /\ hand' = [hand EXCEPT ![t] = m]
    /\ Become({m}, "owed")
    /\ Free
    /\ UNCHANGED loop

\* It does not: maintenance is ignored, and in reject mode so is everything else.
Busy(m) ==
    /\ busy
    /\ IF mode = "reject" \/ m \in Maint THEN Refused(m) /\ Free
                                         ELSE PumpAt("enqueue") /\ UNCHANGED fate
    /\ UNCHANGED <<busy, task>>

Gate ==
    /\ pump.at = "gate"
    /\ Acquire(pump.msg) \/ Busy(pump.msg)
    /\ UNCHANGED <<mode, channel, inbox, marks, open, crashes, twice>>

\* In queue mode "!" is nothing but text.
Steers(m) == mode = "steer" /\ marks[m] > 0

\* Nobody will look at the queue of m before the next message comes.
Late(m) ==
    ~ \E t \in Task : Works(t) \/ stage[t] = "transfer" \/ (stage[t] = "head" /\ ~Steers(m))

\* enqueue_for_mode, after the session was found busy.
Enqueue ==
    LET m == pump.msg IN
    /\ pump.at = "enqueue"
    /\ Free
    /\ IF Len(nextTurn) + Len(nextStep) >= Capacity
       THEN Refused(m) /\ UNCHANGED inbox
       ELSE /\ Become({m}, IF Late(m) THEN "late" ELSE "owed")
            /\ IF Steers(m) THEN nextStep' = Append(nextStep, m) /\ UNCHANGED nextTurn
                            ELSE nextTurn' = Append(nextTurn, m) /\ UNCHANGED nextStep
    /\ UNCHANGED <<mode, channel, busy, task, marks, open, crashes, twice>>

-------------------------------------------------------------------------------
(* A turn: process_admitted, the loop over rounds, maintenance.            *)

\* A plausible bug: a message that finds the session idle keeps its mark.
BeginRaw(t) ==
    /\ stage[t] = "begin"
    /\ Goes(t, IF hand[t] \in Maint THEN "work" ELSE "top")
    /\ hand' = [hand EXCEPT ![t] = NoMsg]
    /\ Become({hand[t]}, "seen")
    /\ UNCHANGED <<mode, channel, pump, busy, inbox, loop, marks, open, crashes, twice>>

\* The message enters the conversation; in steer mode it loses its mark.
Begin(t) ==
    LET m == hand[t] IN
    /\ stage[t] = "begin"
    /\ Goes(t, IF m \in Maint THEN "work" ELSE "top")
    /\ hand' = [hand EXCEPT ![t] = NoMsg]
    /\ Become({m}, "seen")
    /\ marks' = IF mode = "steer" THEN Stripped({m}) ELSE marks
    /\ UNCHANGED <<mode, channel, pump, busy, inbox, loop, open, crashes, twice>>

\* handle_maintenance, or the wait for the worker's acknowledgement.
Work(t) ==
    /\ stage[t] = "work"
    /\ Goes(t, "release")
    /\ UNCHANGED <<mode, channel, pump, busy, inbox, hand, loop, marks, open, crashes, history>>

\* prepare_round and the token budget: cancelled, stopped, or out of rounds.
RoundEnds(t) ==
    /\ stage[t] = "top"
    /\ Goes(t, "release")
    /\ UNCHANGED <<mode, channel, pump, busy, inbox, hand, loop, marks, open, crashes, history>>

\* claim_steer_messages, before the model is called.
Claim(t) ==
    /\ stage[t] = "top" /\ loop[t].round < MaxRound
    /\ Goes(t, "llm")
    /\ loop' = [loop EXCEPT ![t].round = @ + 1]
    /\ nextStep' = <<>>
    /\ Become(In(nextStep), "seen")
    /\ marks' = Stripped(In(nextStep))
    /\ UNCHANGED <<mode, channel, pump, busy, nextTurn, hand, open, crashes, twice>>

\* judge_final_answer: once per turn a message that came in the last moment has it go on.
Escapes(t) == ~loop[t].escaped /\ nextStep # <<>> /\ mode = "steer"

\* The model is called.  The turn ends with an error, when it gives up, or with a final
\* answer that nothing holds back; an answer that is cut short, empty, or objected to by a
\* hook, and a batch that is cancelled at once, has another round; else there are tool calls.
Answer(t) ==
    /\ stage[t] = "llm"
    /\ \/ Goes(t, "release") /\ UNCHANGED loop
       \/ Goes(t, "top") /\ UNCHANGED loop
       \/ Escapes(t) /\ Goes(t, "top") /\ loop' = [loop EXCEPT ![t].escaped = TRUE]
       \/ /\ Goes(t, "tools")
          /\ \E n \in 1..Cardinality(Call) : loop' = [loop EXCEPT ![t].left = n]
    /\ UNCHANGED <<mode, channel, pump, busy, inbox, hand, marks, open, crashes, history>>

\* check_steer_skip_batch, before each call.
SkipBatch(t) ==
    /\ stage[t] = "tools" /\ nextStep # <<>>
    /\ Goes(t, "top")
    /\ loop' = [loop EXCEPT ![t].left = 0]
    /\ UNCHANGED <<mode, channel, pump, busy, inbox, hand, marks, open, crashes, history>>

\* A call that no gate refuses is recorded as admitted and as started; of a batch that is
\* safe to run in parallel, all are at once.  Every call has an id of its own.
StartCalls(t) ==
    /\ stage[t] = "tools"
    /\ Goes(t, "running")
    /\ \E C \in SUBSET {c \in Call : fate[c] # "owed"} :
         /\ C # {} /\ Cardinality(C) <= loop[t].left
         /\ open' = open \cup C
         /\ \/ /\ Cardinality(C) = 1 /\ nextStep = <<>>
               /\ loop' = [loop EXCEPT ![t].left = @ - 1]
            \/ loop[t].left > 1 /\ loop' = [loop EXCEPT ![t].left = 0]
    /\ UNCHANGED <<mode, channel, pump, busy, inbox, hand, marks, crashes, history>>

\* A gate refuses the call, or it is invalid: no record.
RefuseCall(t) ==
    /\ stage[t] = "tools" /\ nextStep = <<>>
    /\ Goes(t, "running")
    /\ loop' = [loop EXCEPT ![t].left = @ - 1]
    /\ UNCHANGED <<mode, channel, pump, busy, inbox, hand, marks, open, crashes, history>>

\* The result, and the final record.  Cancelled calls, a plan that was rejected, a
\* delegated task and spent budgets end the batch or the turn.
FinishCalls(t) ==
    /\ stage[t] = "running"
    /\ open' = {}
    /\ \/ Goes(t, "top") /\ loop' = [loop EXCEPT ![t].left = 0]
       \/ Goes(t, "release") /\ UNCHANGED loop
       \/ loop[t].left > 0 /\ Goes(t, "tools") /\ UNCHANGED loop
    /\ UNCHANGED <<mode, channel, pump, busy, inbox, hand, marks, crashes, history>>

-------------------------------------------------------------------------------
(* The tail of a turn: release_session, drain_next_turn_queue.             *)

\* A plausible bug: the tail of a maintenance command releases and does not drain.
ReleaseOnly(t) ==
    /\ stage[t] = "release"
    /\ busy' = FALSE
    /\ Goes(t, IF loop[t].round = 0 THEN "idle" ELSE "transfer")
    /\ loop' = [loop EXCEPT ![t] = Fresh]
    /\ UNCHANGED <<mode, channel, pump, inbox, hand, marks, open, crashes, history>>

Release(t) ==
    /\ stage[t] = "release"
    /\ busy' = FALSE
    /\ Goes(t, "transfer")
    /\ loop' = [loop EXCEPT ![t] = Fresh]
    /\ UNCHANGED <<mode, channel, pump, inbox, hand, marks, open, crashes, history>>

\* transfer_next_step_to_next_turn, also of what was meant for a turn that has begun since.
Transfer(t) ==
    /\ stage[t] = "transfer"
    /\ Goes(t, IF mode = "reject" THEN "idle" ELSE "head")
    /\ nextTurn' = nextTurn \o nextStep
    /\ nextStep' = <<>>
    /\ marks' = Stripped(In(nextStep))
    /\ twice' = twice \cup {m \in In(nextStep) : marks[m] = 2}
    /\ UNCHANGED <<mode, channel, pump, busy, hand, loop, open, crashes, fate>>

\* A plausible bug: the head is read and left in the queue.
PeekHead(t) ==
    /\ stage[t] = "head"
    /\ IF nextTurn = <<>> THEN Goes(t, "pending") /\ UNCHANGED hand
                          ELSE Goes(t, "send") /\ hand' = [hand EXCEPT ![t] = Head(nextTurn)]
    /\ UNCHANGED <<mode, channel, pump, busy, inbox, loop, marks, open, crashes, history>>

\* claim_next_turn_head
ClaimHead(t) ==
    /\ stage[t] = "head"
    /\ IF nextTurn = <<>>
       THEN Goes(t, "pending") /\ UNCHANGED <<hand, nextTurn>>
       ELSE /\ Goes(t, "send")
            /\ hand' = [hand EXCEPT ![t] = Head(nextTurn)]
            /\ nextTurn' = Tail(nextTurn)
    /\ UNCHANGED <<mode, channel, pump, busy, nextStep, loop, marks, open, crashes, history>>

\* The head goes through the channel and the gate again.
Reinject(t) ==
    /\ stage[t] = "send"
    /\ channel' = Append(channel, hand[t])
    /\ Goes(t, "pending")
    /\ hand' = [hand EXCEPT ![t] = NoMsg]
    /\ UNCHANGED <<mode, pump, busy, inbox, loop, marks, open, crashes, history>>

\* Empty queues are dropped: looked at under one lock ...
Pending(t) ==
    /\ stage[t] = "pending"
    /\ Goes(t, IF inbox = <<<<>>, <<>>>> THEN "clear" ELSE "idle")
    /\ UNCHANGED <<mode, channel, pump, busy, inbox, hand, loop, marks, open, crashes, history>>

\* ... and removed under the next, with what has come in between.
Clear(t) ==
    /\ stage[t] = "clear"
    /\ Goes(t, "idle")
    /\ nextTurn' = <<>> /\ nextStep' = <<>>
    /\ Become(In(nextTurn) \cup In(nextStep), "cleared")
    /\ UNCHANGED <<mode, channel, pump, busy, hand, loop, marks, open, crashes, twice>>

-------------------------------------------------------------------------------
(* Crash and recovery: recover_interrupted_turns.                          *)

\* What waits is in memory only.  A call that was taken up before and has not made a new
\* record is forgotten.
Crash ==
    /\ crashes < MaxCrash
    /\ crashes' = crashes + 1
    /\ channel' = <<>> /\ nextTurn' = <<>> /\ nextStep' = <<>>
    /\ pump' = [at |-> "boot", msg |-> NoMsg, todo |-> {}]
    /\ busy' = FALSE
    /\ stage' = [t \in Task |-> "idle"] /\ hand' = [t \in Task |-> NoMsg]
    /\ loop' = [t \in Task |-> Fresh]
    /\ fate' = [m \in Message |-> IF m \in open THEN "owed"
                                  ELSE IF fate[m] \in {"sent", "owed", "late"} THEN "crashed"
                                  ELSE fate[m]]
    /\ UNCHANGED <<mode, marks, open, twice>>

\* recover_and_finalize gives each open call its final record, then the pump starts.
Recover ==
    /\ pump.at = "boot"
    /\ \/ \E c \in open : open' = open \ {c} /\ pump' = [pump EXCEPT !.todo = @ \cup {c}]
       \/ open = {} /\ PumpAt("idle") /\ UNCHANGED open
    /\ UNCHANGED <<mode, channel, busy, inbox, task, marks, crashes, history>>

-------------------------------------------------------------------------------
PumpStep == Recv \/ Gate \/ Enqueue \/ Recover

TaskStep(t) ==
    \/ Begin(t) \/ Work(t) \/ RoundEnds(t) \/ Claim(t) \/ Answer(t) \/ SkipBatch(t)
    \/ StartCalls(t) \/ RefuseCall(t) \/ FinishCalls(t)
    \/ Release(t) \/ Transfer(t) \/ ClaimHead(t) \/ Reinject(t) \/ Pending(t) \/ Clear(t)

Next ==
    \/ \E m \in Msg : Arrive(m)
    \/ PumpStep
    \/ \E t \in Task : TaskStep(t)
    \/ Crash

Spec == Init /\ [][Next]_vars

\* The pump and the spawned tasks run on; rounds and batches are bounded.
FairSpec == Spec /\ WF_vars(PumpStep) /\ \A t \in Task : WF_vars(TaskStep(t))

-------------------------------------------------------------------------------
TypeOK ==
    /\ mode \in {"reject", "queue", "steer"}
    /\ channel \in Seq(Message) /\ nextTurn \in Seq(Message) /\ nextStep \in Seq(Message)
    /\ pump \in Pump
    /\ busy \in BOOLEAN
    /\ stage \in [Task -> Stage] /\ loop \in [Task -> Loop]
    /\ hand \in [Task -> Message \cup {NoMsg}]
    /\ marks \in [Message -> 0..2]
    /\ open \subseteq Call /\ twice \subseteq Message
    /\ crashes \in 0..MaxCrash
    /\ fate \in [Message -> {"new", "sent", "owed", "late", "seen", "refused", "bounced", "cleared",
                             "crashed"}]

-------------------------------------------------------------------------------
(* Properties.                                                             *)

\* The comment at process_admitted: an admitted session never leaks busy.  The session is
\* busy exactly while a turn or a maintenance command works in it, and never two of them,
\* whatever tails of earlier turns are still at the inbox.
BusyIsHeld ==
    /\ busy <=> \E t \in Task : Works(t)
    /\ \A t, u \in Task : Works(t) /\ Works(u) => t = u

Count(q, m) == Cardinality({i \in DOMAIN q : q[i] = m})

\* The places a message can be in: channel, pump, either queue, the hand of a task.
Places(m) ==
    Count(channel, m) + Count(nextTurn, m) + Count(nextStep, m)
    + Cardinality({t \in Task : hand[t] = m})
    + (IF pump.msg = m THEN 1 ELSE 0)
    + (IF m \in pump.todo \/ (pump.at = "boot" /\ m \in open) THEN 1 ELSE 0)

\* A message on its way is in exactly one place, on all its ways between channel, gate,
\* queues and turns: it is not lost between two of them and no turn gets it twice.
HeldOnce ==
    \A m \in Message : Places(m) = IF fate[m] \in {"sent", "owed", "late"} THEN 1 ELSE 0

\* A message reaches the model in one form, whatever its way (the comments at
\* strip_steer_marker and process_admitted): in steer mode without its first mark, otherwise
\* as it was sent.  (One with "!!" loses both when it is moved to the next turn.)
SeenAsSent ==
    \A m \in Msg \ (Maint \cup twice) : fate[m] = "seen" =>
        marks[m] = IF mode = "steer" /\ Marks[m] > 0 THEN Marks[m] - 1 ELSE Marks[m]

\* A message that was accepted, and a turn that a crash cut off in a tool call, is taken up.
\* Excused: it was enqueued after the tail had looked (late), deleted by a clear (cleared),
\* turned away when it came back to a full inbox, or the second of two calls of a turn in
\* reject mode (bounced), or there was a crash (crashed).
OwedIsSeen == \A m \in Message : (fate[m] = "owed") ~> (fate[m] # "owed")
===============================================================================
