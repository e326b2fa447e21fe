----------------------------- MODULE Continuation -----------------------------
(***************************************************************************)
(* The agent's side of an asynchronous cluster task                        *)
(* (crates/nemesis-agent/src/loop_continuation.rs).  A turn that delegates *)
(* work leaves a snapshot of its conversation in memory and on disk; when  *)
(* the result arrives, a handler loads the snapshot, merges the result,    *)
(* lets the model finish the turn and persists the reply.  Results may be  *)
(* delivered several times and handled concurrently, handlers may delegate *)
(* again, and the process may crash between any two steps.                 *)
(*                                                                         *)
(* A snapshot is abstracted to the slot of the pending tool call and to    *)
(* whether it carries the session the reply belongs to (home).             *)
(***************************************************************************)
EXTENDS Naturals, Sequences, FiniteSets, Functions

CONSTANTS Task,        \* ids of delegated tasks
          Handler,     \* concurrently running continuation handlers
          Result,      \* results and error reports that arrive for a task
          Slow,        \* tasks whose turn may need more than barrier_timeout to save
          MaxDeliver,  \* bound on the deliveries
          MaxCrash     \* bound on the number of crashes

ASSUME SlowAssumption == Slow \subseteq Task
ASSUME BoundAssumption == MaxDeliver \in Nat /\ MaxCrash \in Nat
ASSUME ResultAssumption == "pending" \notin Result
ASSUME NameAssumption == IsFiniteSet(Handler) /\ "turn" \notin Handler /\ "" \notin Task

VARIABLES
    mem,        \* continuations: the snapshots in memory
    disk,       \* rpc_cache: the snapshots on disk
    handling,   \* the tasks a handler has claimed
    phase,      \* restore_phases; a missing key is "checkpoint"
    turn,       \* turn[t]: how far the turn that delegates t has come
    run,        \* run[h]: what handler h is doing
    replies,    \* replies[t]: the replies in the session history, by tool result
    delivered,  \* delivered[t]: how often a result arrived for t
    crashes,
    \* History
    merged,     \* merged[t]: the first result that was written back to disk
    closed,     \* tasks given up: the model had nothing to say, or the TTL passed
    cutShort    \* cutShort[t]: crashes between persisting a reply and marking it

vars == <<mem, disk, handling, phase, turn, run, replies, delivered, crashes,
          merged, closed, cutShort>>

-------------------------------------------------------------------------------
Pending == "pending"        \* the tool call has no result, or a synthesized one
Slot    == Result \cup {Pending}
None    == [kind |-> "none"]
Torn    == [kind |-> "torn"]

Entry(slot, home, by, ready) ==
    [kind |-> "entry", slot |-> slot, home |-> home, by |-> by, ready |-> ready]
Snapshot(slot, home, final) ==
    [kind |-> "snapshot", slot |-> slot, home |-> home, final |-> final]

Turn == "turn"              \* the writer of an entry that is not a handler

Entries   == {Entry(s, b, w, r) : s \in Slot, b \in BOOLEAN, w \in Handler \cup {Turn}, r \in BOOLEAN}
Snapshots == {Snapshot(s, b, f) : s \in Slot, b \in BOOLEAN, f \in BOOLEAN}

IdleRun == [at |-> "idle", task |-> "", result |-> Pending, home |-> FALSE, nested |-> ""]

\* The turn of t is still on its way to a saved snapshot.
Delegating(t) == turn[t].at \in {"calling", "acked", "inserted", "written"}

Init ==
    /\ mem = [t \in Task |-> None]
    /\ disk = [t \in Task |-> None]
    /\ handling = {}
    /\ phase = [t \in Task |-> "checkpoint"]
    /\ turn = [t \in Task |-> [at |-> "none", home |-> FALSE]]
    /\ run = [h \in Handler |-> IdleRun]
    /\ replies = [t \in Task |-> <<>>]
    /\ delivered = [t \in Task |-> 0]
    /\ crashes = 0
    /\ merged = [t \in Task |-> Pending]
    /\ closed = {}
    /\ cutShort = [t \in Task |-> 0]

-------------------------------------------------------------------------------
(* The turn that delegates a task.                                         *)

TurnAt(t, at) == turn' = [turn EXCEPT ![t].at = at]

\* The placeholder snapshot is written before the request is sent.
Dispatch(t, home) ==
    /\ turn[t].at = "none"
    /\ turn' = [turn EXCEPT ![t] = [at |-> "calling", home |-> home]]
    /\ disk' = [disk EXCEPT ![t] = Snapshot(Pending, FALSE, FALSE)]

UserDispatch(t) ==
    /\ Dispatch(t, TRUE)
    /\ UNCHANGED <<mem, handling, phase, run, replies, delivered, crashes, merged, closed, cutShort>>

Accepted(t) ==
    /\ turn[t].at = "calling"
    /\ TurnAt(t, "acked")
    /\ UNCHANGED <<mem, disk, handling, phase, run, replies, delivered, crashes, merged, closed, cutShort>>

\* The peer is offline or refuses: the task does not exist, the placeholder goes.
Refused(t) ==
    /\ turn[t].at = "calling" /\ delivered[t] = 0
    /\ TurnAt(t, "refused")
    /\ disk' = [disk EXCEPT ![t] = None]
    /\ UNCHANGED <<mem, handling, phase, run, replies, delivered, crashes, merged, closed, cutShort>>

\* Any other RPC failure: the peer may have the task, the placeholder stays.
RequestLost(t) ==
    /\ turn[t].at = "calling"
    /\ TurnAt(t, "lost")
    /\ UNCHANGED <<mem, disk, handling, phase, run, replies, delivered, crashes, merged, closed, cutShort>>

\* save_continuation_with_images in three steps: memory (not ready), disk, ready.
SaveInsert(t) ==
    /\ turn[t].at = "acked"
    /\ TurnAt(t, "inserted")
    /\ mem' = [mem EXCEPT ![t] = Entry(Pending, turn[t].home, Turn, FALSE)]
    /\ UNCHANGED <<disk, handling, phase, run, replies, delivered, crashes, merged, closed, cutShort>>

SaveWrite(t) ==
    /\ turn[t].at = "inserted"
    /\ TurnAt(t, "written")
    /\ disk' = [disk EXCEPT ![t] = Snapshot(Pending, turn[t].home, FALSE)]
    /\ UNCHANGED <<mem, handling, phase, run, replies, delivered, crashes, merged, closed, cutShort>>

\* The flag belongs to the entry inserted, which may have been replaced since.
MarkReady(t, writer) ==
    mem' = IF mem[t].kind = "entry" /\ mem[t].by = writer
           THEN [mem EXCEPT ![t] = Entry(@.slot, @.home, @.by, TRUE)] ELSE mem

SaveReady(t) ==
    /\ turn[t].at = "written"
    /\ TurnAt(t, "saved")
    /\ MarkReady(t, Turn)
    /\ UNCHANGED <<disk, handling, phase, run, replies, delivered, crashes, merged, closed, cutShort>>

-------------------------------------------------------------------------------
(* handle_cluster_continuation.                                            *)

GoTo(h, at) == run' = [run EXCEPT ![h].at = at]

\* Step 0: claim the task; a delivery that finds it claimed is dropped.
Claim(h, t, r) ==
    \/ /\ t \notin handling
       /\ run' = [run EXCEPT ![h] = [IdleRun EXCEPT !.at = "gate", !.task = t, !.result = r]]
       /\ handling' = handling \cup {t}
    \/ /\ t \in handling
       /\ UNCHANGED <<run, handling>>

\* A result arrives on the bus once the task may be known to the peer.
Deliver(h, t, r) ==
    /\ run[h].at = "idle"
    /\ turn[t].at \notin {"none", "refused"}
    /\ FoldFunction(LAMBDA m, n : m + n, 0, delivered) < MaxDeliver
    /\ delivered' = [delivered EXCEPT ![t] = @ + 1]
    /\ Claim(h, t, r)
    /\ UNCHANGED <<mem, disk, phase, turn, replies, crashes, merged, closed, cutShort>>

\* A plausible bug: a marked snapshot is handled again.
GateOpen(h) ==
    /\ run[h].at = "gate"
    /\ GoTo(h, "load")
    /\ UNCHANGED <<mem, disk, handling, phase, turn, replies, delivered, crashes, merged, closed, cutShort>>

\* Step 0b: a snapshot marked final_persisted only remains to be reclaimed.
Gate(h) ==
    LET file == disk[run[h].task] IN
    /\ run[h].at = "gate"
    /\ GoTo(h, IF file.kind = "snapshot" /\ file.final THEN "release" ELSE "load")
    /\ UNCHANGED <<mem, disk, handling, phase, turn, replies, delivered, crashes, merged, closed, cutShort>>

\* A plausible bug: the newest result always wins.
MergeNewest(slot, result) == result

\* merge_real_tool_result: only a slot without a real result takes the new one.
Merge(slot, result) == IF slot = Pending THEN result ELSE slot

Loaded(h, snapshot) ==
    run' = [run EXCEPT ![h].at = "confirm", ![h].home = snapshot.home,
                       ![h].result = Merge(snapshot.slot, @)]

\* Step 1: a ready entry in memory.
LoadMemory(h) ==
    LET entry == mem[run[h].task] IN
    /\ run[h].at = "load"
    /\ entry.kind = "entry" /\ entry.ready
    /\ Loaded(h, entry)
    /\ UNCHANGED <<mem, disk, handling, phase, turn, replies, delivered, crashes, merged, closed, cutShort>>

\* Leave without handling: release_handling.
Leave(h) ==
    /\ run' = [run EXCEPT ![h] = IdleRun]
    /\ handling' = handling \ {run[h].task}

\* A plausible bug: the file is read at once, although the turn is still saving.
LoadDiskWithoutBarrier(h) ==
    LET t == run[h].task IN
    /\ run[h].at = "load"
    /\ \/ /\ disk[t].kind = "snapshot"
          /\ Loaded(h, disk[t])
          /\ UNCHANGED handling
       \/ /\ disk[t].kind # "snapshot"
          /\ Leave(h)
    /\ UNCHANGED <<mem, disk, phase, turn, replies, delivered, crashes, merged, closed, cutShort>>

\* Step 1 after barrier_timeout without a ready entry: the file, if it can be read.
LoadDisk(h) ==
    LET t == run[h].task IN
    /\ run[h].at = "load"
    /\ ~(mem[t].kind = "entry" /\ mem[t].ready)
    /\ t \in Slow \/ ~Delegating(t)
    /\ \/ /\ disk[t].kind = "snapshot"
          /\ Loaded(h, disk[t])
          /\ UNCHANGED handling
       \/ /\ disk[t].kind # "snapshot"
          /\ Leave(h)
    /\ UNCHANGED <<mem, disk, phase, turn, replies, delivered, crashes, merged, closed, cutShort>>

\* Step 1b: the restore phase machine; Confirmed -> Confirmed is refused.
Confirm(h) ==
    LET t == run[h].task IN
    /\ run[h].at = "confirm"
    /\ \/ /\ phase[t] \in {"checkpoint", "restored"}
          /\ phase' = [phase EXCEPT ![t] = "confirmed"]
          /\ GoTo(h, "insert")
          /\ UNCHANGED handling
       \/ /\ phase[t] = "confirmed"
          /\ Leave(h)
          /\ UNCHANGED phase
    /\ UNCHANGED <<mem, disk, turn, replies, delivered, crashes, merged, closed, cutShort>>

\* A plausible bug: the snapshot is consumed as soon as it is loaded.
WriteBackInsertConsuming(h) ==
    /\ run[h].at = "insert"
    /\ GoTo(h, "model")
    /\ mem' = [mem EXCEPT ![run[h].task] = None]
    /\ disk' = [disk EXCEPT ![run[h].task] = None]
    /\ UNCHANGED <<handling, phase, turn, replies, delivered, crashes, merged, closed, cutShort>>

\* Step 4: the merged snapshot is written back: memory, disk, ready.
WriteBackInsert(h) ==
    /\ run[h].at = "insert"
    /\ GoTo(h, "write")
    /\ mem' = [mem EXCEPT ![run[h].task] = Entry(run[h].result, run[h].home, h, FALSE)]
    /\ UNCHANGED <<disk, handling, phase, turn, replies, delivered, crashes, merged, closed, cutShort>>

WriteBackWrite(h) ==
    LET t == run[h].task IN
    /\ run[h].at = "write"
    /\ GoTo(h, "ready")
    /\ disk' = [disk EXCEPT ![t] = Snapshot(run[h].result, run[h].home, FALSE)]
    /\ merged' = IF merged[t] = Pending THEN [merged EXCEPT ![t] = run[h].result] ELSE merged
    /\ UNCHANGED <<mem, handling, phase, turn, replies, delivered, crashes, closed, cutShort>>

WriteBackReady(h) ==
    /\ run[h].at = "ready"
    /\ GoTo(h, "model")
    /\ MarkReady(run[h].task, h)
    /\ UNCHANGED <<disk, handling, phase, turn, replies, delivered, crashes, merged, closed, cutShort>>

\* Step 5: the model's tool calls may delegate once more; the handler waits for
\* the nested request and its snapshot.
Delegate(h, u) ==
    /\ run[h].at = "model"
    /\ Dispatch(u, run[h].home)
    /\ run' = [run EXCEPT ![h].at = "nested", ![h].nested = u]
    /\ UNCHANGED <<mem, handling, phase, replies, delivered, crashes, merged, closed, cutShort>>

Resume(h) ==
    /\ run[h].at = "nested" /\ ~Delegating(run[h].nested)
    /\ run' = [run EXCEPT ![h].at = "model", ![h].nested = ""]
    /\ UNCHANGED <<mem, disk, handling, phase, turn, replies, delivered, crashes, merged, closed, cutShort>>

\* The model answers, or a provider error stands for the answer.
Conclude(h) ==
    /\ run[h].at = "model"
    /\ GoTo(h, IF run[h].home THEN "persist" ELSE "send")
    /\ UNCHANGED <<mem, disk, handling, phase, turn, replies, delivered, crashes, merged, closed, cutShort>>

\* Empty answer, or max_iterations used up: there is nothing to send.
ConcludeEmpty(h) ==
    /\ run[h].at = "model"
    /\ GoTo(h, "release")
    /\ closed' = closed \cup {run[h].task}
    /\ UNCHANGED <<mem, disk, handling, phase, turn, replies, delivered, crashes, merged, cutShort>>

\* Step 6: persist_final_reply, then final_persisted, then the outbound message.
Persist(h) ==
    /\ run[h].at = "persist"
    /\ GoTo(h, "mark")
    /\ replies' = [replies EXCEPT ![run[h].task] = Append(@, run[h].result)]
    /\ UNCHANGED <<mem, disk, handling, phase, turn, delivered, crashes, merged, closed, cutShort>>

Mark(h) ==
    LET t == run[h].task IN
    /\ run[h].at = "mark"
    /\ GoTo(h, "send")
    /\ disk' = IF disk[t].kind = "snapshot"
               THEN [disk EXCEPT ![t] = Snapshot(@.slot, @.home, TRUE)] ELSE disk
    /\ UNCHANGED <<mem, handling, phase, turn, replies, delivered, crashes, merged, closed, cutShort>>

Send(h) ==
    /\ run[h].at = "send"
    /\ GoTo(h, "release")
    /\ UNCHANGED <<mem, disk, handling, phase, turn, replies, delivered, crashes, merged, closed, cutShort>>

\* Step 7, finish_handling: release the claim, then memory, disk and phase.
Release(h) ==
    /\ run[h].at = "release"
    /\ GoTo(h, "forget")
    /\ handling' = handling \ {run[h].task}
    /\ UNCHANGED <<mem, disk, phase, turn, replies, delivered, crashes, merged, closed, cutShort>>

Forget(h) ==
    /\ run[h].at = "forget"
    /\ GoTo(h, "erase")
    /\ mem' = [mem EXCEPT ![run[h].task] = None]
    /\ UNCHANGED <<disk, handling, phase, turn, replies, delivered, crashes, merged, closed, cutShort>>

Erase(h) ==
    /\ run[h].at = "erase"
    /\ GoTo(h, "clear")
    /\ disk' = [disk EXCEPT ![run[h].task] = None]
    /\ UNCHANGED <<mem, handling, phase, turn, replies, delivered, crashes, merged, closed, cutShort>>

ClearPhase(h) ==
    /\ run[h].at = "clear"
    /\ run' = [run EXCEPT ![h] = IdleRun]
    /\ phase' = [phase EXCEPT ![run[h].task] = "checkpoint"]
    /\ UNCHANGED <<mem, disk, handling, turn, replies, delivered, crashes, merged, closed, cutShort>>

-------------------------------------------------------------------------------
(* The environment.                                                        *)

\* cleanup_old_snapshots: seven days without a write.
CleanupOld(t) ==
    /\ disk[t].kind # "none" /\ ~Delegating(t)
    /\ \A h \in Handler : run[h].task # t
    /\ mem' = [mem EXCEPT ![t] = None]
    /\ disk' = [disk EXCEPT ![t] = None]
    /\ closed' = closed \cup {t}
    /\ UNCHANGED <<handling, phase, turn, run, replies, delivered, crashes, merged, cutShort>>

\* A thread is inside ContinuationStore::save for t.
Writing(t) ==
    \/ turn[t].at = "inserted"
    \/ \E h \in Handler : run[h].task = t /\ run[h].at \in {"write", "mark"}

\* recover_to_manager: every readable snapshot is back in memory, ready.
Recovered(files) ==
    [t \in Task |-> IF files[t].kind = "snapshot"
                    THEN Entry(files[t].slot, files[t].home, Turn, TRUE) ELSE None]

\* The process dies and is started again: only the files survive, and a file
\* that is being written may be cut off.
Crash ==
    /\ crashes < MaxCrash
    /\ crashes' = crashes + 1
    /\ \E cut \in SUBSET {t \in Task : Writing(t)} :
          disk' = [t \in Task |-> IF t \in cut THEN Torn ELSE disk[t]]
    /\ mem' = Recovered(disk')
    /\ phase' = [t \in Task |-> IF disk'[t].kind = "snapshot" THEN "restored" ELSE "checkpoint"]
    /\ handling' = {}
    /\ turn' = [t \in Task |->
                   IF ~Delegating(t) THEN turn[t]
                   ELSE [turn[t] EXCEPT !.at = IF @ = "written" THEN "saved" ELSE "crashed"]]
    /\ run' = [h \in Handler |-> IdleRun]
    /\ cutShort' = [t \in Task |->
                       cutShort[t] + Cardinality({h \in Handler : run[h].task = t /\ run[h].at = "mark"})]
    /\ UNCHANGED <<replies, delivered, merged, closed>>

-------------------------------------------------------------------------------
TurnStep(t) ==
    \/ Accepted(t)
    \/ Refused(t)
    \/ RequestLost(t)
    \/ SaveInsert(t)
    \/ SaveWrite(t)
    \/ SaveReady(t)

HandlerStep(h) ==
    \/ Gate(h) \/ LoadMemory(h) \/ LoadDisk(h) \/ Confirm(h)
    \/ WriteBackInsert(h) \/ WriteBackWrite(h) \/ WriteBackReady(h)
    \/ \E u \in Task : Delegate(h, u)
    \/ Resume(h) \/ Conclude(h) \/ ConcludeEmpty(h)
    \/ Persist(h) \/ Mark(h) \/ Send(h)
    \/ Release(h) \/ Forget(h) \/ Erase(h) \/ ClearPhase(h)

Next ==
    \/ \E t \in Task : UserDispatch(t) \/ TurnStep(t) \/ CleanupOld(t)
    \/ \E h \in Handler :
          \/ HandlerStep(h)
          \/ \E t \in Task, r \in Result : Deliver(h, t, r)
    \/ Crash

Spec == Init /\ [][Next]_vars

\* Requests return (the RPC has a timeout) and started handlers keep running.
Fairness ==
    /\ \A t \in Task : WF_vars(TurnStep(t))
    /\ \A h \in Handler : WF_vars(HandlerStep(h))

FairSpec == Spec /\ Fairness

-------------------------------------------------------------------------------
(* Properties.                                                             *)

RunAt == {"idle", "gate", "load", "confirm", "insert", "write", "ready", "model", "nested",
          "persist", "mark", "send", "release", "forget", "erase", "clear"}
RunType == [at : RunAt, task : Task \cup {""}, result : Slot, home : BOOLEAN,
            nested : Task \cup {""}]
TurnStage == {"none", "calling", "acked", "refused", "lost", "inserted", "written", "saved", "crashed"}

Types ==
    /\ mem \in [Task -> Entries \cup {None}]
    /\ disk \in [Task -> Snapshots \cup {None, Torn}]
    /\ handling \subseteq Task
    /\ phase \in [Task -> {"checkpoint", "restored", "confirmed"}]
    /\ turn \in [Task -> [at : TurnStage, home : BOOLEAN]]
    /\ run \in [Handler -> RunType]
    /\ replies \in [Task -> Seq(Result)]
    /\ delivered \in [Task -> Nat]
    /\ crashes \in 0..MaxCrash
    /\ merged \in [Task -> Slot]
    /\ closed \subseteq Task
    /\ cutShort \in [Task -> Nat]

\* Every variable has its type, and a claim belongs to a handler at work on it
\* (claim_handling is not leaked by a crash or by an early return).
TypeOK ==
    /\ Types
    /\ \A t \in handling : \E h \in Handler : run[h].task = t

\* A task's reply is appended to the session once, however often its result is
\* delivered and wherever the process crashes; the one exception is the window
\* between persist_final_reply and the final_persisted mark that the code names.
ReplyOnce ==
    \A t \in Task : Len(replies[t]) <= 1 + cutShort[t]

\* The first result that was written back is the one every reply is built on: a
\* later "not found" of the recovery poll never replaces it, also not after a crash.
\* (A save slower than the barrier may land on top of the write-back.)
FirstResultWins ==
    \A t \in Task \ Slow :
        /\ \A i \in DOMAIN replies[t] : replies[t][i] = merged[t]
        /\ disk[t].kind = "snapshot" /\ merged[t] # Pending => disk[t].slot = merged[t]

\* From the moment its turn saved it until its reply is in the session history, a
\* snapshot is on disk with its session, so that recover_to_manager finds it after
\* a crash at any point; only a crash inside the in-place write of
\* ContinuationStore::save leaves a file that cannot be parsed.
SnapshotSurvives ==
    \A t \in Task \ Slow :
        (turn[t].at \in {"written", "saved"} /\ turn[t].home /\ replies[t] = <<>> /\ t \notin closed)
            => \/ disk[t].kind = "snapshot" /\ disk[t].home
               \/ disk[t] = Torn /\ crashes > 0

\* Without a crash, a delivered result of a saved turn ends in a reply, unless
\* the model has nothing to say.
DeliveredIsAnswered ==
    [](crashes = 0) =>
        \A t \in Task \ Slow :
            (delivered[t] > 0 /\ turn[t].at = "saved" /\ turn[t].home)
                ~> (replies[t] # <<>> \/ t \in closed)
===============================================================================
