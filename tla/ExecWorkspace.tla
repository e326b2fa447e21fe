----------------------------- MODULE ExecWorkspace -----------------------------
(***************************************************************************)
(* The work copy of a project in which a worker executes a board task, and *)
(* the change-set that is made of it at the end                            *)
(* (crates/nemesis-cluster/src/exec_workspace.rs, changeset.rs and the     *)
(* enqueueing half of outbox.rs).  The hook at the end of the task, the    *)
(* sweep at startup and every half hour, and a pull by the master work on  *)
(* the same directories without a lock, and the worker may crash.          *)
(*                                                                         *)
(* One task is modelled: every directory is keyed by the task id, and the  *)
(* sweep handles one directory after the other.  Every access to a         *)
(* directory that another thread may change in between is a step.          *)
(***************************************************************************)
EXTENDS Naturals, FiniteSets

CONSTANTS File,        \* paths in the project
          Debug,       \* the ones below _debug/
          MaxEdit,     \* bound on the writes of the agent
          MaxMishap    \* bound on pulls, failures, crashes, unreadable files and meetings of the
                       \* two finishers

ASSUME DebugAssumption == Debug \subseteq File
ASSUME BoundAssumption == {MaxEdit, MaxMishap} \subseteq Nat

VARIABLES
    base,    \* the files of the baseline that the master has pushed
    run,     \* how far the task is
    stored,  \* tasks.json has the row, as Pending or WaitingRemote
    mark,    \* the result store has the running placeholder
    log,     \* cluster_logs has a record of the task
    copy,    \* cluster/exec/<task>, as far as a finisher sees it
    cs,      \* cluster/exec/.cs-<task>
    entry,   \* cluster/outbox/<task>
    actor,   \* actor[a]: what thread a is doing
    boot,    \* how far the start of the process is
    edits, mishaps,
    \* History
    made,    \* the files as the task has left them
    sent,    \* the payloads that the master has received
    events   \* what has happened that the code does not provide for

task    == <<run, stored, mark, log, made, edits>>
disk    == <<copy, cs, entry>>
bounds  == <<edits, mishaps>>
vars    == <<base, run, stored, mark, log, copy, cs, entry, actor, boot, bounds, made, sent, events>>

-------------------------------------------------------------------------------
Actor == {"hook", "sweep", "pull"}

\* A file is absent, as in the baseline, or has another content.
Tree == [File -> {"none", "old", "new"}]
Baseline == [f \in File |-> IF f \in base THEN "old" ELSE "none"]

\* The work copy counts as one only with its sidecar .baseline.json.
Copy == [sidecar : BOOLEAN, tree : Tree]
NoCopy == [sidecar |-> FALSE, tree |-> [f \in File |-> "none"]]

\* A change-set: what becomes of each file, and the files declared as skipped.
Changeset == [does : [File -> {"keep", "old", "new", "delete"}], skipped : SUBSET File]
NoSet == [does |-> [f \in File |-> "keep"], skipped |-> {}]

\* A directory is whole once its manifest is written, which comes last: entry.json in
\* the outbox, changeset.json in a change-set.  The payload NoSet is the record alone.
Dir   == [is : {"absent", "partial", "whole"}, holds : Changeset]
NoDir == [is |-> "absent", holds |-> NoSet]
NewDir == [is |-> "partial", holds |-> NoSet]

\* Where a thread is, the change-set it has in hand, and whether it is to remove the copy.
Stage == {"idle", "ask", "sidecar", "read", "diff", "write", "manifest", "enqueue",
          "clear", "copy", "entry", "removeSet", "remove", "removeRest"}
Thread == [at : Stage, set : Changeset, clean : BOOLEAN]

Idle == [at |-> "idle", set |-> NoSet, clean |-> FALSE]
At(a, at) == actor' = [actor EXCEPT ![a].at = at]
Return(a) == actor' = [actor EXCEPT ![a] = Idle]
Carries(a) == actor[a].set # NoSet

Active == run \in {"marked", "unpacked", "Pending", "Running", "WaitingRemote", "stored"}

Init ==
    /\ base \in SUBSET File
    /\ run = "none" /\ stored = FALSE /\ mark = FALSE /\ log = FALSE
    /\ copy = NoCopy
    /\ cs = NoDir /\ entry = NoDir
    /\ actor = [a \in Actor |-> Idle]
    /\ boot = "exec"
    /\ edits = 0 /\ mishaps = 0
    /\ made = Baseline
    /\ sent = {}
    /\ events = {}

-------------------------------------------------------------------------------
(* The task: PeerChatHandler::handle and cluster_agent.                    *)

\* A plausible bug: the placeholder is forgotten.
HandleUnmarked ==
    /\ run = "none"
    /\ run' = "marked"
    /\ UNCHANGED <<base, stored, mark, log, disk, actor, boot, bounds, made, sent, events>>

\* set_running comes first; the handler serves requests before the start is over.
Handle ==
    /\ run = "none"
    /\ run' = "marked"
    /\ mark' = TRUE
    /\ UNCHANGED <<base, stored, log, disk, actor, boot, bounds, made, sent, events>>

\* unpack_baseline: the copy is made anew and gets its sidecar last; on an error the
\* task goes on without one.
Unpack ==
    /\ run = "marked"
    /\ run' = "unpacked"
    /\ \/ /\ copy' = [sidecar |-> TRUE, tree |-> Baseline]
          /\ UNCHANGED <<mishaps, events>>
       \/ /\ mishaps < MaxMishap
          /\ mishaps' = mishaps + 1
          /\ copy' = NoCopy
          /\ events' = events \cup {"unpack"}
    /\ UNCHANGED <<base, stored, mark, log, cs, entry, actor, boot, edits, made, sent>>

\* create_task and submit; if the lane is full, the placeholder is taken back.
Submit ==
    /\ run = "unpacked"
    /\ \/ run' = "Pending" /\ UNCHANGED mark
       \/ run' = "over" /\ mark' = FALSE
    /\ UNCHANGED <<base, stored, log, disk, actor, boot, bounds, made, sent, events>>

\* execute_new_task or execute_resume: the record is started.
Start ==
    /\ run = "Pending" /\ boot = "up"
    /\ run' = "Running"
    /\ log' = TRUE
    /\ UNCHANGED <<base, stored, mark, disk, actor, boot, bounds, made, sent, events>>

\* A file tool of the agent writes or deletes; without sidecar its path is elsewhere.
Edit ==
    /\ run = "Running" /\ edits < MaxEdit
    /\ edits' = edits + 1
    /\ \E f \in File, v \in {"none", "new"} :
         /\ made[f] # v
         /\ made' = [made EXCEPT ![f] = v]
         /\ copy' = IF copy.sidecar THEN [sidecar |-> TRUE, tree |-> [copy.tree EXCEPT ![f] = v]] ELSE copy
    /\ UNCHANGED <<base, run, stored, mark, log, cs, entry, actor, boot, mishaps, sent, events>>

\* save_async_state: the task waits for a child, and its row is on disk.
Suspend ==
    /\ run = "Running"
    /\ run' = "WaitingRemote"
    /\ stored' = TRUE
    /\ UNCHANGED <<base, mark, log, disk, actor, boot, bounds, made, sent, events>>

Resume ==
    /\ run = "WaitingRemote"
    /\ run' = "Pending"
    /\ UNCHANGED <<base, stored, mark, log, disk, actor, boot, bounds, made, sent, events>>

\* The change of another task has tasks.json written; rows that are Running are not restored.
WriteIndex ==
    /\ run \in {"Pending", "Running", "WaitingRemote", "reporting"}
    /\ stored' = (run \in {"Pending", "WaitingRemote"})
    /\ UNCHANGED <<base, run, mark, log, disk, actor, boot, bounds, made, sent, events>>

\* One finisher starts while the other, b, may be at work.
Meets(b) ==
    IF actor[b].at = "idle" THEN UNCHANGED <<mishaps, events>>
    ELSE /\ mishaps < MaxMishap
         /\ mishaps' = mishaps + 1
         /\ events' = events \cup {"overlap"}

\* send_callback_or_persist: the placeholder goes, then the hook runs.  A task over
\* its budget, or one that was cancelled in the queue, gets here without being started.
Report ==
    /\ run \in {"Running", "Pending"} /\ boot = "up"
    /\ run' = "reporting"
    /\ mark' = FALSE
    /\ At("hook", "sidecar")
    /\ Meets("sweep")
    /\ UNCHANGED <<base, stored, log, disk, boot, edits, made, sent>>

\* complete_task, after the hook.
Complete ==
    /\ run = "reporting" /\ actor["hook"].at = "idle"
    /\ run' = "over"
    /\ stored' = FALSE
    /\ UNCHANGED <<base, mark, log, disk, actor, boot, bounds, made, sent, events>>

\* cancel_task has marked the row of a task that is queued, waits or is about to wait,
\* and remove_terminal_tasks or inject_callback takes it from the list and from disk:
\* no hook runs, and the placeholder stays.
Forget ==
    /\ run \in {"Pending", "Running", "WaitingRemote"}
    /\ run' = "over"
    /\ stored' = FALSE
    /\ events' = IF mark THEN events \cup {"forgotten"} ELSE events
    /\ UNCHANGED <<base, mark, log, disk, actor, boot, bounds, made, sent>>

-------------------------------------------------------------------------------
(* finish_task_exec, run by the hook and by the sweep.                     *)

\* Without a sidecar there is no work copy: the hook queues the record alone.
FindSidecar(a) ==
    /\ actor[a].at = "sidecar"
    /\ IF copy.sidecar THEN At(a, "read") ELSE IF a = "hook" THEN At(a, "enqueue") ELSE Return(a)
    /\ UNCHANGED <<base, task, disk, boot, mishaps, sent, events>>

\* Leftover processes have been killed meanwhile.
ReadSidecar(a) ==
    /\ actor[a].at = "read"
    /\ IF copy.sidecar THEN At(a, "diff") ELSE Return(a)
    /\ UNCHANGED <<base, task, disk, boot, mishaps, sent, events>>

\* A plausible bug: _debug/ is pruned from the scan and left in the sidecar's list.
DiffPruned(tree, locked, late) ==
    LET current == {f \in File \ (Debug \cup locked) : tree[f] # "none"} IN
    [does |-> [f \in File |->
                 IF f \in current THEN IF tree[f] = Baseline[f] \/ f \in late THEN "keep" ELSE tree[f]
                                  ELSE IF f \in base THEN "delete" ELSE "keep"],
     skipped |-> locked \cup late]

\* diff_tree: locked files cannot be hashed by diff_walk, late ones not be read afterwards.
DiffTree(tree, locked, late) ==
    LET current == {f \in File \ (Debug \cup locked) : tree[f] # "none"} IN
    [does |-> [f \in File |->
                 IF f \in current THEN IF tree[f] = Baseline[f] \/ f \in late THEN "keep" ELSE tree[f]
                                  ELSE IF f \in base \ Debug THEN "delete" ELSE "keep"],
     skipped |-> locked \cup late]

\* The whole tree is compared with the sidecar's list.  Without a difference the
\* record is queued alone, whatever was skipped.
Diff(a) ==
    /\ actor[a].at = "diff"
    /\ \E locked \in SUBSET {f \in File \ Debug : copy.tree[f] # "none"} :
       \E late \in SUBSET {f \in File \ (Debug \cup locked) : copy.tree[f] \notin {"none", Baseline[f]}} :
         LET set == DiffTree(copy.tree, locked, late) IN
         /\ mishaps' = IF set.skipped = {} THEN mishaps ELSE mishaps + 1
         /\ mishaps' <= MaxMishap
         /\ IF set.does = NoSet.does
            THEN /\ actor' = [actor EXCEPT ![a] = [at |-> "enqueue", set |-> NoSet, clean |-> TRUE]]
                 /\ events' = IF set.skipped = {} THEN events ELSE events \cup {"skipped"}
            ELSE /\ actor' = [actor EXCEPT ![a] = [at |-> "write", set |-> set, clean |-> TRUE]]
                 /\ UNCHANGED events
    /\ UNCHANGED <<base, task, disk, boot, sent>>

\* write_changeset: the directory is made anew and filled ...
WriteFiles(a) ==
    /\ actor[a].at = "write"
    /\ cs' = NewDir
    /\ At(a, "manifest")
    /\ UNCHANGED <<base, task, copy, entry, boot, mishaps, sent, events>>

\* ... and gets its manifest.
WriteManifest(a) ==
    /\ actor[a].at = "manifest"
    /\ cs' = [is |-> "whole", holds |-> actor[a].set]
    /\ At(a, "enqueue")
    /\ UNCHANGED <<base, task, copy, entry, boot, mishaps, sent, events>>

-------------------------------------------------------------------------------
(* TransferOutbox::enqueue_with_changeset, run by all three.               *)

\* What follows a success: change-set and work copy are removed.
AfterEnqueue(a) ==
    IF Carries(a) THEN At(a, "removeSet") ELSE IF actor[a].clean THEN At(a, "remove") ELSE Return(a)

\* An incomplete change-set is refused, an entry is left alone, and without a record
\* nothing is queued.
CheckEntry(a) ==
    /\ actor[a].at = "enqueue"
    /\ IF Carries(a) /\ cs.is # "whole" THEN Return(a)
       ELSE IF entry.is = "whole" THEN AfterEnqueue(a)
       ELSE IF ~log THEN Return(a) ELSE At(a, "clear")
    /\ UNCHANGED <<base, task, disk, boot, mishaps, sent, events>>

ClearEntry(a) ==
    /\ actor[a].at = "clear"
    /\ entry' = NewDir
    /\ At(a, "copy")
    /\ UNCHANGED <<base, task, copy, cs, boot, mishaps, sent, events>>

\* The record is copied, and the change-set: one that another thread is writing again
\* has no manifest yet, which makes it the record alone to the master.
CopyPayload(a) ==
    /\ actor[a].at = "copy"
    /\ IF Carries(a) /\ cs.is = "absent"
       THEN Return(a) /\ UNCHANGED entry
       ELSE /\ entry' = [NewDir EXCEPT !.holds = IF Carries(a) THEN cs.holds ELSE @]
            /\ At(a, "entry")
    /\ UNCHANGED <<base, task, copy, cs, boot, mishaps, sent, events>>

WriteEntry(a) ==
    /\ actor[a].at = "entry"
    /\ entry' = [entry EXCEPT !.is = "whole"]
    /\ AfterEnqueue(a)
    /\ UNCHANGED <<base, task, copy, cs, boot, mishaps, sent, events>>

RemoveSet(a) ==
    /\ actor[a].at = "removeSet"
    /\ cs' = NoDir
    /\ At(a, "remove")
    /\ UNCHANGED <<base, task, copy, entry, boot, mishaps, sent, events>>

\* remove_dir_all, in the order of the directory: if the sidecar is not the first to
\* go, the copy is there with a part of its files for a moment ...
RemoveCopy(a) ==
    /\ actor[a].at = "remove"
    /\ \/ copy' = NoCopy /\ Return(a)
       \/ /\ copy.sidecar
          /\ \E gone \in SUBSET {f \in File : copy.tree[f] # "none"} \ {{}} :
               copy' = [copy EXCEPT !.tree = [f \in File |-> IF f \in gone THEN "none" ELSE @[f]]]
          /\ At(a, "removeRest")
    /\ UNCHANGED <<base, task, cs, entry, boot, mishaps, sent, events>>

\* ... or for longer, if a file cannot be removed.
RemoveRest(a) ==
    /\ actor[a].at = "removeRest"
    /\ Return(a)
    /\ \/ copy' = NoCopy /\ UNCHANGED <<mishaps, events>>
       \/ /\ mishaps < MaxMishap
          /\ mishaps' = mishaps + 1
          /\ events' = events \cup {"residue"}
          /\ UNCHANGED copy
    /\ UNCHANGED <<base, task, cs, entry, boot, sent>>

\* A plausible bug: the work copy is removed after a failure, too.
FailAndRemove(a) ==
    /\ actor[a].at \in {"write", "manifest", "clear", "copy", "entry"}
    /\ mishaps < MaxMishap
    /\ mishaps' = mishaps + 1
    /\ At(a, "remove")
    /\ UNCHANGED <<base, task, disk, boot, sent, events>>

\* A disk operation fails: everything stays as it is.
Fail(a) ==
    /\ actor[a].at \in {"write", "manifest", "clear", "copy", "entry"}
    /\ mishaps < MaxMishap
    /\ mishaps' = mishaps + 1
    /\ Return(a)
    /\ UNCHANGED <<base, task, disk, boot, sent, events>>

-------------------------------------------------------------------------------
(* The sweeps, the pull and the push.                                      *)

\* A plausible bug: a copy whose change-set was left behind is passed over.
SweepUntouched ==
    /\ boot = "up" /\ actor["sweep"].at = "idle"
    /\ copy.sidecar /\ cs = NoDir
    /\ At("sweep", "ask")
    /\ UNCHANGED <<base, task, disk, boot, mishaps, sent, events>>

\* spawn_periodic_residual_sweep, every half hour: lists the copies with a sidecar ...
PeriodicSweep ==
    /\ boot = "up" /\ actor["sweep"].at = "idle"
    /\ copy.sidecar
    /\ At("sweep", "ask")
    /\ UNCHANGED <<base, task, disk, boot, mishaps, sent, events>>

\* ... and skips the ones whose task is marked as running.
SkipRunning ==
    /\ actor["sweep"].at = "ask"
    /\ IF mark THEN Return("sweep") /\ UNCHANGED <<mishaps, events>>
               ELSE At("sweep", "sidecar") /\ Meets("hook")
    /\ UNCHANGED <<base, task, disk, boot, sent>>

\* A payload without the change-set is about to be queued while the copy waits.
RecordAlone == IF copy.sidecar THEN events \cup {"record"} ELSE events

\* request_pull: the dispatch is over for the master, answered or timed out, and it
\* has no record of it.
Pull ==
    /\ mishaps < MaxMishap /\ actor["pull"].at = "idle"
    /\ log /\ sent = {}
    /\ mishaps' = mishaps + 1
    /\ At("pull", "enqueue")
    /\ events' = RecordAlone
    /\ UNCHANGED <<base, task, disk, boot, sent>>

\* The push loop (see Transfer): delivered entries are deleted.
Push ==
    /\ \/ boot = "up"
       \/ boot = "tasks" /\ actor["sweep"].at = "idle"
    /\ entry.is = "whole"
    /\ sent' = sent \cup {entry.holds}
    /\ entry' = NoDir
    /\ UNCHANGED <<base, task, copy, cs, actor, boot, mishaps, events>>

-------------------------------------------------------------------------------
(* Crash and start.                                                        *)

\* load_from_disk drops the placeholder; the row is restored if it was on disk.
Crash ==
    /\ mishaps < MaxMishap
    /\ mishaps' = mishaps + 1
    /\ run' = IF run = "none" THEN run ELSE IF stored THEN "stored" ELSE "over"
    /\ mark' = FALSE
    /\ actor' = [a \in Actor |-> Idle]
    /\ boot' = "exec"
    /\ events' = events
         \cup (IF \E a \in Actor : actor[a].at = "removeRest" THEN {"residue"} ELSE {})
         \cup (IF run = "reporting" /\ stored THEN {"again"} ELSE {})
    /\ UNCHANGED <<base, stored, log, disk, edits, made, sent>>

\* init_cluster: the sweep of work copies, which takes no task for active ...
StartupSweep ==
    /\ boot = "exec"
    /\ boot' = "records"
    /\ IF copy.sidecar THEN At("sweep", "sidecar") ELSE UNCHANGED actor
    /\ events' = IF copy.sidecar /\ Active THEN events \cup {"startup"} ELSE events
    /\ UNCHANGED <<base, task, disk, mishaps, sent>>

\* ... then sweep_startup, which queues records that have no entry ...
StartupRecords ==
    /\ boot = "records" /\ actor["sweep"].at = "idle"
    /\ boot' = "tasks"
    /\ IF log /\ entry.is # "whole" THEN At("sweep", "enqueue") /\ events' = RecordAlone
                              ELSE UNCHANGED <<actor, events>>
    /\ UNCHANGED <<base, task, disk, mishaps, sent>>

\* ... and later first_start, which queues the stored tasks again.
FirstStart ==
    /\ boot = "tasks" /\ actor["sweep"].at = "idle"
    /\ boot' = "up"
    /\ run' = IF run = "stored" THEN "Pending" ELSE run
    /\ UNCHANGED <<base, stored, mark, log, disk, actor, bounds, made, sent, events>>

-------------------------------------------------------------------------------
TaskStep ==
    \/ Handle \/ Unpack \/ Submit \/ Start \/ Edit \/ Suspend \/ Resume \/ WriteIndex
    \/ Report \/ Complete \/ Forget

Step(a) ==
    \/ FindSidecar(a) \/ ReadSidecar(a) \/ Diff(a) \/ WriteFiles(a) \/ WriteManifest(a)
    \/ CheckEntry(a) \/ ClearEntry(a) \/ CopyPayload(a) \/ WriteEntry(a)
    \/ RemoveSet(a) \/ RemoveCopy(a) \/ RemoveRest(a)

StartStep == StartupSweep \/ StartupRecords \/ FirstStart

Next ==
    \/ TaskStep
    \/ \E a \in Actor : Step(a) \/ Fail(a)
    \/ PeriodicSweep \/ SkipRunning \/ Pull \/ Push
    \/ Crash \/ StartStep

Spec == Init /\ [][Next]_vars

\* Threads that have something to do go on, the periodic sweep comes again, and an
\* entry is delivered in the end (see Transfer).  Nothing is assumed of the agent, of
\* pulls or of faults.
FairSpec ==
    /\ Spec
    /\ \A a \in Actor : WF_vars(Step(a))
    /\ WF_vars(PeriodicSweep) /\ WF_vars(SkipRunning) /\ WF_vars(Push)
    /\ WF_vars(StartStep) /\ WF_vars(Complete)

-------------------------------------------------------------------------------
TypeOK ==
    /\ base \subseteq File
    /\ run \in {"none", "marked", "unpacked", "Pending", "Running", "WaitingRemote", "reporting",
               "stored", "over"}
    /\ {stored, mark, log} \subseteq BOOLEAN
    /\ copy \in Copy /\ cs \in Dir /\ entry \in Dir
    /\ actor \in [Actor -> Thread]
    /\ boot \in {"exec", "records", "tasks", "up"}
    /\ made \in Tree /\ sent \subseteq Changeset

-------------------------------------------------------------------------------
(* Properties.                                                             *)

\* What the master's merge makes of file f of the baseline.
Applied(p, f) ==
    CASE p.does[f] = "keep" -> Baseline[f] [] p.does[f] = "delete" -> "none" [] OTHER -> p.does[f]

\* Payload p brings the files to where the task has left them, the declared ones aside.
Covers(p) == \A f \in File \ (Debug \cup p.skipped) : Applied(p, f) = made[f]

Queued == IF entry.is = "whole" THEN {entry.holds} ELSE {}

\* A change-set on its way to the master, or there, is what the task has done: merged
\* into the baseline it gives the files of the work copy at the end of the task, and it
\* never touches what is below _debug/.  (Scanned while the other finisher removes it,
\* after a removal that did not get to its end, or before the task is executed again, the
\* copy is something else.)
SentIsTrue ==
    \A p \in sent \cup Queued :
       /\ \A f \in Debug : p.does[f] = "keep"
       /\ p # NoSet => Covers(p) \/ events \cap {"overlap", "residue", "startup", "again"} # {}

Changed == \E f \in File \ Debug : made[f] # Baseline[f]

\* finish_task_exec removes the work copy only when its change-set is queued: at any
\* moment, after any failure, crash or retry, the changes of a task that is over are in
\* the copy, in the outbox or with the master.  Excused are a copy that could not be
\* unpacked, which the code provides for, and the five cases in which work is lost: the
\* record was queued without the change-set and keeps it out, the two finishers met, the
\* startup sweep took the copy of a task that runs again, a task was executed again after
\* its hook, or all that has changed could not be read.
WorkIsKept ==
    run \in {"reporting", "over"} /\ Changed =>
       \/ copy = [sidecar |-> TRUE, tree |-> made]
       \/ \E p \in sent \cup Queued : Covers(p)
       \/ events \cap {"unpack", "again", "record", "overlap", "startup", "skipped"} # {}

\* No sweep takes the work copy of a task that is queued, running or waiting: the agent
\* finds there what it has left there.  (Excused is the sweep at startup, which asks
\* nobody although first_start executes waiting tasks again.)
ActiveKeepsCopy ==
    Active /\ run # "marked" =>
       \/ copy = [sidecar |-> TRUE, tree |-> made]
       \/ events \cap {"unpack", "again", "startup"} # {}

\* The work copy of a task that is over goes away in the end, and its record reaches the
\* master: the periodic sweep tries again what has failed.  (If two finishers met, the
\* record may be left in cluster_logs until the master asks for it; the copy of a task
\* that was forgotten as cancelled waits for the restart that drops its placeholder.)
CopyIsHandedIn ==
    (run = "over" /\ log /\ copy.sidecar) ~>
        \/ ~copy.sidecar /\ (sent # {} \/ "overlap" \in events)
        \/ mark /\ "forgotten" \in events
===============================================================================
