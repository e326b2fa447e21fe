# TLA+ models of NemesisBot's cluster, board and agent loop

NemesisBot is an AI assistant whose nodes delegate work to each other. A node A
that delegates a task suspends the conversation, a node B runs the task with its
own agent, and A resumes the conversation when the outcome arrives: by B's
callback, by A's recovery poll, or by a safety net when nothing else does. The
record of B's work travels back to A by a second path. On top of this sits a board of
issues: A hands issues to workers, reviews what they deliver, merges it into a
project's repository, and follows trees of issues to their end. Below it is the loop that
gives each session of the agent one turn at a time. These protocols carry
the promises that unit tests can hardly reach: no reply lost, none given twice, no
copy deleted too early, no delivery stuck, no closed issue reopened by a late result, whatever is
retried, interleaved or restarted. They are what this directory models.

Paths below are relative to `src/crates/nemesis-cluster/src/` unless they say
otherwise.

## The system

| Component | State | Operations | Hard behaviour | What makes it correct |
|---|---|---|---|---|
| Task manager (`task_manager.rs`, SQLite mirror in `nemesis-taskstore`) | rows by task id, callback, cleanup loop | submit, assign, settle (complete, fail, cancel, callback), delete, time out | several threads settle one task; deletion and restart in between | one outcome per task, heard once |
| Continuations (`nemesis-agent/src/loop_continuation.rs`) | snapshots in memory and on disk, claims, phases | save, wait, claim, load, merge, write back, reply, mark, finish, recover | result before snapshot, duplicates, crash anywhere | one reply, built on the first result; snapshot kept until then |
| Worker (`cluster_task.rs`, `rpc/peer_chat_handler.rs`, `nemesisbot/src/cluster_agent.rs`) | task table, `tasks.json`, two bounded lanes, tokens, result store | accept, run, suspend, inject, resume, report, cancel, sweep, recover | RPC threads against the agent, full lanes, lost callbacks, restart | every accepted task ends, its outcome is kept until the sender has it |
| Dispatch and recovery (`cluster.rs`, `nemesisbot/src/commands/gateway/cluster_init.rs`, `cluster_service.rs`) | rows, placeholders, bus, poll | dispatch, register, callback, poll, confirm, safety net, first start | callback and poll race; both nodes restart | the conversation is resumed with what was learned first |
| Records (`outbox.rs`, `transfer.rs`, `nemesisbot/src/board_archive_ingest.rs`) | outbox entries, staging, inbox, index, dossier | enqueue, push in chunks, verify, land, ingest, pull, park, replay | lost answers, torn chunks, restarts of either side | the sender deletes only what the receiver holds completely |
| Board: dispatch (`nemesis-board/src/store.rs`, `nemesis-web/src/handlers/board.rs`, `board_dispatch.rs` and `autopilot.rs` of the gateway) | issue status, dispatch rows, send-failure marks | dispatch (gate, claim, advance, send, roll back, mark), write back, time out, sweep, rebalance, cancel, move or take back by hand | several dispatchers per issue, sends that fail after the worker has answered, crash between two calls of the store | one active row; no late result reopens a closed issue; an issue in progress ends |
| Board: review (`nemesisbot/src/board_review.rs`, `board_unavailable.rs` there and in `nemesis-web`) | auto_decide entries, parked reviews, emergency stop, seal of the model's endpoint, suspended reviews | review, accept, redispatch, escalate, seal, probe, replay | verdicts minutes old, emergency stop, seal or crash half-way | an issue in review is accepted, redispatched or shown to somebody |
| Board: trees (the same files) | parents, dependencies, rework children | settle, synchronise parents, cascade, reopen, take back, start by hand, review of a parent | children that end at once, cascades against reopening, rollbacks of what is done | dependencies first; cancellation reaches all; the parent is closed |
| Board: merge (`nemesisbot/src/board_archive_ingest.rs`, `conflict_resolver.rs`, `nemesis-board/src/git_repo.rs`) | repository, PLACED, MERGED, pending queue, freeze | land, merge, defer, park, resolve, resume, retry | answer and record in any order, conflicts, emergency stop, restart | what is reported as merged is there, and nothing else; no delivery waits unseen |
| Execution workspace (`exec_workspace.rs`, `changeset.rs`, `outbox.rs`) | work copy with sidecar, change-set, outbox entry, running placeholder | unpack, scan, write change-set, enqueue, remove; sweep at start and every half hour | two finishers and a pull without a lock, unreadable files, failures and crashes between any two steps | the change-set is what the task did; the copy goes only when its change-set is on the way; an active task keeps its copy |
| Registry, discovery, health | peers, blacklist | announce, expire | flapping peers | not modelled yet |
| Turns (`loop/admission.rs`, `bus.rs`, `run_loop.rs`, `tool_batch.rs`, `inbox.rs`, `turn_wal.rs` of `nemesis-agent`) | busy sessions, inbox with two queues, rounds, turn WAL | gate, admit, queue, interject, run tools, release, drain, re-inject, recover | the tail of a turn against the gate and the next turn; a crash in a tool call | one turn per session; no accepted message lost, doubled or changed; a turn that was cut off is taken up |
| Providers, cron, workflow, approval, audit chain | cooldowns, jobs, runs, requests, chain | - | timers and restarts | not modelled yet |
| Web, channels, connectors, desktop, voice, memory, skills, tools, configuration | - | I/O, presentation, text | - | out of scope: no protocol of their own |

How they interact: A's agent loop calls `rpc_call_fn`, which writes a placeholder
snapshot, sends `peer_chat` and, on the acknowledgement, registers a row in the
task manager; the loop then overwrites the placeholder with the real snapshot. B's
handler creates a row, a "running" placeholder in the result store and a queue
entry; B's agent loop takes it, runs it, and either reports the outcome by
`peer_chat_callback` (kept in the result store if that fails) or suspends it for a
child task of its own. A's `peer_chat_callback` publishes a continuation to the
bus and settles the row; A's poll asks B for rows that stay Pending, settles them,
publishes, and confirms, upon which B forgets the result. On the bus's message a
continuation handler claims the task, merges the result into the snapshot, lets
the model finish and persists the reply. When a task ends, B queues its record in
the outbox; A's sink verifies it, lands it in the inbox and ingests it into the
project's dossier, and a sweep on A pulls what is missing. A task that came from the
board has a dispatch row: its callback also ends the row and sends the issue to review,
or, if the project has a repository, merges the change-set of the record first. The
review accepts the issue, which synchronises its parents and starts its dependents, or
dispatches it again.

## Modules

| Module | Models | Remarks |
|---|---|---|
| `TaskManager` | the task manager with either store | each store operation is a step, so a settle is up to three |
| `SettleOnce` | what it promises | abstract; implemented by `TaskManager` |
| `TaskManagerProofs` | theorems about `TaskManager` | |
| `Continuation` | `loop_continuation.rs` | a conversation is the slot of its pending tool call and whether it knows its session |
| `ContinuationProofs` | theorems about `Continuation` | |
| `ClusterWorker` | node B | each access to the table is a step; `tasks.json` is written in two |
| `ClusterWorkerProofs` | theorems about `ClusterWorker` | |
| `PeerTask` | A and B together | each of the three above reduced to what the other node sees |
| `PeerTaskProofs` | theorems about `PeerTask` | |
| `Transfer` | outbox, sink, ingestion, sweep | one task; `TransferSink::end` in twelve steps with its ingestion, on any number of threads |
| `Delivery` | what the transfer promises | abstract; implemented by `Transfer` |
| `TransferProofs` | theorems about `Transfer` | |
| `ExecWorkspace` | work copy and change-set of one task | hook, sweep and pull are threads that run the same steps |
| `ExecWorkspaceProofs` | theorems about `ExecWorkspace` | |
| `IssueStatus` | `state_machine.rs` of the board | shared by the board modules |
| `IssueLedger` | status and dispatch rows of one issue, with their invariants | extended by `BoardDispatch` |
| `BoardDispatch` | the dispatch ledger of one issue | each call of the store is a step |
| `BoardReview` | the review on top of it | extends `BoardDispatch`; holds the liveness of both |
| `BoardTree` | parents, dependencies and rework | a dispatch and its review are one step each, since the two modules above have them |
| `ProjectRepo` | the repository and what is reported of it, with its invariants | extended by `BoardMerge` |
| `BoardMerge` | answer, record, repository | one dispatch per issue; the content of a file is the set of authors whose changes it holds |
| `BoardProofs` | theorems about `BoardTree`, `BoardReview` and `BoardMerge` | |
| `TurnGate` | the turns of one session | sessions share only the pump and the limit on turns, which delay |
| `TurnGateProofs` | theorems about `TurnGate` | |
| `MC*` | the instances that TLC checks | |

`PROJECT.json` maps every definition to the lines it stands for. The convention is
one action per step that another thread can observe: a critical section of a
concurrent map, one SQL statement, one file operation, one message. Steps of a
function are told apart by an `at` field (`call[h].at`, `run[h].at`, `agent.at`,
`ends[e].at`) or by a `stage`, named for what comes next. A lock is not a variable: what runs under
it is one action.

**TaskManager.** `settle_task` is `SettleTask` (the conditional update), then `ReadBack`
and `FireCallback`, or `CompareLost` for a loser. The cleanup loop is one more thread, with
its phases and the worklist it read. It takes the callback that is installed when
it is started. In production `start()` and `on_complete` are not wired (the gateway
publishes continuations itself, see the comment at `cluster.rs:3806`); the module
describes the class as it is offered.

**Continuation.** The barrier in `wait_for_continuation` is a guard: a handler falls
back to the file only when the turn is not about to save any more, unless the task
is in `Slow`. A crash keeps the files, may cut off a file that is being written
(`ContinuationStore::save` writes in place) and runs `recover_to_manager`.

**ClusterWorker.** `peer_chat_callback` runs on any number of threads (`Rpc`), since the RPC
server gives each connection a task of its own: `FindParent`, `InjectCallback` and
`SubmitParent` of two callbacks interleave. Every writer of `tasks.json` is modelled apart,
reading the table and replacing the file later. Four variables are history: `strayed`,
children whose callback found no waiting parent; `dropped`, tasks that found their lane full;
`overlapped`, children that two threads were about to inject at once; `forgotten`, cancelled
tasks whose row was removed while the result store says that they run.

**PeerTask.** Requests, callbacks and queries are lost or lose their answer. A
restart of A keeps `tasks.db` and snapshots and runs `first_start`; one of B keeps
finished results and drops "running" placeholders. `struck` is history: A crashed
after settling the row and before the reply was finished.

**Transfer.** A version number stands for a content hash. Ages (seven days for an
entry, one day for a record without one) are chosen where the code reads them.
`task = "missed"` marks a task whose last record was not queued because an earlier
version was in the way. A `transfer_end` may outlast its caller (`EndLost` leaves the thread
at work), and the retry begins, writes chunks and ends on another thread; `ingest_landed`
copies and then removes the inbox directory (`Copied`, `RemoveInbox`), in a thread of
`transfer_end` or in the sweep. Nothing in the code keeps these apart. `crossed` is history: a
`transfer_begin` was served while an end was at work, or an ingestion has removed a complete
record that it had not copied.

**ExecWorkspace.** `finish_task_exec` is run by the hook at the end of a task and by the
sweep, `enqueue_with_changeset` by these and by a pull; each step is one access to a
directory. A file of the copy is absent, as in the baseline, or new; a change-set says what
becomes of each file, and which ones were skipped. The copy counts only with its sidecar,
change-set and entry only with their manifests, which come last. `Forget` is a cancelled task
whose row is removed: no hook runs and its placeholder stays. The start of the worker has
phases (`boot`): the sweep of copies, `sweep_startup`, then `first_start`, which queues the
stored tasks again; requests are served meanwhile. The push is one step, since `Transfer` has
its parts. `made` and `sent` are history: what the task has done, and what the master got.
So is `events`: what has happened that the code does not provide for (see below). One bound,
`MaxMishap`, counts pulls, failed operations, unreadable files, meetings of the two
finishers and crashes.

**TurnGate.** The pump takes one message at a time: `Recv`, `Gate` (`try_acquire_session` under
its lock), and for a busy session `Enqueue` under the lock of the inbox. A turn is a task:
`Begin`, then rounds of `Claim` (interjections enter the conversation), `Answer` and the batch
of tool calls, then `Release`, and the tail (`Transfer`, `ClaimHead`, `Reinject`, `Pending`,
`Clear`), each step one lock. A maintenance command is a task with one step, `Work`. Messages
differ only in how many "!" they begin with, which is what routing and stripping look at.
`open` are the calls that have a record in the turn WAL and no final one; after a crash each of
them becomes a message of the same name, which goes through the gate before the channel is
read. `fate` is history: what has become of a message, with the named losses below.

**BoardDispatch, BoardReview.** A handler of `dispatch_issue_core` is a thread that
reads the status once (`Gate`), claims a row (`Claim`), moves the issue (`Advance`) and
spawns a task that sends the row (`call`). Whoever ends a row (`WriteBack`, `Timeout`)
looks at the status in a step of its own (`Move`). `mark` says whether the last system
comment makes the issue a candidate of the send pool. Matching of workers, verdicts and
the load of other issues are inputs. `TakeBack` is the rollback of an issue that is done, by
`audit.rollback` or by `note_overlimit`. A review that begins while the model's endpoint is
sealed is suspended (`Suspend`); `Probe` lifts the seal and resumes it, `Unseal` and `Answered`
lift the seal only. `stranded` and `muted` are history: the states in
which the code leaves an issue with nobody to move it (listed below). `BoardDispatch`
sends a delivery to review at once, as for a project without a repository. The switches
`board.auto_review` and `unavailable.freeze` are on, as by default, and so is
`auto_close_parent`, which is off by default: a parent then stops in review for a person.

**BoardTree.** A thread runs one of the chains that follow the end of an issue:
`sync_parent_status` up the tree, `on_issue_settled`, the cascade, a parent's review. The child
that a review creates (`Remedy`) passes the gates of `dispatch_subissue_auto` like any other; if
its dispatch fails, a human is asked. `DispatchByHand` is each of the entries of
`dispatch_issue_core` that have no gate on dependencies (`issue.dispatch`, `project.resume`, the
dispatch after an assignment). `TakeBack`, `Seal`, `Unseal` and `Probe` are those of the modules
above; what `DispatchByHand` and `TakeBack` do takes the bound `MaxHand`. The emergency stop is
reduced to the delay of a spawned review. `OnList` is what a running cascade has read and not
reached yet. `undone` in a thread between gates and dispatch is history: a dependency was taken
back in between. So is `struck`: a crash or a decision on stale state cut such a chain. It is
one flag for the whole tree, so that it excuses more than the chain it was set by: after one
crossing nothing is claimed of `CancelReachesAll` and `ParentIsClosed` in that behaviour.

**BoardMerge.** `merge_and_maybe_review` is `Check`, `Take`, `Gate`, then `Defer`, `Merge`,
`Discard` or `Conflict`; `MERGE_SERIAL` is held from there to `Settle` or `Park`, so these
steps exclude each other. Whether two changes of a file collide is an input, unless
nobody else has touched the file since the baseline. `given` and `overrun` are history:
changes that the LLM saw and decided against, and changes that a commit of the resolver
left out without anybody's decision.

## Runs

All bounds are named constants of the modules. One task is enough where tasks share
no state but the table they are in; two are used where they compete (lanes) or where
one creates the other (nested delegation).

| Run | Instance | Shows |
|---|---|---|
| `task_settle` | 1 task, 2 handler threads and the loop, 2 results, durable store, 1 restart | `HeardOnce`, `AnswersAgree`, `SettledIsFinal`, `SettlesOnce`; live: `EveryTaskIsSettled`, `SettledIsHeard`. Three threads are the fewest with a winner, a loser and a timeout |
| `continuation` | 2 tasks (one may delegate the other, one is slow), 2 handlers, 2 deliveries each, 1 crash | `ReplyOnce`, `FirstResultWins`, `SnapshotSurvives`; live: `DeliveredIsAnswered`. Two deliveries of different results are the duplicate and the late "not found" |
| `worker` | 1 task with a child that calls back twice, 2 threads that serve callbacks, 2 tries, 1 crash (392,000 states) | `PendingIsQueued`, `InjectedOnce`, `CallbackNeverRevives`; live: `EveryTaskEnds`. Two callbacks on two threads are the fewest that overlap |
| `worker_lanes` | 2 tasks, lanes of length 1, 1 child, 1 callback, 2 tries, no crash (2.8 million states) | `OutcomeIsKept`, `RunningIsHonest` with full lanes and cancellations |
| `peer_task` | 1 task, 2 tries, 2 crashes of A and 2 of B | `FirstLearnedIsShown`, `KeptUntilRecorded`; live: `RepliedUnlessStruck`, `CutDispatchIsReclaimed`. The second crash falls into the recovery from the first |
| `transfer` | 2 versions, 2 chunks, 2 threads of the sink, 2 faults in all: lost calls, overlapping transfers, crashes of either node, deletions of the dossier's records, changes of the limits (890,000 states) | `TransferDelivers`, the refinement of `Delivery`; live: `RecordArrives`, `DossierIsRestored`. Two chunks so that a transfer is resumed; two faults are a lost end and the retry that meets it |
| `exec` | 1 file of the project and 1 below `_debug/`, any baseline, 1 edit, 2 mishaps (911,000 states) | `SentIsTrue`, `WorkIsKept`, `ActiveKeepsCopy`; live: `CopyIsHandedIn`. Two mishaps are a failure and one in its repetition, or a crash and what falls into the start after it. Also checked: two files of the project, 2 edits, 1 mishap |
| `board` | 1 issue, 2 dispatches, 2 threads, 1 send retry, 1 redispatch, 1 shock (879,000 states) | `OneActive`, `ClosedStaysClosed`; live: `InProgressEnds`, `InReviewIsAttended`. A shock is an operation by hand, a rollback of done, a crash, an emergency stop or a seal of the model's endpoint; two dispatches are a delivery and its rework, or a failed send and its retry |
| `board_tree` | a parent, two children (the second depends on the first), a rework child, 2 threads, 1 operation from outside (an issue closed, started or taken back, or a seal), 1 crash (577,000 states) | `CancelReachesAll`, `StartsAfterDependencies`; live: `ParentIsClosed`. `CancelReachesAll` was also checked on a chain of three issues whose middle is reviewed and gets a rework child |
| `merge` | 2 tasks whose change-sets share a file, 2 threads, 1 shock | `RepositoryIsRight`; live: `DeliveryEnds`. A shock is a crash, an emergency stop, a cancellation, an edit by hand, a retry or a second landing. `RepositoryIsRight` was also checked with two shocks (7.7 million states) |
| `turns` | 2 messages that interject in steer mode (one with "!!"), 1 maintenance command, 2 rounds, 2 tool calls, an inbox of 1, 2 tasks, 1 crash, each of the three modes | `BusyIsHeld`, `HeldOnce`, `SeenAsSent`; live: `OwedIsSeen`. Two tasks are a turn and the tail of the one before; a third would be a second tail. Also checked: an inbox of 2, and 4 messages without a crash, where a re-injected message finds the inbox full |

`TypeOK`, where a module states it, holds on the same instances; no run lists it. The runs
with liveness use no symmetry. `CHECK_DEADLOCK FALSE` stands where a system
whose bounded inputs are used up stops.

Each property has a mutant: an operator next to the one it would replace, marked "a
plausible bug", under which TLC finds the property violated.

### Where the code does not do what it says

One run is expected to fail on a statement of the repository:

- `merge_auto` - the resolver of conflicts (`conflict_auto_resolve`) commits only the
  conflicting files onto HEAD. The other files of the change-set never reach the
  repository, and the issue goes to review as merged.

Others came up while modelling. The properties name them as exceptions, or the
hazards in `PROJECT.json` carry a note:

- a task whose row was settled and whose continuation was not finished when A crashed is
  never resumed: `first_start` skips snapshots that have a row, and the poll only looks at
  Pending rows (`struck`);
- two `transfer_end` of one transfer share `out/`: when the first outlasts its caller, the
  second empties the directory that the first has verified and is about to rename, and an
  incomplete record is acknowledged (`crossed`, against the comments at `transfer.rs:701`);
- `ingest_landed` copies the inbox directory and then removes it
  (`board_archive_ingest.rs:119`, 157); what another `transfer_end` has landed there in between
  is removed without a copy (`crossed`);
- of two overlapping callbacks of one child both find the parent waiting, and `inject_callback`
  does not look again at what it waits for: the result is injected twice and the parent queued
  twice, although the repeated callback is meant to find nothing (`overlapped`,
  `cluster_init.rs:1402`, `cluster_task.rs:327`);
- a task that is cancelled while it waits for a child, or is queued, loses its row to
  `remove_terminal_tasks` or to a late callback; neither touches the result store, and the
  "running" placeholder stays until a restart drops it. The sender's poll hears "running" until
  then, and the sweep of work copies takes the task for active and skips its copy (`forgotten`,
  `cluster_task.rs:401`, 338, 465; the copy in `ExecWorkspace`);
- a crash inside `ContinuationStore::save` leaves an unreadable snapshot (`Torn`);
- a save slower than the barrier can be overwritten by, or overwrite, the write-back
  of a handler that fell back to the placeholder (`Slow`);
- a resumed parent that finds its lane full is only logged (`dropped`);
- an entry of an earlier version makes the enqueue of the last record a no-op
  (`missed`);
- a chunk cut off by a crash of the master counts as received (`Damaged`);
- a directory that the sweep ingests between rename and receipt is re-created
  without files and blocks later pulls (`Blocked`);
- `cancel_task` may answer "queued" for a task that then runs, or "running" before a
  token exists to fire;
- of two writers of `tasks.json` the one with the older rows may write last;
- a child that answers while its parent's run is still going on is not found by
  `find_by_child_task_id`; its result goes to the main agent and the parent waits for
  ever (`strayed`, against the comment at `cluster_init.rs:1398`);
- after a restart B answers "not found" for tasks that it restores from `tasks.json`
  and executes again (against the comment at `task_result_store.rs:197`);
- a pull, or `sweep_startup` after a sweep that failed, queues the record of a task whose
  copy is still there; `enqueue_with_changeset` answers Ok for an entry that exists,
  whatever it carries, and change-set and copy are deleted (`record`);
- the running placeholder goes before the hook runs, so the periodic sweep may take up the
  same copy; one finisher removes or rewrites the change-set that the other copies, and it
  is lost with the copy (`overlap`);
- skipped files are declared in the manifest of a change-set; if nothing else changed there
  is none, and the copy with the changed file is removed (`skipped`). A file of the baseline
  that cannot be read is declared as skipped and as deleted, and the merge deletes it;
- the sweep at startup takes no task for active and removes the copies of waiting tasks that
  `first_start` executes again a moment later (`startup`);
- the removal of a copy that has been handed in is cut short after its entry was delivered:
  the rest is scanned again and the missing files are reported as deletions (`residue`);
- a crash between the hook and `complete_task` executes a task again whose copy has been
  handed in (`again`); what it does then is in no change-set;
- the copy of a task that was refused, or that never started for its budget, has no record
  to travel with: it is scanned every half hour and never removed.

Of the turns (paths in `nemesis-agent/src`):

- `late`: between `try_acquire_session` and `enqueue_for_mode` (`loop/admission.rs:776`, 810)
  the turn may end and drain. The message is told that it will be processed after this turn
  and stays until another one comes;
- `cleared`: `pending` and `clear` (`loop/admission.rs:1201`) are two locks; what is put into
  the inbox in between is removed;
- `bounced`: a re-injected message that meets a session taken in the meantime is queued
  behind later ones, against the order promised at `loop/bus.rs:512`, or refused if the inbox
  is full;
- the tail transfers interjections that were meant for the next turn, which has begun
  (against the remark on TOCTOU at `loop/tool_batch.rs:40`); one with "!!" is stripped there
  and again at its admission (`twice`, against `inbox.rs:58`);
- two open calls of a parallel batch make two messages for one session, against the remark
  at `turn_wal.rs:274`; in reject mode the second is refused. A crash before the resumed turn
  makes its first record forgets it, since the log has a final record for the call;
- not in the model: a panic in a turn ends its task without the tail and leaves the session
  busy, against the comment at `loop/admission.rs:896` (only the `iotsmall` profile aborts).

Of the board (`WB` is `nemesis-web/src/handlers/board.rs`, `BR` `board_review.rs`, `AI`
`board_archive_ingest.rs`):

- done is not final: `audit.rollback` (WB:6731, `store.rs:1413`) and the notice of an oversized
  record (AI:240, `store.rs:1485`) take an issue from done to in_review past the state machine
  (`store/tests.rs:2944` and 3007 assert it). No review is spawned for it; its parent stays done
  and its dependents run on. The notice leaves a comment, which `told` stands for;
- a dependency that is taken back between the gates and the dispatch does not stop the dispatch
  (`undone`), and `issue.dispatch` (WB:361), `project.resume` (WB:1547) and the dispatch after an
  assignment (WB:5085) start an issue whatever it depends on;
- a review that is suspended because the model's endpoint is sealed (BR:857 and, of a parent,
  BR:3468) is resumed only by a probe that lifts the seal itself (`board_unavailable.rs:115`).
  When `unavailable.release` (WB:6912) or the answer to another call (BR:1431, whose result is
  ignored) lifts it, the issue stays in review and nobody is told until a restart or a release
  of the emergency stop, against "意图不丢" (the intention is not lost, BR:856) and against
  the remark that with `probe_interval_secs = 0` recovery comes by those two
  (`board_unavailable.rs:87`). The properties name the case (`muted`; in `BoardTree` a
  suspended parent without a seal);
- `stranded`: a crash between the end of a row and the transition (`board_dispatch.rs:114`)
  or a send failure of a dispatch that found the issue in progress leaves it there without
  a row; so does a rebalance whose new dispatch is refused (WB:4342). The rebalance goes on
  with a row that has ended by itself, since `.ok().is_none()` (WB:4306) is true only for
  an error, and takes rows from under their sender. A delivery that arrives before its
  send is taken for failed is rolled back (WB:1137). A handler that believes in a stale
  in_progress claims a row for an issue that has moved on (WB:1025);
- `muted`: the decision to redispatch is recorded before it is carried out (BR:2031); a
  crash, or an emergency stop that refuses the dispatch (BR:2206), leaves an issue that
  the replay takes for decided. A refused redispatch that is recorded late (BR:2187)
  counts for the next round;
- `struck`: a cascade stops behind an issue that finished first (WB:4959); a review adds a
  rework child (BR:3371) to a parent that is on the list of a running cascade, which cancels
  the parent and never sees the child; `reopen_issue`
  checks before its transition (`store.rs:823`), and `issue.status` does not check at all
  (WB:5962); a parent moves on a status read before (WB:3763, 3801); a crash between a
  child's end and the synchronisation of its parent, between `parent_auto_close` and the
  transition (BR:3849), or in a review after rework is not replayed; an issue that is taken
  back from done, while a cascade runs or below a cancelled one, is open there;
- `cut`: PLACED and MERGED are in memory (AI:447). After a crash nothing merges a landed
  record but a retry by hand; where the comment "in transit" was not written yet, or the
  comment of the merge was and the transition was not, not even the stall sentinel
  speaks up. An entry popped from the queue (AI:1091) is lost with the process;
- `stuck`: a delivery that was deferred when the project was being resumed, or that was
  left in the queue by a crash, stays there, because `project.resume` does nothing for
  a project that is not frozen (AI:1049), although the comment promises a merge;
- `overrun`: the resolver writes the sides of a file from the time of the conflict over
  what was merged since, and its hard reset discards edits by hand;
- a lost acknowledgement makes two workers execute one issue (WB:1124); the result of the
  first is dropped;
- the round of a review counts dispatches that never reached a worker (BR:963);
- the budget of send retries is not looked at for planner issues (WB:3897), and the
  comment of an issue deferred for load lacks the mark that the sweep looks for (WB:3747);
- a duplicate review of a parent may close it over an open rework child (BR:3484);
- a superseded delivery leaves its issue in progress, with a comment;
- not in the models: an edit by hand between `commit_worktree` and the hard reset of a
  merge, and a merge between the two reads of HEAD in `push_dispatch_baseline` (WB:742).

## Fairness

Weak fairness of steps that a running thread or timer takes: `CallerStep` and `LoopStep` (a
Tokio interval) and the passing of time in `TaskManager`; the steps of a turn and of a handler
in `Continuation`; the agent, the writers, the RPC threads and the sweep in `ClusterWorker`,
where model runs end because the agent's iterations are bounded; in `PeerTask` also the poll's
tick and the age at which the safety net acts. No message is assumed to arrive in `PeerTask`:
the safety net ends a task then. In `ClusterWorker` each child is assumed to call back once,
which is what `PeerTask` shows of its node. In `Transfer` the push loop (every 15 seconds), the
sink's threads and the master's sweep run on; `SweepInbox` is fair on the assumption that the
project has a dossier at some time. In `ExecWorkspace` the steps of the three threads, the sweep
of every half hour, the steps of the start, the push and `complete_task` are fair; nothing is
assumed of the agent, of pulls or of faults. In `TurnGate` the pump and every task run on; a
turn ends because its rounds are bounded (`max_tool_iterations`; 0, unlimited, is a setting for
which `OwedIsSeen` is not claimed) and a tool call because of the watchdog or its own end. On
the board the steps of handlers, senders and reviews, the sweeps (timers of the gateway), the
time-out of a dispatch and the release of the emergency stop are fair: somebody who stops the
system releases it some day. So is the probe: `probe_interval_secs` is not 0, and some day the
endpoint answers. Strong fairness stands where a step needs a free thread: the sweeps of
`BoardReview`, the reviews of `BoardTree`, the release watcher of `BoardMerge`. A worker owes no
answer, and nobody owes a resume of a frozen project. Crashes, losses, cancellations, deletions,
replays and settings are never fair.

## Proofs

`TaskManagerProofs` proves, for every set of tasks, threads and results, for both
stores and any number of restarts:

- `TypeCorrect`, `CallbackHeardOnce`, `SettleAnswersAgree`: the three invariants;
- `SettledRowsAreFinal`: the action property;
- `ImplementsSettleOnce`: `Spec => SO!Spec`, initial states and every step.

`HeardOnce` is not inductive, since it says nothing of a thread between the
conditional update and the callback. `IInv` adds that such a thread *owns* the
announcement of its task (`OwnerKnows`): the outcome it will announce is the one
stored, and nothing was announced yet. `OneOwner` says that two threads never own
the same one; it is kept because a thread becomes owner only by finding the row
open, and `RowMatchesOutcome` makes an open row one without an outcome and thus
without an owner. `CallsAreOnSeenTasks` is needed for creation: a fresh id has no
thread at work on it, so that resetting its history disturbs nobody. `Invariance` is
`Spec => []IInv` with one lemma per kind of step. The assumptions are the named
`ASSUME`s of `TaskManager`: the loop is not one of the callers, `Durable` is a
Boolean, and the bound on restarts is a natural number.

`BoardProofs` extends `BoardTree` and has the other two specifications as instances (`Review`,
`Merge`). What it proves of them is stated in `IssueLedger` and `ProjectRepo`, which the
instances extend, so that theorem and run speak of the same definition. Of `BoardReview` it
proves, for any number of threads, rows, rounds and faults:

- `OneActiveDispatch`: the issue has at most one active row. `Ledger` is the inductive
  invariant: the rows are a sequence of row states, and only the last may be active. What
  the handlers believe about status and rows does not occur in it: `try_claim_dispatch`
  appends only where no row is active, and every other write ends a row or starts it.
- `ClosedIssuesStayClosed`: the action property, from a lemma about `can_transition` (done
  has no successor, cancelled only backlog) and a case for each step that writes the status.
  `TakeBack` is the one that does not ask `can_transition`: it leaves done for in_review, with
  no new row, and that is all that leaves it.

`RepositoryStaysRight` is about `BoardMerge`, for all tasks, change-sets, files, threads and any
number of crashes, stops, edits and retries. The invariant says nothing of what threads, queue
and resolver are about to write, so `MergeInv` adds it: whoever is past `Check` works on a
settled delivery (`ThreadOK`), the queue holds only such (`QueueOK`), baselines and the sides
that the resolver was given are as clean as the repository (`TreesOK`, `ResolverOK`), and what
is about to be reported is merged, or a commit of the resolver has left it out. `Frame` reduces
a step to what it changes: a settled delivery stays settled (`Stable`), what was merged stays or
is recorded (`Keeps`), and the thread, queue entry or resolver that moved is right again. One
lemma per group of actions shows that. The assumptions are the `ASSUME`s of `ProjectRepo`:
change-sets touch files of the project, a record holds one of three things, and no task is
called "hand" or "none". That no lock appears in the argument shows that `MERGE_SERIAL` is not
needed for this property: a merge is one commit on top of HEAD.

Of `BoardTree` it proves, for any finite tree, dependencies, threads, operations by hand and
crashes, `CancelReachesEverything` (`CancelReachesAll`) and the action property
`DependenciesComeFirst` (`StartsAfterDependencies`):

- `CancelReachesAll` speaks of threads at rest only. `TreeInv` says at every moment what hangs on
  a cancelled issue and is open: it is on the list of a running cascade, or a thread that
  cancelled the issue has not read its list yet (`Covered`); and a list has all that hangs on its
  members (`Downward`), so that cancelling one of them leaves the rest covered. Both hold
  while nothing is recorded in `struck`.
- A list is closed downward because the breadth-first search reaches everything
  (`CascadeIsClosed`). That is an induction, which the library's theorems do not give here, so the
  lemmas argue by least counterexample (`LeastNat`): a layer of the search is closed already or
  has more members than steps were taken (`LayersGrow`), and `Issue` is finite.
- `StartsAfterDependencies` rests on `Gated`: between the gates and the dispatch the dependencies
  of an issue stay done, or the thread's `undone` says that one was taken back since, which is
  the only step out of done (`NoHandlerStep`, `TakeBackStep`). Starts by hand are told apart by
  `hand`, which every one of them increases.

The assumption is `TreeAssumption`: finitely many issues, and an issue created by a review has no
dependencies of its own (`try_parent_remediation` adds none). The first attempt failed for
a good reason: a review may give a child to a parent that a cascade has on its list. TLC
shows it only on a tree with three levels; `struck` records it now.

`TransferProofs` proves `TransferImplementsDelivery`: `Spec => TransferDelivers`, for any
versions, chunks, threads and faults, without a hypothesis. `Delivery` promises nothing once two
calls have met at the receiver (`void`, mapped to `crossed`), so the invariants below hold as
long as `crossed` does not. Of `WireInv`, `OneEnd` says that at most one thread is inside
`transfer_end`, on the version that the outbox still has, `Undisturbed` that nothing is swept
away or rebuilt behind it, `Landed` and `Awaited` that what it has renamed and will confirm is
there, and that an ingestion between copy and removal has copied what it will remove.
`IndexIsTrue` is the subtle part: a duplicate is confirmed from the index alone (`begin` looks up
the hash), and the index may be behind the inbox between a receipt and the index of a newer
version; it is true for the version in the outbox, which is the one that is asked for.

`TurnGateProofs` proves, for any messages, calls, tasks, modes and any bounds:

- `BusyIsAlwaysHeld`. `StageInv` adds only the types of `busy` and `stage`. A step within a
  turn or within a tail leaves the session as it was (`KeepLemma`); `try_acquire_session`
  finds it free, so nobody works in it; `release_session` is only reached by the one who does.
  No queue appears in the argument: whatever the inbox loses, a session is not lost with it.
- `NothingLostNothingTwice` (`HeldOnce`). The sum over all places is not what a step can be
  shown to keep; `PlaceInv` says instead which place a message is in (`Held`: one place,
  and not another), that a queue has it once (`Queues`), and that hands and places hold
  messages of the right kind. Each step moves one message from one place to another. At the
  end the places are counted.
- `MessagesAreSeenAsSent` (`SeenAsSent`), with `MarkInv`: the marks a message still has, by
  the place it is in (`Formed`).

The assumption needed, `MessageAssumption`, says that calls are not messages of users. The
proof of `HeldOnce` did not go through for a crash at first: the new fates were a `CASE` with
overlapping arms, which TLA+ leaves open and TLC reads in order. It is an `IF` now.

`ClusterWorkerProofs` proves, for any tasks, children, capacities, retries and any number of
crashes: `TypesHold`, `NoGhosts`, `InjectionHappensOnce`, `OutcomesAreKept`, `PollsAreHonest`
and the action property `CancelledStaysCancelled`. `IInv` adds to the invariants of the runs
what they leave open: the rows, on disk and in images that are being written too, are of tasks
that were received and expect children of their own (`SoundRows`); nothing is held before it was
received, and the task that peer_chat is still registering is held by nobody else (`Holders`); a
child that a row waits for, or that the run in progress has delegated, was not injected, and
nothing else waits for it (`Children`); and a row is terminal or swept only if it was cancelled,
while a task about to leave the list has been reported (`Traces`). A thread that has found its
parent is followed by `Callbacks`: unless its child is in `overlapped` it is the only one about
to inject it, and nothing was injected yet. `InjectedOnce` follows because `inject_callback`
takes the expected child out of the row under the row's lock, so that a later callback finds no
parent; `OutcomeIsKept` because `send_callback_or_persist` comes before `complete_task`, and
`RunningIsHonest` because a row goes only with its placeholder, but for the removals that
`forgotten` records, which meet cancelled rows only. The assumption is `TaskAssumption`:
finitely many tasks, and the empty name is none of them.

`ContinuationProofs` proves, for any tasks, handlers, nested delegations, deliveries and
crashes: `TypesHold`, `RepliesAreWrittenOnce`, `TheFirstResultWins` and `SnapshotsSurvive`. The
argument is per task. `Claims` says that at most one handler has the claim of a task;
`Replies` that a task is in one of three phases: its reply is not written (`Open`), written and
not marked (`Marking`, one handler knows), or marked, so that every later delivery stops
(`Shut`); a crash in `Marking` is what `cutShort` counts. For a task whose save is not slower
than the barrier, `Untouched`, `Agreed`, `SameHome` and `Kept` say that memory, disk and the
handler's copy have the same slot and session. Handlers of other tasks leave all of this alone
(a frame lemma), so each action is looked at for its own task only. The assumption is
`NameAssumption`: finitely many handlers, none of them the turn itself, and the empty name is
no task.

`ExecWorkspaceProofs` proves, for any project, any baseline and any number of writes and
mishaps, `TypesHold`, `ActiveTasksKeepTheirCopy`, `WhatIsSentIsTrue` and `WorkOutlastsTheTask`,
in three layers, each inductive over the one before:

- `Control`: where the threads are (`Threads`: the hook runs only while the task is reported, a
  pull never has a change-set, two finishers at once are recorded), what they have in hand
  (`Hands`), and that an active task has its placeholder and its copy (`Spared`). All thirteen
  steps of a thread are reduced to one relation (`Moves`).
- `Truth`: a thread that has seen the copy still has it, the copy of a task that is over is
  what the task has left (`Seen`), and every change-set covers the work, wherever it is
  (`Sets`). New change-sets come from `diff_tree` alone; `DiffLemma` says what it computes for
  one file, and `NoDiffLemma` that an empty result means an unchanged tree.
- `Kept`: from the end of the task on, its work is in the copy or *covered* by a payload that
  is queued or delivered (`Safe`), and each thread is `Careful`: it clears an entry only
  if that covers nothing, and removes only what is covered. While a thread is at work no other
  one has seen the copy (`Alone`), so a step is looked at for its own thread only.

The proof shows what the six exceptions of `WorkIsKept` are needed for: each is the one place
where an action would break `Safe`. It uses no lock and no bound.

`PeerTaskProofs` proves, for any tasks, any number of attempts to report and any number of
crashes of either node: `TypesHold`, `TheFirstOutcomeIsShown` (`FirstLearnedIsShown`) and the
action property `ResultsAreKeptUntilRecorded` (`KeptUntilRecorded`). `Inv` speaks of one task at
a time (`LocalSame` disposes of the others). That the outcome in the snapshot is the first one
is not inductive; `FirstInv` follows that outcome on its way: it is the first on the bus, or in
the hand of the handler that is about to merge it, or in the slot. This needs `TurnInv`
(nothing is merged while the turn may still replace the placeholder, so nothing taken from the
bus is lost with it) and `ReplyInv` (the reply is there exactly if the snapshot is marked
final). `PollInv` has the order that the second theorem rests on: what the poll
publishes and confirms is settled in `tasks.db`; `WorkerInv` that an answered callback has no
kept result to delete. The assumption is `BoundAssumption`: at least one attempt to report.

Every safety property of the passing runs is proved. Only model-checked is all liveness, since
fairness is out of the prover's reach: `EveryTaskIsSettled`, `SettledIsHeard`,
`DeliveredIsAnswered`, `EveryTaskEnds`, `RepliedUnlessStruck`, `CutDispatchIsReclaimed`,
`RecordArrives`, `DossierIsRestored`, `CopyIsHandedIn`, `InProgressEnds`, `InReviewIsAttended`,
`ParentIsClosed`, `DeliveryEnds`, `OwedIsSeen`.

## Not modelled

Inside the board: the second stage of a review (asking a worker for evidence),
`review.retrigger`, the review of a whole project, the planner, the choice among workers, errors
of the store and of git, the content of comments, and the notice that a cancellation did not
reach its worker. Two ways into the tree are left out: `issue.create` under a parent that is
cancelled, and the status that the CLI writes, which settles nothing; either leaves an open
issue below a cancelled one, which `CancelReachesAll` does not know of. `BoardTree` does not
have the replay that follows a release of the emergency stop, which spawns more reviews.
Behaviour with `board.auto_review`, `auto_close_parent` or `unavailable.freeze` switched off is
not modelled. `BoardTree` takes the dispatch and review of a leaf as one step, `BoardMerge` has
one dispatch per issue; the rounds of one issue are in `BoardReview`.

The rest of the repository is either a store or an adapter without a protocol of its
own, or waits in the plan below. The share of mapped lines is small because the
repository is large (over 400,000 lines, most of them tools, channels, the dashboard,
tests and platform glue), not because the modelled parts are thin.

Inside the turns: checkpoints and rewind, compaction, the loops around the model call (context,
rate limit, transient errors), the e-stop file, rotation and TTL of the turn WAL, and
continuations, which the pump runs inline: `Continuation` has them.

Inside the other modelled parts: the retention of `cluster_logs`, TTLs of the result store,
I/O errors of the local disk (but for torn writes and those in `ExecWorkspace`),
authentication, rate limits, the content of messages, and the delivery gate of a run. Of
the execution workspace: the killing of leftover processes, which only takes time there, and
`deliver_files_back`, which sends single files outside any change-set. `Transfer` has one
push loop and one task, as the loop handles entries one after the other and directories
are keyed by task. `PeerTask` has one delegation; that the poll publishes a recovered child
only to the bus (`cluster.rs:3970`) is not modelled. Components
without a module are listed in `PROJECT.json` with the reason.

## Plan

Done, in this order: `TaskManager` with its proofs, `Continuation`, `ClusterWorker`,
`PeerTask`, `Transfer`, `BoardDispatch`, `BoardReview`, `BoardTree`, `BoardMerge`,
`ExecWorkspace`, `TurnGate`. Next, most important first:

1. Three nodes: `ClusterWorker` with a child that the poll recovers.
2. The peer registry (blacklist, expiry, offline) and the choice among workers.
3. Provider cooldown; cron; approval requests; the audit chain; the workflow scheduler;
   checkpoints of the agent loop.
4. Proofs of what the above adds.
