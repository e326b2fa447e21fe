------------------------------- MODULE Transfer -------------------------------
(***************************************************************************)
(* How the execution record of a task travels from the worker to the node  *)
(* that dispatched it: the outbox of the worker                            *)
(* (crates/nemesis-cluster/src/outbox.rs), the receiving sink (transfer.rs)*)
(* and the ingestion into the project's dossier with its pull sweep        *)
(* (nemesisbot/src/board_archive_ingest.rs).  All state is on disk, RPCs   *)
(* get lost and both processes crash.                                      *)
(*                                                                         *)
(* One task is modelled: every directory is keyed by the task id, and the  *)
(* push loop handles one entry after the other.  Versions of the record    *)
(* are numbered; a version stands for its content hash, which with the     *)
(* constant chunk size is the transfer id.  Backoff and the offline check  *)
(* only delay a push: any delay is possible here anyway.                   *)
(***************************************************************************)
EXTENDS Naturals, FiniteSets

CONSTANTS Chunks,       \* the number of chunks of a record
          MaxContent,   \* bound on the versions of the record
          Thread,       \* the sink's threads that serve transfer_end
          MaxAttempts,  \* DEAD_LETTER_MAX_ATTEMPTS
          MaxFaults     \* bound on lost RPCs, overlapping transfers, crashes, deletions
                        \* by hand and changes of the limits

Content == 1..MaxContent
Chunk == 1..Chunks

ASSUME ContentAssumption == {MaxContent, MaxAttempts, Chunks} \subseteq Nat \ {0}
ASSUME BoundAssumption == MaxFaults \in Nat

VARIABLES
    \* The worker
    task,      \* the task; when it is over: "ended", or "missed" if its last record was not queued
    log,       \* the newest version of its record in cluster_logs, or 0
    entry,     \* entry.json of the outbox
    push,      \* the push loop
    fits,      \* fits[n]: the record is within the size limit of node n
    \* The master
    staging,   \* staging[v]: the directory of the transfer of version v
    inbox,     \* the inbox directory of the task
    dedup,     \* the version in the deduplication index, or 0
    done,      \* versions with a .done marker
    ends,      \* ends[e]: thread e inside TransferSink::end
    sweep,     \* the sweep that ingests what lies in the inbox
    placed,    \* versions that are completely in the project's dossier
    records,   \* the dossier has an execution directory for the issue
    settled,   \* the dispatch is terminal on the board
    noArchive, \* the worker has answered a pull with no_archive
    loss, overlaps, discards, limits, crashW, crashM,
    \* History
    delivered, \* versions that the worker deleted as delivered
    discarded, \* versions that were in the dossier when its records were deleted by hand
    crossed    \* two threads of the master were at work on one transfer or inbox directory, which
               \* no lock prevents: a transfer_begin was served while an earlier transfer_end
               \* ran, or an ingestion removed a record other than the one it had copied

worker  == <<task, log, entry, push, fits>>
master  == <<staging, inbox, dedup, done, ends, sweep, placed, records, settled, noArchive>>
bounds  == <<loss, overlaps, discards, limits, crashW, crashM>>
history == <<delivered, discarded, crossed>>
vars    == <<worker, master, bounds, history>>

-------------------------------------------------------------------------------
NoEntry   == [state |-> "none", content |-> 0, attempts |-> 0, old |-> FALSE]
NewEntry(v) == [state |-> "pending", content |-> v, attempts |-> 0, old |-> FALSE]
IdlePush  == [at |-> "idle", have |-> {}, thread |-> ""]
IdleEnd   == [at |-> "idle", content |-> 0, ok |-> FALSE, of |-> 0]
IdleSweep == [busy |-> FALSE, of |-> 0]

\* out is the assembly directory: outMade, and the chunks that are in it.
NoStaging == [made |-> FALSE, chunk |-> [c \in Chunk |-> "none"], outMade |-> FALSE, out |-> {}]

\* The task's inbox directory: the version and chunks of files/, and the version
\* that landed.json speaks of (0: there is none).
NoInbox == [made |-> FALSE, content |-> 0, hasFiles |-> FALSE, files |-> {}, receipt |-> 0]

Whole == inbox.hasFiles /\ inbox.files = Chunk

Init ==
    /\ task = "none" /\ log = 0
    /\ entry = NoEntry
    /\ push = IdlePush
    /\ fits \in [{"worker", "master"} -> BOOLEAN]
    /\ staging = [v \in Content |-> NoStaging]
    /\ inbox = NoInbox
    /\ dedup = 0 /\ done = {}
    /\ ends = [e \in Thread |-> IdleEnd]
    /\ sweep = IdleSweep
    /\ placed = {} /\ records = FALSE
    /\ settled = FALSE /\ noArchive = FALSE
    /\ loss = 0 /\ overlaps = 0 /\ discards = 0 /\ limits = 0 /\ crashW = 0 /\ crashM = 0
    /\ delivered = {} /\ discarded = {} /\ crossed = FALSE

-------------------------------------------------------------------------------
(* The worker: recording and enqueueing.                                   *)

\* enqueue_with_changeset: an entry that exists is left alone; without a record
\* nothing is queued.
Enqueued == IF entry.state # "none" \/ log = 0 THEN entry ELSE NewEntry(log)

\* The task writes a record; executed again after a restart, it writes a new one.
Record ==
    /\ task \in {"none", "running"} /\ log < MaxContent
    /\ task' = "running"
    /\ log' = log + 1
    /\ UNCHANGED <<entry, push, fits, master, bounds, history>>

\* The last record of the task was queued, or is left to the pull; "missed" if an
\* earlier version is in the way (a restart or a pull has queued it while the task was
\* executed again): enqueue is a no-op while that entry exists, and the pull does not
\* ask for an issue that has records.
Over(e) == IF e.content # log /\ (e.state # "none" \/ delivered # {}) THEN "missed" ELSE "ended"

\* on_task_terminal, whatever the outcome of the task.
Terminal ==
    /\ task = "running"
    /\ entry' = Enqueued
    /\ task' = Over(entry')
    /\ UNCHANGED <<log, push, fits, master, bounds, history>>

-------------------------------------------------------------------------------
(* The worker: process_once.                                               *)

\* The dead-letter gates: the attempts, and the age of seven days.
Due(old) == entry.attempts >= MaxAttempts \/ old

\* They come first.  The age is nowhere else of interest: it is chosen here.
Park ==
    /\ push.at = "idle" /\ entry.state = "pending"
    /\ \E old \in BOOLEAN :
          /\ Due(old)
          /\ entry' = [entry EXCEPT !.state = "dead", !.old = old]
    /\ UNCHANGED <<task, log, push, fits, master, bounds, history>>

\* Then the entry is marked pushing, and the local size limit is checked.
StartPush ==
    /\ push.at = "idle" /\ entry.state = "pending"
    /\ ~Due(FALSE)
    /\ IF fits["worker"]
       THEN /\ entry' = [entry EXCEPT !.state = "pushing"]
            /\ push' = [IdlePush EXCEPT !.at = "begin"]
       ELSE /\ entry' = [entry EXCEPT !.state = "over_limit"]
            /\ UNCHANGED push
    /\ UNCHANGED <<task, log, fits, master, bounds, history>>

\* A failed push leaves the entry pending.
Failed ==
    /\ entry' = [entry EXCEPT !.state = "pending", !.attempts = @ + 1]
    /\ push' = IdlePush

\* A confirmed one deletes it.
Delivered ==
    /\ delivered' = delivered \cup {entry.content}
    /\ entry' = NoEntry
    /\ push' = IdlePush

-------------------------------------------------------------------------------
(* transfer_begin.                                                         *)

\* A plausible bug: the index alone decides, although ingestion has moved the
\* record away.
DuplicateByIndex(v) == dedup = v

\* The record is in the index and still in the inbox.
Duplicate(v) == dedup = v /\ inbox.receipt # 0

\* A staging directory of the same content is resumed, else a new one is made.
Staged(v) == [staging EXCEPT ![v] = IF @.made THEN @ ELSE [NoStaging EXCEPT !.made = TRUE]]

\* list_received_chunks looks at the names of the files only.
Received(v) == {c \in Chunk : staging[v].chunk[c] # "none"}

\* A thread is still inside transfer_end.
EndRunning == \E e \in Thread : ends[e].at \notin {"idle", "replied"}

\* What goes wrong has one bound together.
Faults == loss + overlaps + discards + limits + crashW + crashM

\* An RPC is lost on the way or its answer is.
Lost == Faults < MaxFaults /\ loss' = loss + 1

\* A transfer_begin is served while an earlier transfer_end is still at work.
Overlap ==
    IF EndRunning THEN /\ Faults < MaxFaults
                       /\ overlaps' = overlaps + 1
                       /\ crossed' = TRUE
                  ELSE UNCHANGED <<overlaps, crossed>>

Begin ==
    LET v == entry.content IN
    /\ push.at = "begin"
    /\ \/ /\ ~fits["master"]
          /\ entry' = [entry EXCEPT !.state = "over_limit"]
          /\ push' = IdlePush
          /\ UNCHANGED <<staging, delivered, overlaps, crossed>>
       \/ /\ fits["master"] /\ Duplicate(v)
          /\ Overlap
          /\ Delivered
          /\ UNCHANGED staging
       \/ /\ fits["master"] /\ ~Duplicate(v)
          /\ Overlap
          /\ staging' = Staged(v)
          /\ push' = [push EXCEPT !.at = "send", !.have = Received(v)]
          /\ UNCHANGED <<entry, delivered>>
    /\ UNCHANGED <<task, log, fits, inbox, dedup, done, ends, sweep, placed, records, settled,
                   noArchive, loss, discards, limits, crashW, crashM, discarded>>

BeginLost(arrived) ==
    LET v == entry.content IN
    /\ push.at = "begin" /\ Lost
    /\ Failed
    /\ staging' = IF arrived /\ fits["master"] /\ ~Duplicate(v) THEN Staged(v) ELSE staging
    /\ UNCHANGED <<task, log, fits, inbox, dedup, done, ends, sweep, placed, records, settled,
                   noArchive, overlaps, discards, limits, crashW, crashM, history>>

-------------------------------------------------------------------------------
(* transfer_chunk.                                                         *)

Written(v, c) == [staging EXCEPT ![v].chunk[c] = "whole"]

\* push_transfer_dir sends what the master lacks in the order of the plan.
NextChunk(c) == c \in Chunk \ push.have /\ \A e \in Chunk \ push.have : c <= e

SendChunk(c) ==
    LET v == entry.content IN
    /\ push.at = "send" /\ NextChunk(c)
    /\ IF staging[v].made
       THEN /\ staging' = Written(v, c)
            /\ push' = [push EXCEPT !.have = @ \cup {c}]
            /\ UNCHANGED entry
       ELSE /\ Failed
            /\ UNCHANGED staging
    /\ UNCHANGED <<task, log, fits, inbox, dedup, done, ends, sweep, placed, records, settled,
                   noArchive, bounds, history>>

ChunkLost(c, arrived) ==
    LET v == entry.content IN
    /\ push.at = "send" /\ NextChunk(c) /\ Lost
    /\ Failed
    /\ staging' = IF arrived /\ staging[v].made THEN Written(v, c) ELSE staging
    /\ UNCHANGED <<task, log, fits, inbox, dedup, done, ends, sweep, placed, records, settled,
                   noArchive, overlaps, discards, limits, crashW, crashM, history>>

-------------------------------------------------------------------------------
(* transfer_end, as thread e executes it.                                  *)

EndAt(e, at) == ends' = [ends EXCEPT ![e].at = at]

Answer(e, ok) == ends' = [ends EXCEPT ![e].at = "replied", ![e].ok = ok]

\* The worker calls and waits for the answer of thread e.
CallEnd(e) ==
    /\ push.at = "send" /\ push.have = Chunk
    /\ ends[e].at = "idle"
    /\ ends' = [ends EXCEPT ![e] = [at |-> "open", content |-> entry.content, ok |-> FALSE, of |-> 0]]
    /\ push' = [push EXCEPT !.at = "await", !.thread = e]
    /\ UNCHANGED <<task, log, entry, fits, staging, inbox, dedup, done, sweep, placed, records,
                   settled, noArchive, bounds, history>>

\* Without a staging directory the .done marker answers; else out/ is made anew.
EndOpen(e) ==
    LET v == ends[e].content IN
    /\ ends[e].at = "open"
    /\ IF staging[v].made
       THEN /\ staging' = [staging EXCEPT ![v].outMade = TRUE, ![v].out = {}]
            /\ EndAt(e, "assemble")
       ELSE /\ Answer(e, v \in done)
            /\ UNCHANGED staging
    /\ UNCHANGED <<worker, inbox, dedup, done, sweep, placed, records, settled, noArchive, bounds,
                   history>>

\* Every chunk of the plan is there and has its length.
Assembled(v) == staging[v].made /\ \A c \in Chunk : staging[v].chunk[c] \in {"whole", "garbled"}

EndAssemble(e) ==
    LET v == ends[e].content IN
    /\ ends[e].at = "assemble"
    /\ IF Assembled(v)
       THEN /\ staging' = [staging EXCEPT ![v].outMade = TRUE,
                              ![v].out = {c \in Chunk : staging[v].chunk[c] = "whole"}]
            /\ EndAt(e, "verify")
       ELSE /\ Answer(e, FALSE)
            /\ UNCHANGED staging
    /\ UNCHANGED <<worker, inbox, dedup, done, sweep, placed, records, settled, noArchive, bounds,
                   history>>

\* A plausible bug: the assembled files are not compared with the manifest.
VerifiedAlways(v) == TRUE

Verified(v) == staging[v].made /\ staging[v].outMade /\ staging[v].out = Chunk

\* Verified files replace what the inbox has: first that is removed ...
EndVerify(e) ==
    /\ ends[e].at = "verify"
    /\ IF Verified(ends[e].content) THEN EndAt(e, "replace") ELSE Answer(e, FALSE)
    /\ UNCHANGED <<worker, staging, inbox, dedup, done, sweep, placed, records, settled, noArchive,
                   bounds, history>>

EndReplace(e) ==
    /\ ends[e].at = "replace"
    /\ inbox' = NoInbox
    /\ EndAt(e, "rename")
    /\ UNCHANGED <<worker, staging, dedup, done, sweep, placed, records, settled, noArchive, bounds,
                   history>>

\* ... then out/ is renamed.  If it is gone, the copy that is tried instead
\* leaves an empty directory.
EndRename(e) ==
    LET v == ends[e].content IN
    /\ ends[e].at = "rename"
    /\ IF staging[v].made /\ staging[v].outMade
       THEN /\ inbox' = [made |-> TRUE, content |-> v, hasFiles |-> TRUE,
                         files |-> staging[v].out, receipt |-> 0]
            /\ staging' = [staging EXCEPT ![v].outMade = FALSE, ![v].out = {}]
            /\ EndAt(e, "receipt")
       ELSE /\ inbox' = [NoInbox EXCEPT !.made = TRUE]
            /\ Answer(e, FALSE)
            /\ UNCHANGED staging
    /\ UNCHANGED <<worker, dedup, done, sweep, placed, records, settled, noArchive, bounds, history>>

\* The directory is made again if ingestion has taken it meanwhile.
EndReceipt(e) ==
    /\ ends[e].at = "receipt"
    /\ inbox' = [inbox EXCEPT !.made = TRUE, !.receipt = ends[e].content]
    /\ EndAt(e, "index")
    /\ UNCHANGED <<worker, staging, dedup, done, sweep, placed, records, settled, noArchive, bounds,
                   history>>

EndIndex(e) ==
    /\ ends[e].at = "index"
    /\ dedup' = ends[e].content
    /\ EndAt(e, "clean")
    /\ UNCHANGED <<worker, staging, inbox, done, sweep, placed, records, settled, noArchive, bounds,
                   history>>

EndClean(e) ==
    /\ ends[e].at = "clean"
    /\ staging' = [staging EXCEPT ![ends[e].content] = NoStaging]
    /\ EndAt(e, "mark")
    /\ UNCHANGED <<worker, inbox, dedup, done, sweep, placed, records, settled, noArchive, bounds,
                   history>>

EndMark(e) ==
    /\ ends[e].at = "mark"
    /\ done' = done \cup {ends[e].content}
    /\ EndAt(e, "announce")
    /\ UNCHANGED <<worker, staging, inbox, dedup, sweep, placed, records, settled, noArchive, bounds,
                   history>>

\* ingest_landed copies the files into the dossier; if there are none the copy fails
\* after its target was made.
Copied ==
    /\ records' = TRUE
    /\ placed' = IF Whole THEN placed \cup {inbox.content} ELSE placed

\* The version that was copied completely, or 0.
Taken == IF Whole THEN inbox.content ELSE 0

\* Then the inbox directory is removed, whatever has become of it since version v was
\* copied.
RemoveInbox(v) ==
    /\ inbox' = NoInbox
    /\ crossed' = (crossed \/ (Whole /\ inbox.content # v))

\* on_landed ingests at once, unless the issue has no dossier yet.
EndAnnounce(e) ==
    /\ ends[e].at = "announce"
    /\ \/ /\ UNCHANGED <<placed, records>>
          /\ Answer(e, TRUE)
       \/ /\ Copied
          /\ IF inbox.hasFiles
             THEN ends' = [ends EXCEPT ![e].at = "remove", ![e].of = Taken]
             ELSE Answer(e, TRUE)
    /\ UNCHANGED <<worker, staging, inbox, dedup, done, sweep, settled, noArchive, bounds, history>>

EndRemove(e) ==
    /\ ends[e].at = "remove"
    /\ RemoveInbox(ends[e].of)
    /\ Answer(e, TRUE)
    /\ UNCHANGED <<worker, staging, dedup, done, sweep, placed, records, settled, noArchive, bounds,
                   delivered, discarded>>

\* The answer reaches the worker, or nobody if it does not wait any more.
EndAnswered(e) ==
    /\ ends[e].at = "replied"
    /\ ends' = [ends EXCEPT ![e] = IdleEnd]
    /\ \/ /\ push.at = "await" /\ push.thread = e /\ ends[e].ok
          /\ Delivered
       \/ /\ push.at = "await" /\ push.thread = e /\ ~ends[e].ok
          /\ Failed
          /\ UNCHANGED delivered
       \/ /\ ~(push.at = "await" /\ push.thread = e)
          /\ UNCHANGED <<entry, push, delivered>>
    /\ UNCHANGED <<task, log, fits, staging, inbox, dedup, done, sweep, placed, records, settled,
                   noArchive, bounds, discarded, crossed>>

\* The request never arrived, the answer is lost, or the connection times out while
\* the thread is still at work.
EndLost ==
    LET e == push.thread IN
    /\ push.at = "await" /\ Lost
    /\ \/ /\ ends[e].at \in {"open", "replied"}
          /\ ends' = [ends EXCEPT ![e] = IdleEnd]
       \/ UNCHANGED ends
    /\ Failed
    /\ UNCHANGED <<task, log, fits, staging, inbox, dedup, done, sweep, placed, records, settled,
                   noArchive, overlaps, discards, limits, crashW, crashM, history>>

-------------------------------------------------------------------------------
(* The master: sweeps.                                                     *)

\* Leg 1 of sweep_missing_archives: whatever lies in the inbox is ingested, by a task
\* of its own.
SweepInbox ==
    /\ inbox.made /\ ~sweep.busy
    /\ Copied
    /\ sweep' = IF inbox.hasFiles THEN [busy |-> TRUE, of |-> Taken] ELSE sweep
    /\ UNCHANGED <<worker, staging, inbox, dedup, done, ends, settled, noArchive, bounds, history>>

SweepRemove ==
    /\ sweep.busy
    /\ RemoveInbox(sweep.of)
    /\ sweep' = IdleSweep
    /\ UNCHANGED <<worker, staging, dedup, done, ends, placed, records, settled, noArchive, bounds,
                   delivered, discarded>>

\* The dispatch becomes done or failed on the board, by callback or by timeout.
SettleDispatch ==
    /\ ~settled
    /\ settled' = TRUE
    /\ UNCHANGED <<worker, staging, inbox, dedup, done, ends, sweep, placed, records, noArchive, bounds,
                   history>>

\* Leg 2: a terminal dispatch without a record is pulled; request_pull queues
\* what the worker has.  Without an answer the next sweep asks again.
Pull ==
    /\ settled /\ ~records /\ ~inbox.made /\ ~noArchive /\ ~sweep.busy
    /\ entry' = Enqueued
    /\ noArchive' = (log = 0)
    /\ UNCHANGED <<task, log, push, fits, staging, inbox, dedup, done, ends, sweep, placed,
                   records, settled, bounds, history>>

\* sweep_stale_staging: a directory that nothing was written to for seven days.
SweepStaging(v) ==
    /\ staging[v].made /\ ~EndRunning
    /\ entry.content # v \/ entry.state \in {"dead", "over_limit"}
    /\ staging' = [staging EXCEPT ![v] = NoStaging]
    /\ UNCHANGED <<worker, inbox, dedup, done, ends, sweep, placed, records, settled, noArchive, bounds,
                   history>>

-------------------------------------------------------------------------------
(* The environment.                                                        *)

\* The configured limits change.
SetLimit(n) ==
    /\ Faults < MaxFaults
    /\ limits' = limits + 1
    /\ fits' = [fits EXCEPT ![n] = ~@]
    /\ UNCHANGED <<task, log, entry, push, master, loss, overlaps, discards, crashW, crashM, history>>

\* replay_dead_letter_entry.
Replay ==
    /\ entry.state = "dead"
    /\ entry' = NewEntry(entry.content)
    /\ UNCHANGED <<task, log, push, fits, master, bounds, history>>

\* The dossier's records are deleted by hand.
DiscardDossier ==
    /\ records /\ Faults < MaxFaults
    /\ discards' = discards + 1
    /\ records' = FALSE /\ placed' = {}
    /\ discarded' = discarded \cup placed
    /\ UNCHANGED <<worker, staging, inbox, dedup, done, ends, sweep, settled, noArchive, loss, overlaps,
                   limits, crashW, crashM, delivered, crossed>>

\* A plausible bug: an interrupted push stays "pushing".
SweptIgnoringPushing(old) ==
    IF entry.state = "over_limit" /\ fits["worker"] THEN [entry EXCEPT !.state = "pending"]
    ELSE IF old THEN entry ELSE Enqueued

\* sweep_startup: entries are armed again; a record without one is queued, unless
\* it is older than RESIDUAL_BACKFILL_MAX_AGE_SECS.
Swept(old) ==
    IF entry.state = "pushing" \/ (entry.state = "over_limit" /\ fits["worker"])
    THEN [entry EXCEPT !.state = "pending"]
    ELSE IF old THEN entry ELSE Enqueued

\* The worker restarts, soon or after days.  The task is executed again or, if it
\* is not in tasks.json, is over without its hook (see ClusterWorker).
CrashWorker ==
    /\ Faults < MaxFaults
    /\ crashW' = crashW + 1
    /\ push' = IdlePush
    /\ \E old \in BOOLEAN : entry' = Swept(old)
    /\ task' \in {task, IF task = "running" THEN Over(entry') ELSE task}
    /\ UNCHANGED <<log, fits, master, loss, overlaps, discards, limits, crashM, history>>

\* The master restarts.  The chunk it was receiving may be cut off or, if the whole
\* machine went down, have its length and not its bytes.
CrashMaster ==
    /\ Faults < MaxFaults
    /\ crashM' = crashM + 1
    /\ ends' = [e \in Thread |-> IdleEnd]
    /\ sweep' = IdleSweep
    /\ noArchive' = FALSE
    /\ \/ UNCHANGED staging
       \/ \E c \in Chunk :
             /\ push.at = "send" /\ NextChunk(c) /\ staging[entry.content].made
             /\ \E torn \in {"short", "garbled"} :
                   staging' = [staging EXCEPT ![entry.content].chunk[c] = torn]
    /\ IF push.at \in {"send", "await"} THEN Failed ELSE UNCHANGED <<entry, push>>
    /\ UNCHANGED <<task, log, fits, inbox, dedup, done, placed, records, settled,
                   loss, overlaps, discards, limits, crashW, history>>

-------------------------------------------------------------------------------
PushStep ==
    \/ Park \/ StartPush \/ Begin
    \/ \E c \in Chunk : SendChunk(c)
    \/ \E e \in Thread : CallEnd(e)

EndStep(e) ==
    \/ EndOpen(e) \/ EndAssemble(e) \/ EndVerify(e) \/ EndReplace(e) \/ EndRename(e)
    \/ EndReceipt(e) \/ EndIndex(e) \/ EndClean(e) \/ EndMark(e) \/ EndAnnounce(e)
    \/ EndRemove(e) \/ EndAnswered(e)

Losses ==
    \/ \E arrived \in BOOLEAN :
          BeginLost(arrived) \/ \E c \in Chunk : ChunkLost(c, arrived)
    \/ EndLost

Next ==
    \/ Record \/ Terminal
    \/ PushStep
    \/ \E e \in Thread : EndStep(e)
    \/ Losses
    \/ SweepInbox \/ SweepRemove \/ SettleDispatch \/ Pull
    \/ \E v \in Content : SweepStaging(v)
    \/ \E n \in {"worker", "master"} : SetLimit(n)
    \/ Replay \/ DiscardDossier
    \/ CrashWorker \/ CrashMaster

Spec == Init /\ [][Next]_vars

\* The push loop ticks every 15 seconds, the sink's threads run to their end, the
\* board's sweep settles overdue dispatches and looks for missing records in every
\* round.  That a project has a dossier at last is the users' part.
Fairness ==
    /\ WF_vars(PushStep)
    /\ \A e \in Thread : WF_vars(EndStep(e))
    /\ WF_vars(SweepInbox) /\ WF_vars(SweepRemove) /\ WF_vars(SettleDispatch) /\ WF_vars(Pull)

FairSpec == Spec /\ Fairness

-------------------------------------------------------------------------------
(* Properties.                                                             *)

\* The types of the variables; moreover the loop is at work exactly when the entry
\* says so, and process_once has stopped counting at DEAD_LETTER_MAX_ATTEMPTS.
TypeOK ==
    /\ task \in {"none", "running", "ended", "missed"} /\ log \in 0..MaxContent
    /\ entry \in [state : {"none", "pending", "pushing", "over_limit", "dead"},
                  content : 0..MaxContent, attempts : 0..MaxAttempts, old : BOOLEAN]
    /\ push \in [at : {"idle", "begin", "send", "await"}, have : SUBSET Chunk,
                 thread : Thread \cup {""}]
    /\ (push.at # "idle") = (entry.state = "pushing")
    /\ fits \in [{"worker", "master"} -> BOOLEAN]
    /\ staging \in [Content -> [made : BOOLEAN,
                                chunk : [Chunk -> {"none", "short", "garbled", "whole"}],
                                outMade : BOOLEAN, out : SUBSET Chunk]]
    /\ inbox \in [made : BOOLEAN, content : 0..MaxContent, hasFiles : BOOLEAN,
                  files : SUBSET Chunk, receipt : 0..MaxContent]
    /\ dedup \in 0..MaxContent /\ done \subseteq Content
    /\ ends \in [Thread -> [at : {"idle", "open", "assemble", "verify", "replace", "rename",
                                  "receipt", "index", "clean", "mark", "announce", "remove",
                                  "replied"},
                            content : 0..MaxContent, ok : BOOLEAN, of : 0..MaxContent]]
    /\ sweep \in [busy : BOOLEAN, of : 0..MaxContent]
    /\ placed \subseteq Content
    /\ {records, settled, noArchive, crossed} \subseteq BOOLEAN
    /\ {loss, overlaps, discards, limits, crashW, crashM} \subseteq 0..MaxFaults
    /\ delivered \subseteq Content /\ discarded \subseteq Content

\* The outbox entry is the sender's copy; the receiver's are the record that lies
\* complete in the inbox and the ones in the dossier.  A version that somebody deleted
\* from the dossier by hand was delivered all the same.
D == INSTANCE Delivery WITH
        outgoing <- entry.content,
        kept     <- placed \cup discarded \cup (IF Whole THEN {inbox.content} ELSE {}),
        void     <- crossed

\* The double deletion is safe: whatever is lost, repeated or interrupted, the
\* worker deletes its entry only when the master has every byte of that version in
\* the inbox or in the dossier, and the master gives up a version only while the
\* worker still keeps one to put in its place.
TransferDelivers == D!Spec

\* Reasons for which a record waits on the worker, visible on the dashboard; one is that every
\* attempt was lost or met an earlier one.
Parked ==
    \/ entry.state = "over_limit" \/ entry.old \/ noArchive
    \/ entry.state = "dead" /\ loss + overlaps >= MaxAttempts

\* A chunk that a crash of the master cut off counts as received (list_received_chunks
\* asks for the file only): every transfer_end fails until the entry is a dead letter.
Damaged == entry.state = "dead" /\ crashM > 0

\* What the task has recorded when it is over arrives: by the push its end or the
\* next start of the worker has queued, or by the pull of the master's sweep.  (A
\* record that an earlier version was in the way of is "missed".)
RecordArrives ==
    \A v \in Content :
        (task = "ended" /\ log = v) ~> (v \in delivered \/ Parked \/ Damaged)

\* The sweep has ingested a directory before it got its receipt: the receipt makes a
\* new one without files, which counts as a record on its way, and the ingestion of a
\* directory without files leaves an empty one in the dossier, which counts as a record.
Blocked == (inbox.made /\ ~inbox.hasFiles) \/ (records /\ placed = {})

\* A dossier that lost its records gets them back by the pull, although the index
\* knows the version as landed.
DossierIsRestored ==
    (task \in {"ended", "missed"} /\ settled /\ ~records)
        ~> (placed # {} \/ Parked \/ Damaged \/ Blocked)
===============================================================================
