------------------------------- MODULE BoardMerge -------------------------------
(***************************************************************************)
(* How the change-set of a delivered task enters the project's repository  *)
(* (nemesisbot/src/board_archive_ingest.rs, conflict_resolver.rs,          *)
(* nemesis-board/src/git_repo.rs).  The answer of the worker and its       *)
(* record arrive in any order on two threads; whoever comes second merges. *)
(* A conflict freezes the project until somebody resumes it, or is given   *)
(* to the LLM (conflict_auto_resolve).                                     *)
(*                                                                         *)
(* One project, and one dispatch per task, each for an issue of its own    *)
(* (BoardDispatch has the dispatches of one issue).  The content of a file *)
(* is the set of authors whose changes it holds; whether two changes of a  *)
(* file collide is an input.  How a record reaches the dossier is in       *)
(* Transfer.  Errors of the store and of git are left out.                 *)
(***************************************************************************)
EXTENDS Naturals, Sequences, FiniteSets, IssueStatus, ProjectRepo

CONSTANTS Thread,     \* threads that run a callback or a handler
          MaxShocks   \* bound on crashes, emergency stops, operations by hand and
                      \* records that land again

ASSUME MergeBoundAssumption == MaxShocks \in Nat

VARIABLES
    \* On disk
    base,      \* base[t]: the repository when t was dispatched
    status,    \* status[t]: of its issue
    frozen,    \* conflict_frozen
    pending,   \* pending_merges
    inflight,  \* issues with the comment that their change-set is on its way
    noticed,   \* issues whose last such comment is followed by that of a merge
    told,      \* issues with a comment that asks somebody to look, or says what became of them
    \* In memory
    estop, wake,   \* the emergency stop; the watcher of its release has something to look at
    placed,    \* PLACED
    merged,    \* MERGED
    thr,       \* thr[w]: what thread w is doing
    resolver,  \* resolver[t]: the task that asks the LLM to resolve a conflict
    shocks,
    \* History
    cut,       \* a crash fell between delivery and review, and nothing tells of it
    stuck      \* waited in the queue while the project was not frozen and nobody replayed it

disk    == <<repo, dirty, base, dispatch, status, cargo, frozen, pending, inflight, noticed, told>>
memory  == <<estop, wake, placed, merged, thr, resolver>>
history == <<edited, reported, given, overrun, cut, stuck>>
vars    == <<disk, memory, shocks, history>>

-------------------------------------------------------------------------------
Idle == [pc |-> "idle", task |-> "none", kind |-> "none", todo |-> {}]
NoResolver == [at |-> "none", ours |-> <<>>]

At(w, pc) == thr[w].pc = pc
Goto(w, pc) == thr' = [thr EXCEPT ![w].pc = pc]
Begin(w, pc, t, kind) == thr' = [thr EXCEPT ![w] = [Idle EXCEPT !.pc = pc, !.task = t, !.kind = kind]]

\* merge_and_maybe_review returns: the release watcher goes on with the next task, resume with
\* the next entry of the queue.
Return(w) ==
    thr' = [thr EXCEPT ![w] = CASE thr[w].kind = "watch"  -> [@ EXCEPT !.pc = "next"]
                                [] thr[w].kind = "resume" -> [@ EXCEPT !.pc = "pop"]
                                [] OTHER                  -> Idle]

\* MERGE_SERIAL is held until the merge is reported.
Serial == \E w \in Thread : thr[w].pc \in {"finish", "settle", "park"}

Queued(t) == \E i \in DOMAIN pending : pending[i] = t
Replaying == \E w \in Thread : thr[w].kind = "resume"

Init ==
    /\ repo = [f \in File |-> {}] /\ dirty = {}
    /\ base = [t \in Task |-> repo]
    /\ dispatch = [t \in Task |-> "none"]
    /\ status = [t \in Task |-> "todo"]
    /\ cargo = [t \in Task |-> "none"]
    /\ frozen = FALSE /\ pending = <<>>
    /\ inflight = {} /\ noticed = {} /\ told = {}
    /\ estop = FALSE /\ wake = FALSE
    /\ placed = {} /\ merged = {}
    /\ thr = [w \in Thread |-> Idle]
    /\ resolver = [t \in Task |-> NoResolver]
    /\ shocks = 0
    /\ edited = {} /\ reported = {} /\ given = {} /\ overrun = {} /\ cut = {} /\ stuck = {}

-------------------------------------------------------------------------------
(* What comes from outside *)

\* dispatch_issue_core: refused under the emergency stop and in a frozen project; the worker gets
\* the HEAD (push_dispatch_baseline).
Dispatch(t) ==
    /\ dispatch[t] = "none" /\ ~estop /\ ~frozen
    /\ dispatch' = [dispatch EXCEPT ![t] = "active"]
    /\ status' = [status EXCEPT ![t] = "in_progress"]
    /\ base' = [base EXCEPT ![t] = repo]
    /\ UNCHANGED <<repo, dirty, cargo, frozen, pending, inflight, noticed, told, memory, shocks, history>>

\* write_back_board_dispatch: a delivery is merged first, a failure goes to review at once.
WriteBack(w, t, outcome) ==
    /\ dispatch[t] = "active"
    /\ At(w, "idle")
    /\ dispatch' = [dispatch EXCEPT ![t] = outcome]
    /\ IF outcome = "done"
       THEN Begin(w, "check", t, "write") /\ UNCHANGED status
       ELSE /\ status' = IF status[t] = "in_progress" THEN [status EXCEPT ![t] = "in_review"] ELSE status
            /\ UNCHANGED thr
    /\ UNCHANGED <<repo, dirty, base, cargo, frozen, pending, inflight, noticed, told,
                   estop, wake, placed, merged, resolver, shocks, history>>

\* ingest_landed: the record is in the dossier and in PLACED.  A record may land again (to bound
\* the model, not while the LLM resolves its conflict; the same holds for Retry).
Land(w, t) ==
    /\ dispatch[t] # "none" /\ At(w, "idle")
    /\ \/ cargo[t] = "none" /\ UNCHANGED shocks /\ \E c \in Cargo[t] : cargo' = [cargo EXCEPT ![t] = c]
       \/ cargo[t] # "none" /\ shocks < MaxShocks /\ resolver[t].at = "none"
          /\ shocks' = shocks + 1 /\ UNCHANGED cargo
    /\ placed' = placed \cup {t}
    /\ Begin(w, "check", t, "land")
    /\ UNCHANGED <<repo, dirty, base, dispatch, status, frozen, pending, inflight, noticed, told,
                   estop, wake, merged, resolver, history>>

\* issue.cancel
Cancel(t) ==
    /\ shocks < MaxShocks /\ CanTransition(status[t], "cancelled")
    /\ shocks' = shocks + 1
    /\ dispatch' = IF dispatch[t] = "active" THEN [dispatch EXCEPT ![t] = "cancelled"] ELSE dispatch
    /\ status' = [status EXCEPT ![t] = "cancelled"]
    /\ UNCHANGED <<repo, dirty, base, cargo, frozen, pending, inflight, noticed, told, memory, history>>

\* Somebody edits a file of the project.
Edit(f) ==
    /\ shocks < MaxShocks /\ f \notin edited
    /\ shocks' = shocks + 1
    /\ dirty' = dirty \cup {f} /\ edited' = edited \cup {f}
    /\ UNCHANGED <<repo, base, dispatch, status, cargo, frozen, pending, inflight, noticed, told, memory,
                   reported, given, overrun, cut, stuck>>

\* retry_merge_for_issue
Retry(w, t) ==
    /\ shocks < MaxShocks /\ ~estop /\ At(w, "idle")
    /\ cargo[t] # "none" /\ t \notin merged /\ resolver[t].at = "none"
    /\ shocks' = shocks + 1
    /\ placed' = placed \cup {t}
    /\ Begin(w, "check", t, "retry")
    /\ UNCHANGED <<disk, estop, wake, merged, resolver, history>>

Engage ==
    /\ ~estop /\ shocks < MaxShocks
    /\ estop' = TRUE /\ wake' = TRUE /\ shocks' = shocks + 1
    /\ UNCHANGED <<disk, placed, merged, thr, resolver, history>>

Release ==
    /\ estop
    /\ estop' = FALSE /\ wake' = TRUE
    /\ UNCHANGED <<disk, placed, merged, thr, resolver, shocks, history>>

-------------------------------------------------------------------------------
(* merge_and_maybe_review_with *)

\* The record of t has landed, and a crash has lost its entry in PLACED.
Forgotten(t, w) == cargo[t] # "none" /\ t \notin placed /\ \A v \in Thread \ {w} : thr[v].task # t

\* MERGED, the state of the dispatch and the emergency stop, which leaves no comment
Check(w) ==
    LET t == thr[w].task IN
    /\ At(w, "check")
    /\ IF t \notin merged /\ dispatch[t] = "done" /\ ~estop THEN Goto(w, "take") ELSE Return(w)
    /\ IF t \notin merged /\ dispatch[t] \in {"failed", "cancelled"}
       THEN placed' = placed \ {t}
       ELSE UNCHANGED placed
    /\ cut' = IF dispatch[t] = "done" /\ estop /\ Forgotten(t, w) THEN cut \cup {t} ELSE cut
    /\ UNCHANGED <<disk, estop, wake, merged, resolver, shocks, edited, reported, given, overrun, stuck>>

\* PLACED.remove: one thread gets the record.  The one that writes back says that it is on its way.
Take(w) ==
    LET t == thr[w].task IN
    /\ At(w, "take")
    /\ placed' = placed \ {t}
    /\ IF t \in placed THEN Goto(w, "gate")
       ELSE IF thr[w].kind = "write" THEN Goto(w, "note")
       ELSE Return(w)
    /\ UNCHANGED <<disk, estop, wake, merged, resolver, shocks, history>>

Note(w) ==
    /\ At(w, "note")
    /\ inflight' = inflight \cup {thr[w].task}
    /\ noticed' = noticed \ {thr[w].task}
    /\ Return(w)
    /\ UNCHANGED <<repo, dirty, base, dispatch, status, cargo, frozen, pending, told,
                   estop, wake, placed, merged, resolver, shocks, history>>

\* The project is frozen, or not, when it is looked at; the lock is taken later.
Gate(w) ==
    /\ At(w, "gate")
    /\ Goto(w, IF frozen THEN "defer" ELSE "merge")
    /\ UNCHANGED <<disk, estop, wake, placed, merged, resolver, shocks, history>>

\* append_pending_merge: one entry per task.  Nobody looks at the queue of a project that was
\* resumed meanwhile.
Defer(w) ==
    LET t == thr[w].task IN
    /\ At(w, "defer")
    /\ pending' = IF Queued(t) THEN pending ELSE Append(pending, t)
    /\ stuck' = IF frozen \/ Replaying THEN stuck ELSE stuck \cup {t}
    /\ Return(w)
    /\ UNCHANGED <<repo, dirty, base, dispatch, status, cargo, frozen, inflight, noticed, told,
                   estop, wake, placed, merged, resolver, shocks, edited, reported, given, overrun, cut>>

\* A plausible bug: the content of the worker replaces what others have merged since.
MergedTreeTheirs(t) == [f \in File |-> IF f \in Edits[t] THEN base[t][f] \cup {t} ELSE Tip[f]]

\* merge_changeset: changes of others since the baseline are kept, and may collide.
MergedTree(t) == [f \in File |-> IF f \in Edits[t] THEN Tip[f] \cup {t} ELSE Tip[f]]

Collisions(t) == SUBSET {f \in Edits[t] : Tip[f] \ {t} # base[t][f]}

\* Nothing is merged: the change-set belongs to another round, or cannot be read.  Who merges or resumes is told.
Discard(w) ==
    LET t == thr[w].task IN
    /\ At(w, "merge") /\ ~Serial /\ cargo[t] = "void"
    /\ told' = told \cup {t}
    /\ Return(w)
    /\ UNCHANGED <<repo, dirty, base, dispatch, status, cargo, frozen, pending, inflight, noticed,
                   estop, wake, placed, merged, resolver, shocks, history>>

\* There is nothing to merge, or it merges.
Merge(w) ==
    LET t == thr[w].task IN
    /\ At(w, "merge") /\ ~Serial
    /\ \/ cargo[t] = "empty" /\ UNCHANGED <<repo, dirty>>
       \/ cargo[t] = "files" /\ repo' = MergedTree(t) /\ dirty' = {}
    /\ merged' = merged \cup {t}
    /\ Goto(w, "finish")
    /\ UNCHANGED <<base, dispatch, status, cargo, frozen, pending, inflight, noticed, told,
                   estop, wake, placed, resolver, shocks, history>>

\* finish_merged_review: the comment, then the transition
Finish(w) ==
    LET t == thr[w].task IN
    /\ At(w, "finish")
    /\ reported' = reported \cup {t}
    /\ noticed' = IF cargo[t] = "files" THEN noticed \cup {t} ELSE noticed
    /\ Goto(w, "settle")
    /\ UNCHANGED <<repo, dirty, base, dispatch, status, cargo, frozen, pending, inflight, told,
                   estop, wake, placed, merged, resolver, shocks, edited, given, overrun, cut, stuck>>

ToReview(t) == status' = IF CanTransition(status[t], "in_review") THEN [status EXCEPT ![t] = "in_review"] ELSE status

Settle(w) ==
    /\ At(w, "settle")
    /\ ToReview(thr[w].task)
    /\ Return(w)
    /\ UNCHANGED <<repo, dirty, base, dispatch, cargo, frozen, pending, inflight, noticed, told,
                   estop, wake, placed, merged, resolver, shocks, history>>

\* handle_merge_conflict: HEAD only gets what was changed by hand.  The project is frozen, or,
\* if conflict_auto_resolve is on and nobody resumes, the LLM gets the files.
Conflict(w) ==
    LET t == thr[w].task IN
    /\ At(w, "merge") /\ ~Serial /\ cargo[t] = "files"
    /\ repo' = Tip /\ dirty' = {}
    /\ \E files \in Collisions(t) \ {{}} :
          \/ frozen' = TRUE /\ Goto(w, "park") /\ UNCHANGED resolver
          \/ /\ thr[w].kind # "resume"
             /\ resolver' = [resolver EXCEPT ![t] = [at |-> "solve", ours |-> [f \in files |-> Tip[f]]]]
             /\ Return(w)
             /\ UNCHANGED frozen
    /\ UNCHANGED <<base, dispatch, status, cargo, pending, inflight, noticed, told,
                   estop, wake, placed, merged, shocks, history>>

\* park_merge.  A replay stops here and leaves the rest of the queue.
Park(w) ==
    /\ At(w, "park")
    /\ told' = told \cup {thr[w].task}
    /\ IF thr[w].kind = "resume" THEN thr' = [thr EXCEPT ![w] = Idle] ELSE Return(w)
    /\ UNCHANGED <<repo, dirty, base, dispatch, status, cargo, frozen, pending, inflight, noticed,
                   estop, wake, placed, merged, resolver, shocks, history>>

-------------------------------------------------------------------------------
(* Release and resume *)

\* A plausible bug: what the emergency stop held up is not tried again.
WatchIdly(w) ==
    /\ wake /\ At(w, "idle")
    /\ wake' = FALSE
    /\ UNCHANGED <<disk, estop, placed, merged, thr, resolver, shocks, history>>

\* spawn_estop_resume_watcher, retry_placed_merges
Watch(w) ==
    /\ wake /\ At(w, "idle")
    /\ wake' = FALSE
    /\ thr' = IF estop THEN thr
              ELSE [thr EXCEPT ![w] = [Idle EXCEPT !.pc = "next", !.kind = "watch", !.todo = placed]]
    /\ UNCHANGED <<disk, estop, placed, merged, resolver, shocks, history>>

WatchNext(w) ==
    /\ At(w, "next")
    /\ IF thr[w].todo = {} THEN thr' = [thr EXCEPT ![w] = Idle]
       ELSE \E t \in thr[w].todo :
               thr' = [thr EXCEPT ![w].pc = "check", ![w].task = t, ![w].todo = @ \ {t}]
    /\ UNCHANGED <<disk, estop, wake, placed, merged, resolver, shocks, history>>

\* replay_pending_merges: the project is not frozen any more, and what was done by hand is committed.
Resume(w) ==
    /\ frozen /\ ~estop /\ At(w, "idle") /\ ~Replaying
    /\ frozen' = FALSE
    /\ repo' = Tip /\ dirty' = {}
    /\ Begin(w, "pop", "none", "resume")
    /\ UNCHANGED <<base, dispatch, status, cargo, pending, inflight, noticed, told,
                   estop, wake, placed, merged, resolver, shocks, history>>

\* pop_pending_merge: the entry leaves the queue before it is merged.
Pop(w) ==
    /\ At(w, "pop")
    /\ IF pending = <<>>
       THEN thr' = [thr EXCEPT ![w] = Idle] /\ UNCHANGED pending
       ELSE /\ thr' = [thr EXCEPT ![w].pc = "merge", ![w].task = Head(pending)]
            /\ pending' = Tail(pending)
    /\ UNCHANGED <<repo, dirty, base, dispatch, status, cargo, frozen, inflight, noticed, told,
                   estop, wake, placed, merged, resolver, shocks, history>>

-------------------------------------------------------------------------------
(* run_resolver *)

\* fallback_freeze: the emergency stop, no LLM, no budget, or the issue cannot be dispatched again.
ResolverGivesUp(t) ==
    /\ resolver[t].at = "solve"
    /\ resolver' = [resolver EXCEPT ![t] = NoResolver]
    /\ frozen' = TRUE
    /\ told' = told \cup {t}
    /\ UNCHANGED <<repo, dirty, base, dispatch, status, cargo, pending, inflight, noticed,
                   estop, wake, placed, merged, thr, shocks, history>>

\* redispatch_after_failed_resolve: another dispatch takes over the issue, with a comment.
ResolverRedispatches(t) ==
    /\ resolver[t].at = "solve" /\ ~estop /\ ~frozen
    /\ resolver' = [resolver EXCEPT ![t] = NoResolver]
    /\ told' = told \cup {t}
    /\ UNCHANGED <<repo, dirty, base, dispatch, status, cargo, frozen, pending, inflight, noticed,
                   estop, wake, placed, merged, thr, shocks, history>>

\* What the LLM makes of file f: a merge of both sides, ours, or theirs
Resolution(t, f, action) ==
    CASE action = "merge"  -> resolver[t].ours[f] \cup {t}
      [] action = "ours"   -> resolver[t].ours[f]
      [] action = "theirs" -> base[t][f] \cup {t}

\* commit_resolution: the conflicting files of HEAD are replaced, nothing else of the change-set
\* is, and the working copy is reset unless HEAD stays as it is.
ResolverCommits(t) ==
    LET files == DOMAIN resolver[t].ours
        seen  == {x \in Author \X files : x[1] \in resolver[t].ours[x[2]] \cup {t}}
    IN
    /\ resolver[t].at = "solve" /\ ~Serial
    /\ \E action \in [files -> {"merge", "ours", "theirs"}] :
          LET new  == [f \in File |-> IF f \in files THEN Resolution(t, f, action[f]) ELSE repo[f]]
              kept == IF new = repo THEN Tip ELSE new
              lost == {x \in Author \X File :
                          \/ x[1] \in Tip[x[2]] \ kept[x[2]]
                          \/ x[1] = t /\ x[2] \in Edits[t] /\ t \notin new[x[2]]}
          IN
          /\ repo' = new
          /\ dirty' = IF new = repo THEN dirty ELSE {}
          /\ given' = given \cup (lost \cap seen)
          /\ overrun' = overrun \cup (lost \ seen)
    /\ resolver' = [resolver EXCEPT ![t] = [at |-> "finish", ours |-> <<>>]]
    /\ UNCHANGED <<base, dispatch, status, cargo, frozen, pending, inflight, noticed, told,
                   estop, wake, placed, merged, thr, shocks, edited, reported, cut, stuck>>

\* finish_merged_review with a comment that the sentinel does not look for
ResolverFinishes(t) ==
    /\ resolver[t].at = "finish"
    /\ resolver' = [resolver EXCEPT ![t] = NoResolver]
    /\ reported' = reported \cup {t}
    /\ ToReview(t)
    /\ UNCHANGED <<repo, dirty, base, dispatch, cargo, frozen, pending, inflight, noticed, told,
                   estop, wake, placed, merged, thr, shocks, edited, given, overrun, cut, stuck>>

-------------------------------------------------------------------------------
\* sweep_archive_stalls: a change-set that was on its way is not merged.
Stall(t) ==
    /\ status[t] = "in_progress" /\ t \in inflight \ (told \cup noticed)
    /\ told' = told \cup {t}
    /\ UNCHANGED <<repo, dirty, base, dispatch, status, cargo, frozen, pending, inflight, noticed,
                   memory, shocks, history>>

\* The gateway stops and starts: PLACED, MERGED and the threads are gone, and nothing looks for
\* records that were not merged, or for a queue whose replay was cut.
Crash ==
    /\ shocks < MaxShocks
    /\ shocks' = shocks + 1
    /\ estop' = FALSE /\ wake' = FALSE
    /\ placed' = {} /\ merged' = {}
    /\ thr' = [w \in Thread |-> Idle]
    /\ resolver' = [t \in Task |-> NoResolver]
    /\ cut' = cut \cup {t \in Task \ (inflight \ noticed) : dispatch[t] = "done" /\ ~Queued(t)}
    /\ stuck' = IF frozen THEN stuck ELSE stuck \cup {t \in Task : Queued(t)}
    /\ UNCHANGED <<disk, edited, reported, given, overrun>>

-------------------------------------------------------------------------------
ThreadStep(w) ==
    \/ Check(w) \/ Take(w) \/ Note(w) \/ Gate(w) \/ Defer(w) \/ Discard(w) \/ Merge(w) \/ Conflict(w)
    \/ Finish(w) \/ Settle(w) \/ Park(w) \/ WatchNext(w) \/ Pop(w)

ResolverStep(t) ==
    ResolverGivesUp(t) \/ ResolverRedispatches(t) \/ ResolverCommits(t) \/ ResolverFinishes(t)

Next ==
    \/ \E w \in Thread :
          \/ ThreadStep(w) \/ Watch(w) \/ Resume(w)
          \/ \E t \in Task :
                \/ Land(w, t) \/ Retry(w, t)
                \/ \E outcome \in {"done", "failed"} : WriteBack(w, t, outcome)
    \/ \E t \in Task : Dispatch(t) \/ Cancel(t) \/ ResolverStep(t) \/ Stall(t)
    \/ \E f \in File : Edit(f)
    \/ Engage \/ Release \/ Crash

Spec == Init /\ [][Next]_vars

\* Threads and tasks run, the emergency stop is released some day and its watcher gets a thread,
\* the sentinel sweeps.  Neither a worker nor somebody who resumes the project owes anything.
Fairness ==
    /\ \A w \in Thread : WF_vars(ThreadStep(w))
    /\ \A t \in Task : WF_vars(ResolverStep(t)) /\ WF_vars(Stall(t))
    /\ WF_vars(Release) /\ SF_vars(\E w \in Thread : Watch(w))

FairSpec == Spec /\ Fairness

-------------------------------------------------------------------------------
\* A delivery whose record has landed does not stay in progress unseen: it is merged and reviewed,
\* queued in a frozen project, or somebody is told; whichever of answer and record comes first,
\* and also across an emergency stop.  Excepted are deliveries that a crash cut before their review
\* (`cut') and entries of a queue that nobody replays (`stuck').
DeliveryEnds ==
    \A t \in Task :
        (dispatch[t] = "done" /\ cargo[t] # "none" /\ status[t] = "in_progress")
            ~> (\/ status[t] # "in_progress" \/ t \in told \cup cut \cup stuck
                \/ Queued(t) /\ frozen)
=============================================================================
