------------------------------ MODULE ProjectRepo ------------------------------
(***************************************************************************)
(* The repository of a project and what the board says about it            *)
(* (nemesis-board/src/git_repo.rs, board_archive_ingest.rs).  The content  *)
(* of a file is the set of authors whose changes it holds.  BoardMerge has *)
(* the threads that write to it.                                           *)
(***************************************************************************)
CONSTANTS Task,       \* dispatches with a baseline
          File,       \* files of the project
          Edits,      \* Edits[t]: the files that the change-set of t touches
          Cargo       \* Cargo[t]: what the record of t may hold: "files", "empty" (no change-set)
                      \* or "void" (made from another baseline, or not readable)

ASSUME EditsAssumption == Edits \in [Task -> SUBSET File]
ASSUME CargoAssumption == Cargo \in [Task -> SUBSET {"files", "empty", "void"}]
ASSUME NameAssumption == {"hand", "none"} \cap Task = {}

VARIABLES
    \* On disk
    repo,      \* repo[f]: file f in the HEAD of the project
    dirty,     \* files that were changed by hand and not committed
    dispatch,  \* dispatch[t]: the state of its row
    cargo,     \* cargo[t]: what its record in the dossier holds, "none" before it landed
    \* History
    edited,    \* files that were ever changed by hand
    reported,  \* issues with the comment that their change-set is merged
    given,     \* <<a, f>>: the LLM saw the change of a to f and decided against it
    overrun    \* <<a, f>>: a commit of the resolver left it out and nobody decided so

Author == Task \cup {"hand"}

\* commit_worktree
Tip == [f \in File |-> repo[f] \cup (IF f \in dirty THEN {"hand"} ELSE {})]

\* Only a delivery that its own dispatch has settled, made from that dispatch's baseline, enters
\* the repository: not the record of a cancelled or failed dispatch, however late it lands (E8).
\* And what was reported as merged, or written by hand, stays there whatever is merged, replayed or
\* deferred around it; only a commit of the resolver takes it away.
RepositoryIsRight ==
    /\ \A f \in File : \A t \in repo[f] \cap Task : dispatch[t] = "done" /\ cargo[t] = "files"
    /\ \A t \in reported : cargo[t] = "files" =>
          \A f \in Edits[t] : t \in repo[f] \/ <<t, f>> \in given \cup overrun
    /\ \A f \in edited : "hand" \in Tip[f] \/ <<"hand", f>> \in given \cup overrun

\* What the board reports as merged is in the repository, or the LLM has seen it and decided
\* against it.
ReportedIsKept ==
    \A t \in reported : cargo[t] = "files" =>
        \A f \in Edits[t] : t \in repo[f] \/ <<t, f>> \in given
================================================================================
