------------------------------ MODULE IssueStatus ------------------------------
(* The status of an issue and its changes (nemesis-board/src/state_machine.rs). *)

Status == {"backlog", "todo", "in_progress", "in_review", "done", "blocked", "cancelled"}

\* can_transition
CanTransition(from, to) ==
    to \in CASE from = "backlog"     -> {"todo", "in_progress", "done", "blocked", "cancelled"}
             [] from = "todo"        -> {"in_progress", "done", "blocked", "cancelled"}
             [] from = "in_progress" -> {"in_review", "done", "blocked", "cancelled"}
             [] from = "in_review"   -> {"in_progress", "done", "blocked", "cancelled"}
             [] from = "blocked"     -> {"todo", "in_progress", "cancelled"}
             [] from = "cancelled"   -> {"backlog"}
             [] OTHER                -> {}
================================================================================
