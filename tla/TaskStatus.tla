----------------------------- MODULE TaskStatus -----------------------------
(***************************************************************************)
(* The task lifecycle table and the legality check that every status       *)
(* update of the repository passes through                                 *)
(* (task_orchestrator/state/transition_guard.py).                          *)
(***************************************************************************)

TaskStatuses == {"queued", "authorized", "dispatched", "running", "blocked",
                 "completed", "failed", "cancelled"}

\* transition_guard.LEGAL_TRANSITIONS
LEGAL_TRANSITIONS ==
  [s \in TaskStatuses |->
     CASE s = "queued"     -> {"authorized", "blocked", "cancelled", "failed"}
       [] s = "authorized" -> {"dispatched", "blocked", "failed", "cancelled"}
       [] s = "dispatched" -> {"running", "blocked", "completed", "failed",
                               "cancelled"}
       [] s = "running"    -> {"completed", "failed", "blocked", "cancelled"}
       [] s = "blocked"    -> {"queued", "dispatched", "cancelled", "failed"}
       [] OTHER            -> {}]

\* Mutated form: the guard that forgets that a task which has been handed
\* over may still fail.
DispatchedIsFinal(current, next) ==
  next \in LEGAL_TRANSITIONS[current] \ (IF current = "dispatched"
                                         THEN {"failed"} ELSE {})

\* transition_guard.assert_legal_transition: TRUE when it does not raise.
assert_legal_transition(current, next) == next \in LEGAL_TRANSITIONS[current]

\* The check in update_task_status: writing the status a row already has is
\* not checked, any other write must be a legal transition.
MayUpdate(current, next) ==
  current = next \/ assert_legal_transition(current, next)

=============================================================================
