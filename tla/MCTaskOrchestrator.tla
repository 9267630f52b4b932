------------------------- MODULE MCTaskOrchestrator -------------------------
(***************************************************************************)
(* Small instances of TaskOrchestrator for TLC.                            *)
(***************************************************************************)
EXTENDS TaskOrchestrator, TLC

CONSTANTS t1, t2, p1, a1

\* What the shipped policy.rego attaches to an allow ...
RegoObligations == {{"emit_audit_event", "reserve_budget"}}

\* ... and what the dispatcher must be able to deal with.
EveryHandler ==
  {{"emit_audit_event", "reserve_budget"},
   {"require_owner_approval", "reserve_budget"},
   {"reserve_budget", "unrecognised"}}

\* Task ids are interchangeable: nothing orders them.
TaskSymmetry == Permutations({t1, t2})

=============================================================================
