------------------------ MODULE MCProjectGovernance -------------------------
(***************************************************************************)
(* Small instances of ProjectGovernance for TLC.                           *)
(***************************************************************************)
EXTENDS ProjectGovernance, TLC

CONSTANTS th1, th2, ann, bob

AllEndpoints ==
  {"create", "message", "approve", "initialize", "bind", "report",
   "approve_completion", "finalize", "pause", "resume", "terminate", "archive"}

\* The approvals and what they need, for the instance with two actors.
ApprovalEndpoints ==
  {"create", "approve", "initialize", "report", "approve_completion", "finalize"}

Symmetry == Permutations({th1, th2}) \union Permutations({ann, bob})

=============================================================================
