--------------------------- MODULE MCProjectSpaces --------------------------
(***************************************************************************)
(* Small instances of ProjectSpaces for TLC.                               *)
(***************************************************************************)
EXTENDS ProjectSpaces, TLC

CONSTANTS th1, th2, ann

AllEndpoints ==
  {"create", "message", "approve", "initialize", "bind", "report",
   "approve_completion", "finalize", "pause", "resume", "terminate", "archive"}

\* What brings a project to activity and to its end.
EndingEndpoints ==
  {"create", "approve", "initialize", "report", "approve_completion",
   "finalize", "terminate"}

ThreadSymmetry == Permutations({th1, th2})

=============================================================================
