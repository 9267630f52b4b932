---------------------------- MODULE ProjectStatus ---------------------------
(***************************************************************************)
(* The statuses of a project and the lifecycle table                       *)
(* (control_plane/governance/project_lifecycle.py).                        *)
(***************************************************************************)

ProjectStatuses == {"proposed", "approved", "active", "paused", "completed",
                    "terminated", "archived"}

\* project_lifecycle._ALLOWED_TRANSITIONS
ALLOWED_TRANSITIONS ==
  [s \in ProjectStatuses |->
     CASE s = "proposed"   -> {"proposed", "approved"}
       [] s = "approved"   -> {"active"}
       [] s = "active"     -> {"paused", "completed", "terminated"}
       [] s = "paused"     -> {"active", "terminated"}
       [] s = "completed"  -> {"archived"}
       [] s = "terminated" -> {"archived"}
       [] OTHER            -> {}]

=============================================================================
