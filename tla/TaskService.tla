----------------------------- MODULE TaskService ----------------------------
(***************************************************************************)
(* What the governed task path promises of each task, without a worker, a  *)
(* graph or a poll: it is submitted once, may be permitted, is handed to   *)
(* an adapter at most once and only while it is permitted, and is closed   *)
(* for good.  A task may be closed without having been handed over, and    *)
(* one that was permitted may wait forever.                                *)
(***************************************************************************)
EXTENDS Naturals

CONSTANT Tasks

VARIABLES
  phase,  \* what the owner can be told of the task
  handed  \* how often it was handed over

vars == <<phase, handed>>

Init ==
  /\ phase = [t \in Tasks |-> "unknown"]
  /\ handed = [t \in Tasks |-> 0]

Move(t, p, q) == phase[t] = p /\ phase' = [phase EXCEPT ![t] = q]

Submit(t) == Move(t, "unknown", "waiting") /\ UNCHANGED handed

Permit(t) == Move(t, "waiting", "permitted") /\ UNCHANGED handed

HandOver(t) ==
  /\ phase[t] = "permitted" /\ handed[t] = 0
  /\ handed' = [handed EXCEPT ![t] = 1]
  /\ UNCHANGED phase

Close(t) ==
  /\ Move(t, "waiting", "closed") \/ Move(t, "permitted", "closed")
  /\ UNCHANGED handed

Next == \E t \in Tasks : Submit(t) \/ Permit(t) \/ HandOver(t) \/ Close(t)

Spec == Init /\ [][Next]_vars

=============================================================================
