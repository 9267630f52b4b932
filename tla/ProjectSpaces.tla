---------------------------- MODULE ProjectSpaces ---------------------------
(***************************************************************************)
(* Project spaces on top of ProjectGovernance: after the project document  *)
(* is written, the endpoints initialize, finalize and terminate create,    *)
(* archive and lock the project's Discord channel through                  *)
(* ProjectSpaceBindingService.  An exception of that part is logged and    *)
(* the request answered as if it had succeeded.                            *)
(***************************************************************************)
EXTENDS ProjectGovernance

CONSTANT MaxChannels  \* bound: Discord channels created for the project

ASSUME ChannelBound == MaxChannels \in Nat

BindingStates == {"proposed", "pending_approval", "active", "archived",
                  "locked"}

\* binding_service._TRANSITIONS for the events the endpoints send: the target
\* state, or none.
SpaceTransition(event, s) ==
  CASE event = "archive" /\ s = "active"              -> {"archived"}
    [] event = "lock" /\ s \in {"active", "archived"} -> {"locked"}
    [] OTHER                                          -> {}

\* The event an endpoint sends.
SpaceEvent == [finalize |-> "archive", terminate |-> "lock"]

VARIABLES
  bindings, \* rows of project_space_bindings: channel and binding_state
  channels, \* Discord's channels: open, done (renamed), closed (read-only too)
  spc,      \* where the binding service of each thread is
  space     \* its binding and target state, or the channel it created

spaceVars == <<bindings, channels, spc, space>>

NoSpace == [id |-> 0, to |-> "active"]

SpaceInit ==
  /\ Init
  /\ bindings = <<>>
  /\ channels = <<>>
  /\ spc = [th \in Threads |-> "none"]
  /\ space = [th \in Threads |-> NoSpace]

-----------------------------------------------------------------------------
(* create_and_bind *)

\* Mutated form: the channel is created before the project is initialized.
CreateChannelEarly(th) ==
  /\ tpc[th] = "read" /\ spc[th] = "none" /\ req[th].name = "initialize"
  /\ Len(channels) < MaxChannels
  /\ channels' = Append(channels, "open")
  /\ space' = [space EXCEPT ![th] = [id |-> Len(channels) + 1, to |-> "active"]]
  /\ spc' = [spc EXCEPT ![th] = "insert"]
  /\ UNCHANGED <<vars, bindings>>

\* The channel is created on Discord first.  It is created only when the
\* request names a guild; a failure is logged and the request goes on.
CreateChannel(th) ==
  /\ tpc[th] = "after" /\ spc[th] = "none" /\ req[th].name = "initialize"
  /\ Len(channels) < MaxChannels
  /\ channels' = Append(channels, "open")
  /\ space' = [space EXCEPT ![th] = [id |-> Len(channels) + 1, to |-> "active"]]
  /\ spc' = [spc EXCEPT ![th] = "insert"]
  /\ UNCHANGED <<vars, bindings>>

\* Then the row is inserted, active from the start.
InsertBinding(th) ==
  /\ spc[th] = "insert"
  /\ bindings' = Append(bindings, [channel |-> space[th].id, state |-> "active"])
  /\ spc' = [spc EXCEPT ![th] = "done"]
  /\ UNCHANGED <<vars, channels, space>>

-----------------------------------------------------------------------------
(* transition *)

\* find_by_project_id answers with some row of the project; an event the state
\* does not allow raises.
FindBinding(th) ==
  /\ tpc[th] = "after" /\ spc[th] = "none"
  /\ req[th].name \in DOMAIN SpaceEvent
  /\ \E i \in DOMAIN bindings :
       \E s \in SpaceTransition(SpaceEvent[req[th].name], bindings[i].state) :
         space' = [space EXCEPT ![th] = [id |-> i, to |-> s]]
  /\ spc' = [spc EXCEPT ![th] = "update"]
  /\ UNCHANGED <<vars, bindings, channels>>

\* Mutated form: Discord is told first, and may refuse.
ChannelFirst(th) ==
  /\ spc[th] = "update"
  /\ channels' = [channels EXCEPT ![bindings[space[th].id].channel] = "closed"]
  /\ spc' = [spc EXCEPT ![th] = "discord"]
  /\ UNCHANGED <<vars, bindings, space>>

\* update_state
UpdateState(th) ==
  /\ spc[th] = "update"
  /\ bindings' = [bindings EXCEPT ![space[th].id].state = space[th].to]
  /\ spc' = [spc EXCEPT ![th] = "discord"]
  /\ UNCHANGED <<vars, channels, space>>

\* archive_channel renames; lock_channel renames and takes the permission to
\* write, and may fail in between.
UpdateChannel(th) ==
  /\ spc[th] = "discord"
  /\ \E c \in IF space[th].to = "locked" THEN {"done", "closed"} ELSE {"done"} :
       channels' = [channels EXCEPT ![bindings[space[th].id].channel] = c]
  /\ spc' = [spc EXCEPT ![th] = "done"]
  /\ UNCHANGED <<vars, bindings, space>>

\* The answer: from anywhere in the service, since nothing it raises matters,
\* and at once for a request without guild or through the project tools.
SpaceFinish(th) ==
  /\ Finish(th)
  /\ spc' = [spc EXCEPT ![th] = "none"]
  /\ space' = [space EXCEPT ![th] = NoSpace]
  /\ UNCHANGED <<bindings, channels>>

\* A governance step of a thread; the end of the process ends the binding
\* service too.
GovernanceStep(th) ==
  /\ RequestStep(th)
  /\ IF tpc'[th] = "idle"
       THEN /\ spc' = [spc EXCEPT ![th] = "none"]
            /\ space' = [space EXCEPT ![th] = NoSpace]
       ELSE UNCHANGED <<spc, space>>
  /\ UNCHANGED <<bindings, channels>>

-----------------------------------------------------------------------------
SpaceStep(th) ==
  \/ CreateChannel(th) \/ InsertBinding(th) \/ FindBinding(th)
  \/ UpdateState(th) \/ UpdateChannel(th) \/ SpaceFinish(th)

SpaceNext == \E th \in Threads : GovernanceStep(th) \/ SpaceStep(th)

SpaceSpec == SpaceInit /\ [][SpaceNext]_<<vars, spaceVars>>

-----------------------------------------------------------------------------
(* Properties *)

\* Bindings, channels and the service's locals range over what the code can
\* hold there; a binding names a channel that was created.
SpaceTypeOK ==
  /\ bindings \in Seq([channel : 1..Len(channels), state : BindingStates])
  /\ channels \in Seq({"open", "done", "closed"})
  /\ spc \in [Threads -> {"none", "insert", "update", "discord", "done"}]
  /\ space \in [Threads -> [id : 0..MaxChannels, to : BindingStates]]

\* RoutingResolver.resolve: a message in channel c reaches the project.
Routes(c) ==
  \E i \in DOMAIN bindings :
    bindings[i].channel = c /\ bindings[i].state = "active"

\* A channel its members see renamed or closed no longer routes to the project,
\* whatever fails between the row and Discord and whoever else ends the
\* project at the same time.
RetiredChannelsDoNotRoute ==
  \A c \in DOMAIN channels : channels[c] # "open" => ~Routes(c)

\* The document has been active.
EverActive(p) ==
  \E i \in DOMAIN p.transitions : p.transitions[i].to = "active"

\* While requests come one at a time, a space exists only for a project that
\* was activated: the failure of the earlier part leaves none behind.
SpacesFollowActivation == channels # <<>> => EverActive(project)

-----------------------------------------------------------------------------
(* What the documentation says and the code does not do *)

\* The threads are at rest.
Quiet == \A th \in Threads : tpc[th] = "idle"

\* ProjectSpaceBindingModel.md, PSB-001, "Every approved or active project MUST
\* have exactly one bound project space": never more than one that routes.
OneSpacePerProject ==
  \A c, d \in DOMAIN channels : Routes(c) /\ Routes(d) => c = d

\* PSB-005, "Project spaces MUST transition to read-only or locked on terminal
\* project lifecycle states": at rest, an ended project has no routing space.
EndedProjectsDoNotRoute ==
  Quiet /\ project.status \in {"completed", "terminated"} =>
    \A c \in DOMAIN channels : ~Routes(c)

\* ProjectSpaceBindingModel.md, "Project space is locked when the project
\* reaches archived".
ArchivedIsLocked ==
  Quiet /\ project.status = "archived" =>
    \A i \in DOMAIN bindings : bindings[i].state = "locked"

=============================================================================
