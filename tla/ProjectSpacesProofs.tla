------------------------- MODULE ProjectSpacesProofs ------------------------
(***************************************************************************)
(* Proofs about ProjectSpaces: what is proved of the governed project      *)
(* holds with its spaces too, a retired channel does not route for any     *)
(* number of threads and channels, and with one request at a time a space  *)
(* follows the activation of the project.                                  *)
(***************************************************************************)
EXTENDS ProjectSpaces, ProjectGovernanceProofs, SequenceTheorems

-----------------------------------------------------------------------------
(* The binding service leaves the project alone *)

\* A step of the binding service is a step of the governance or none.
LEMMA SpaceStepIsGovernance ==
  [SpaceNext]_<<vars, spaceVars>> => [Next]_vars
  <1> SUFFICES ASSUME [SpaceNext]_<<vars, spaceVars>> PROVE [Next]_vars
    OBVIOUS
  <1>1. ASSUME NEW th \in Threads, GovernanceStep(th) PROVE Next
    BY <1>1 DEF GovernanceStep, Next
  <1>2. ASSUME NEW th \in Threads, SpaceFinish(th) PROVE Next
    BY <1>2 DEF SpaceFinish, Next
  <1>3. ASSUME NEW th \in Threads,
               \/ CreateChannel(th) \/ InsertBinding(th) \/ FindBinding(th)
               \/ UpdateState(th) \/ UpdateChannel(th)
        PROVE  UNCHANGED vars
    BY <1>3 DEF CreateChannel, InsertBinding, FindBinding, UpdateState,
                UpdateChannel
  <1> QED
    BY <1>1, <1>2, <1>3 DEF SpaceNext, SpaceStep

\* ProjectSpaces implements ProjectGovernance: whatever the binding service
\* does, or leaves undone, the project document is governed as without it.
THEOREM SpacesKeepGovernance == SpaceSpec => Spec
  <1>1. SpaceInit => Init
    BY DEF SpaceInit
  <1> QED
    BY <1>1, SpaceStepIsGovernance, PTL DEF SpaceSpec, Spec

-----------------------------------------------------------------------------
(* Retired channels *)

Bindings == [channel : Nat \ {0}, state : BindingStates]

\* The stores and the places of the binding service.
SpaceTyped ==
  /\ bindings \in Seq(Bindings)
  /\ channels \in Seq({"open", "done", "closed"})
  /\ spc \in [Threads -> {"none", "insert", "update", "discord", "done"}]
  /\ space \in [Threads -> [id : Nat, to : BindingStates]]
  /\ tpc \in [Threads -> {"idle", "charter", "peek", "read", "write", "after"}]

\* A binding names a channel that was created, and no two the same.
BindingsAreApart ==
  /\ \A i \in DOMAIN bindings : bindings[i].channel \in DOMAIN channels
  /\ \A i, j \in DOMAIN bindings :
       bindings[i].channel = bindings[j].channel => i = j

\* The channel a thread has created is its own until it is bound: no other
\* thread has it, no row names it, and it is open.
CreatedIsOwn ==
  \A th \in Threads : spc[th] = "insert" =>
    /\ space[th].id \in DOMAIN channels
    /\ channels[space[th].id] = "open"
    /\ \A i \in DOMAIN bindings : bindings[i].channel # space[th].id
    /\ \A o \in Threads : spc[o] = "insert" /\ o # th =>
         space[o].id # space[th].id

\* A transition is on its way to archived or locked, and Discord is told after
\* the row.
RowBeforeDiscord ==
  \A th \in Threads :
    /\ spc[th] \in {"update", "discord"} =>
         /\ space[th].id \in DOMAIN bindings
         /\ space[th].to \in {"archived", "locked"}
    /\ spc[th] = "discord" => bindings[space[th].id].state # "active"

SpaceInv ==
  /\ SpaceTyped /\ BindingsAreApart /\ CreatedIsOwn /\ RowBeforeDiscord
  /\ RetiredChannelsDoNotRoute

\* The initial state satisfies the invariant.
LEMMA SpaceInitInvariant == SpaceInit => SpaceInv
  BY DEF SpaceInit, Init, SpaceInv, SpaceTyped, BindingsAreApart, CreatedIsOwn,
    RowBeforeDiscord, RetiredChannelsDoNotRoute, NoSpace, BindingStates

\* A thread gives up its place in the binding service.
LEMMA LeavingKeeps ==
  ASSUME SpaceInv, NEW th \in Threads,
         spc' = [spc EXCEPT ![th] = "none"],
         space' = [space EXCEPT ![th] = NoSpace],
         UNCHANGED <<bindings, channels>>,
         tpc' \in [Threads -> {"idle", "charter", "peek", "read", "write",
                               "after"}]
  PROVE  SpaceInv'
  <1> USE DEF SpaceInv
  <1>1. /\ spc' \in [Threads -> {"none", "insert", "update", "discord", "done"}]
        /\ space' \in [Threads -> [id : Nat, to : BindingStates]]
    BY DEF SpaceTyped, NoSpace, BindingStates
  <1>2. /\ spc'[th] = "none"
        /\ \A o \in Threads \ {th} : spc'[o] = spc[o] /\ space'[o] = space[o]
    BY DEF SpaceTyped
  <1>3. SpaceTyped'
    BY <1>1 DEF SpaceTyped
  <1>4. BindingsAreApart' /\ RetiredChannelsDoNotRoute'
    BY DEF BindingsAreApart, RetiredChannelsDoNotRoute, Routes
  <1>5. CreatedIsOwn'
    BY <1>2 DEF CreatedIsOwn
  <1>6. RowBeforeDiscord'
    BY <1>2 DEF RowBeforeDiscord
  <1> QED
    BY <1>3, <1>4, <1>5, <1>6

\* Every step keeps the places of the governance typed.
LEMMA PlacesStayTyped ==
  ASSUME NEW th \in Threads, RequestStep(th) \/ Finish(th),
         tpc \in [Threads -> {"idle", "charter", "peek", "read", "write",
                              "after"}]
  PROVE  tpc' \in [Threads -> {"idle", "charter", "peek", "read", "write",
                               "after"}]
  <1>1. CASE Endpoint(th)
    BY <1>1, EndpointIsRequest DEF Request
  <1>2. CASE ~Endpoint(th)
    BY <1>2 DEF RequestStep, WriteCharter, Peek, Read, Write, Abort, Finish, Ends
  <1> QED
    BY <1>1, <1>2

\* A channel is created.
LEMMA CreateKeeps ==
  ASSUME SpaceInv, NEW th \in Threads, CreateChannel(th)
  PROVE  SpaceInv'
  <1> USE DEF SpaceInv
  <1> DEFINE n == Len(channels) + 1
             new == [id |-> n, to |-> "active"]
  <1>1. /\ channels' = Append(channels, "open")
        /\ space' = [space EXCEPT ![th] = new]
        /\ spc' = [spc EXCEPT ![th] = "insert"]
        /\ UNCHANGED <<tpc, bindings>>
    BY DEF CreateChannel, vars
  <1>2. /\ n \in Nat /\ n \notin DOMAIN channels
        /\ DOMAIN channels' = DOMAIN channels \union {n}
        /\ channels' \in Seq({"open", "done", "closed"})
        /\ channels'[n] = "open"
        /\ \A c \in DOMAIN channels : channels'[c] = channels[c]
    BY <1>1 DEF SpaceTyped
  <1>3. new \in [id : Nat, to : BindingStates] /\ new.id = n
    BY <1>2 DEF BindingStates
  <1> HIDE DEF n, new
  <1>4. /\ spc' \in [Threads -> {"none", "insert", "update", "discord", "done"}]
        /\ space' \in [Threads -> [id : Nat, to : BindingStates]]
        /\ spc'[th] = "insert" /\ space'[th].id = n
        /\ \A o \in Threads \ {th} : spc'[o] = spc[o] /\ space'[o] = space[o]
    BY <1>1, <1>3 DEF SpaceTyped
  <1>5. SpaceTyped'
    BY <1>1, <1>2, <1>4 DEF SpaceTyped
  <1>6. BindingsAreApart'
    BY <1>1, <1>2 DEF BindingsAreApart
  <1>7. CreatedIsOwn'
    BY <1>1, <1>2, <1>4 DEF CreatedIsOwn, BindingsAreApart
  <1>8. RowBeforeDiscord'
    BY <1>1, <1>4 DEF RowBeforeDiscord
  <1>9. RetiredChannelsDoNotRoute'
    BY <1>1, <1>2 DEF RetiredChannelsDoNotRoute, Routes
  <1> QED
    BY <1>5, <1>6, <1>7, <1>8, <1>9

\* The row of the channel is inserted.
LEMMA InsertKeeps ==
  ASSUME SpaceInv, NEW th \in Threads, InsertBinding(th)
  PROVE  SpaceInv'
  <1> USE DEF SpaceInv
  <1> DEFINE n == Len(bindings) + 1
             row == [channel |-> space[th].id, state |-> "active"]
  <1>1. /\ spc[th] = "insert" /\ bindings' = Append(bindings, row)
        /\ spc' = [spc EXCEPT ![th] = "done"]
        /\ UNCHANGED <<tpc, channels, space>>
    BY DEF InsertBinding, vars
  <1>2. /\ space[th].id \in DOMAIN channels /\ space[th].id \in Nat \ {0}
        /\ channels[space[th].id] = "open"
    BY <1>1 DEF CreatedIsOwn, SpaceTyped
  <1>3. row \in Bindings /\ row.channel = space[th].id
    BY <1>2 DEF Bindings, BindingStates
  <1> HIDE DEF row
  <1>4. /\ n \notin DOMAIN bindings
        /\ DOMAIN bindings' = DOMAIN bindings \union {n}
        /\ bindings' \in Seq(Bindings)
        /\ bindings'[n] = row
        /\ \A i \in DOMAIN bindings : bindings'[i] = bindings[i]
    BY <1>1, <1>3 DEF SpaceTyped
  <1> HIDE DEF n
  <1>5. /\ spc' \in [Threads -> {"none", "insert", "update", "discord", "done"}]
        /\ spc'[th] = "done"
        /\ \A o \in Threads \ {th} : spc'[o] = spc[o]
    BY <1>1 DEF SpaceTyped
  <1>6. SpaceTyped'
    BY <1>1, <1>4, <1>5 DEF SpaceTyped
  <1>7. BindingsAreApart'
    BY <1>1, <1>2, <1>3, <1>4 DEF BindingsAreApart, CreatedIsOwn
  <1>8. CreatedIsOwn'
    BY <1>1, <1>3, <1>4, <1>5 DEF CreatedIsOwn
  <1>9. RowBeforeDiscord'
    BY <1>1, <1>4, <1>5 DEF RowBeforeDiscord
  <1>10. RetiredChannelsDoNotRoute'
    BY <1>1, <1>2, <1>3, <1>4 DEF RetiredChannelsDoNotRoute, Routes
  <1> QED
    BY <1>6, <1>7, <1>8, <1>9, <1>10

\* A row is found and its next state decided.
LEMMA FindKeeps ==
  ASSUME SpaceInv, NEW th \in Threads, FindBinding(th)
  PROVE  SpaceInv'
  <1> USE DEF SpaceInv
  <1>1. PICK i \in DOMAIN bindings :
          \E s \in SpaceTransition(SpaceEvent[req[th].name], bindings[i].state) :
            space' = [space EXCEPT ![th] = [id |-> i, to |-> s]]
    BY DEF FindBinding
  <1>2. PICK s \in SpaceTransition(SpaceEvent[req[th].name], bindings[i].state) :
          space' = [space EXCEPT ![th] = [id |-> i, to |-> s]]
    BY <1>1
  <1>3. s \in {"archived", "locked"}
    BY DEF SpaceTransition
  <1>4. /\ spc' = [spc EXCEPT ![th] = "update"]
        /\ UNCHANGED <<tpc, bindings, channels>>
    BY DEF FindBinding, vars
  <1>5. i \in Nat
    BY DEF SpaceTyped
  <1>6. /\ spc' \in [Threads -> {"none", "insert", "update", "discord", "done"}]
        /\ space' \in [Threads -> [id : Nat, to : BindingStates]]
        /\ spc'[th] = "update" /\ space'[th].id = i /\ space'[th].to = s
        /\ \A o \in Threads \ {th} : spc'[o] = spc[o] /\ space'[o] = space[o]
    BY <1>2, <1>3, <1>4, <1>5 DEF SpaceTyped, BindingStates
  <1>7. SpaceTyped'
    BY <1>4, <1>6 DEF SpaceTyped
  <1>8. BindingsAreApart' /\ RetiredChannelsDoNotRoute'
    BY <1>4 DEF BindingsAreApart, RetiredChannelsDoNotRoute, Routes
  <1>9. CreatedIsOwn'
    <2>1. \A o \in Threads : spc'[o] = "insert" =>
            /\ o # th /\ spc[o] = "insert" /\ space'[o] = space[o]
      BY <1>6
    <2>2. CreatedIsOwn /\ channels' = channels /\ bindings' = bindings
      BY <1>4
    <2> HIDE DEF SpaceInv
    <2> QED
      BY <2>1, <2>2 DEF CreatedIsOwn
  <1>10. RowBeforeDiscord'
    BY <1>3, <1>4, <1>6 DEF RowBeforeDiscord
  <1> QED
    BY <1>7, <1>8, <1>9, <1>10

\* update_state: the row leaves active for good.
LEMMA UpdateKeeps ==
  ASSUME SpaceInv, NEW th \in Threads, UpdateState(th)
  PROVE  SpaceInv'
  <1> USE DEF SpaceInv
  <1> DEFINE n == space[th].id
  <1>1. /\ spc[th] = "update"
        /\ bindings' = [bindings EXCEPT ![n].state = space[th].to]
        /\ spc' = [spc EXCEPT ![th] = "discord"]
        /\ UNCHANGED <<tpc, channels, space>>
    BY DEF UpdateState, vars
  <1>2. n \in DOMAIN bindings /\ space[th].to \in {"archived", "locked"}
    BY <1>1 DEF RowBeforeDiscord
  <1>3. PICK row : row = [bindings[n] EXCEPT !.state = space[th].to]
    OBVIOUS
  <1>4. /\ bindings \in Seq(Bindings) /\ bindings[n] \in Bindings
        /\ n \in 1..Len(bindings)
    BY <1>2 DEF SpaceTyped
  <1>5. /\ row \in Bindings /\ row.channel = bindings[n].channel
        /\ row.state = space[th].to
    BY <1>2, <1>3, <1>4 DEF Bindings, BindingStates
  <1>6. bindings' = [bindings EXCEPT ![n] = row]
    BY <1>1, <1>2, <1>3, <1>4
  <1> HIDE DEF n
  <1>7. bindings' \in Seq(Bindings)
    BY <1>4, <1>5, <1>6, ExceptSeq
  <1>8. /\ DOMAIN bindings' = DOMAIN bindings
        /\ bindings'[n] = row
        /\ \A i \in DOMAIN bindings : i # n => bindings'[i] = bindings[i]
    BY <1>2, <1>4, <1>6
  <1>9. /\ \A i \in DOMAIN bindings : bindings'[i].channel = bindings[i].channel
        /\ \A i \in DOMAIN bindings :
             bindings'[i].state = "active" => bindings[i].state = "active"
        /\ bindings'[n].state # "active"
    BY <1>2, <1>5, <1>8
  <1>10. /\ spc' \in [Threads -> {"none", "insert", "update", "discord", "done"}]
         /\ spc'[th] = "discord"
         /\ \A o \in Threads \ {th} : spc'[o] = spc[o]
    BY <1>1 DEF SpaceTyped
  <1>11. SpaceTyped'
    BY <1>1, <1>7, <1>10 DEF SpaceTyped
  <1>12. BindingsAreApart'
    BY <1>1, <1>8, <1>9 DEF BindingsAreApart
  <1>13. CreatedIsOwn'
    BY <1>1, <1>8, <1>9, <1>10 DEF CreatedIsOwn
  <1>14. RowBeforeDiscord'
    BY <1>1, <1>2, <1>8, <1>9, <1>10 DEF RowBeforeDiscord, n
  <1>15. RetiredChannelsDoNotRoute'
    BY <1>1, <1>8, <1>9 DEF RetiredChannelsDoNotRoute, Routes
  <1> QED
    BY <1>11, <1>12, <1>13, <1>14, <1>15

\* archive_channel or lock_channel: the channel of a row that is not active.
LEMMA ChannelKeeps ==
  ASSUME SpaceInv, NEW th \in Threads, UpdateChannel(th)
  PROVE  SpaceInv'
  <1> USE DEF SpaceInv
  <1> DEFINE n == space[th].id
             c == bindings[n].channel
  <1>1. /\ spc[th] = "discord"
        /\ spc' = [spc EXCEPT ![th] = "done"]
        /\ UNCHANGED <<tpc, bindings, space>>
    BY DEF UpdateChannel, vars
  <1>2. PICK look \in {"done", "closed"} :
          channels' = [channels EXCEPT ![c] = look]
    BY DEF UpdateChannel
  <1>3. /\ n \in DOMAIN bindings /\ bindings[n].state # "active"
        /\ c \in DOMAIN channels
    BY <1>1 DEF RowBeforeDiscord, BindingsAreApart
  <1>4. ~Routes(c)
    BY <1>3 DEF Routes, BindingsAreApart
  <1> HIDE DEF c
  <1>5. channels' \in Seq({"open", "done", "closed"})
    BY <1>2, <1>3, ExceptSeq DEF SpaceTyped
  <1>6. /\ DOMAIN channels' = DOMAIN channels
        /\ \A d \in DOMAIN channels : d # c => channels'[d] = channels[d]
    BY <1>2, <1>3 DEF SpaceTyped
  <1>7. /\ spc' \in [Threads -> {"none", "insert", "update", "discord", "done"}]
        /\ spc'[th] = "done"
        /\ \A o \in Threads \ {th} : spc'[o] = spc[o]
    BY <1>1 DEF SpaceTyped
  <1>8. SpaceTyped'
    BY <1>1, <1>5, <1>7 DEF SpaceTyped
  <1>9. BindingsAreApart'
    BY <1>1, <1>6 DEF BindingsAreApart
  <1>10. CreatedIsOwn'
    BY <1>1, <1>3, <1>6, <1>7 DEF CreatedIsOwn, c
  <1>11. RowBeforeDiscord'
    BY <1>1, <1>7 DEF RowBeforeDiscord
  <1>12. RetiredChannelsDoNotRoute'
    BY <1>1, <1>4, <1>6 DEF RetiredChannelsDoNotRoute, Routes
  <1> QED
    BY <1>8, <1>9, <1>10, <1>11, <1>12

\* Every step keeps the invariant.
LEMMA SpaceStepInvariant ==
  SpaceInv /\ [SpaceNext]_<<vars, spaceVars>> => SpaceInv'
  <1> SUFFICES ASSUME SpaceInv, [SpaceNext]_<<vars, spaceVars>> PROVE SpaceInv'
    OBVIOUS
  <1>1. ASSUME NEW th \in Threads, GovernanceStep(th) PROVE SpaceInv'
    <2>1. tpc' \in [Threads -> {"idle", "charter", "peek", "read", "write",
                                "after"}]
      BY <1>1, PlacesStayTyped DEF GovernanceStep, SpaceInv, SpaceTyped
    <2>2. CASE tpc'[th] = "idle"
      BY <1>1, <2>1, <2>2, LeavingKeeps DEF GovernanceStep
    <2>3. CASE tpc'[th] # "idle"
      BY <1>1, <2>1, <2>3
      DEF GovernanceStep, SpaceInv, SpaceTyped, BindingsAreApart, CreatedIsOwn,
          RowBeforeDiscord, RetiredChannelsDoNotRoute, Routes
    <2> QED
      BY <2>2, <2>3
  <1>2. ASSUME NEW th \in Threads, SpaceFinish(th) PROVE SpaceInv'
    <2>1. tpc' \in [Threads -> {"idle", "charter", "peek", "read", "write",
                                "after"}]
      BY <1>2, PlacesStayTyped DEF SpaceFinish, SpaceInv, SpaceTyped
    <2> QED
      BY <1>2, <2>1, LeavingKeeps DEF SpaceFinish
  <1>3. ASSUME NEW th \in Threads,
               \/ CreateChannel(th) \/ InsertBinding(th) \/ FindBinding(th)
               \/ UpdateState(th) \/ UpdateChannel(th)
        PROVE  SpaceInv'
    BY <1>3, CreateKeeps, InsertKeeps, FindKeeps, UpdateKeeps, ChannelKeeps
  <1>4. CASE UNCHANGED <<vars, spaceVars>>
    BY <1>4 DEF vars, spaceVars, SpaceInv, SpaceTyped, BindingsAreApart,
      CreatedIsOwn, RowBeforeDiscord, RetiredChannelsDoNotRoute, Routes
  <1> QED
    BY <1>1, <1>2, <1>3, <1>4 DEF SpaceNext, SpaceStep

\* In every interleaving of requests and failures, a channel whose members see
\* it renamed or closed no longer routes to the project.
THEOREM RetiredStayRetired == SpaceSpec => []RetiredChannelsDoNotRoute
  <1>1. SpaceInv => RetiredChannelsDoNotRoute
    BY DEF SpaceInv
  <1> QED
    BY <1>1, SpaceInitInvariant, SpaceStepInvariant, PTL DEF SpaceSpec

-----------------------------------------------------------------------------
(* One request at a time *)

\* What a thread needs for the channel it will create: an initialization calls
\* record_initialization alone; what is about to be written has been active if
\* the stored document was, and if it is an initialization; and an
\* initialization that was written left the project activated.
ActivationReady(th) ==
  /\ req[th].name = "initialize" =>
       call[th].op = "initialize" /\ tpc[th] # "peek"
  /\ tpc[th] = "write" /\ (EverActive(project) \/ call[th].op = "initialize")
       => EverActive(copy[th])
  /\ tpc[th] = "after" /\ req[th].name = "initialize" => EverActive(project)

ActivationInv ==
  /\ SInv /\ SpaceInv
  /\ \A th \in Threads : ActivationReady(th)
  /\ SpacesFollowActivation

\* A recorded transition keeps those before it.
LEMMA MoveKeepsActive ==
  ASSUME NEW p \in Projects, p.status # "absent",
         NEW n \in ProjectStatuses, EverActive(p) \/ n = "active"
  PROVE  EverActive(Move(p, n))
  <1> DEFINE e == [from |-> p.status, to |-> n]
             t == p.transitions
  <1>1. \E S : t \in Seq(S) /\ e \in S
    <2>1. t \in Seq([from : ProjectStatuses, to : ProjectStatuses])
      BY DEF Projects
    <2>2. e \in [from : ProjectStatuses, to : ProjectStatuses]
      BY DEF Projects
    <2> QED
      BY <2>1, <2>2
  <1>2. Move(p, n).transitions = Append(t, e) /\ e.to = n
    BY DEF Move, Projects
  <1> HIDE DEF e, t
  <1>3. /\ DOMAIN Append(t, e) = DOMAIN t \union {Len(t) + 1}
        /\ Append(t, e)[Len(t) + 1] = e
        /\ \A i \in DOMAIN t : Append(t, e)[i] = t[i]
    BY <1>1
  <1> QED
    BY <1>2, <1>3 DEF EverActive, t

\* What a method makes of a document that was active, or of any document it
\* initializes, was active.
LEMMA ResultKeepsActive ==
  ASSUME NEW c \in Calls, NEW r, NEW p \in Projects,
         NEW h \in 0..MaxCharters, NEW q \in Result(c, r, p, h),
         p.status = "absent" => p = NoProject,
         EverActive(p) \/ c.op = "initialize"
  PROVE  EverActive(q)
  <1>1. CASE c.op = "create"
    BY <1>1 DEF Result, create_project, Upsert, NoProject, EverActive
  <1>2. CASE c.op \in {"message", "bind", "report", "notify", "approve",
                       "approve_completion"}
    <2>1. q.transitions = p.transitions
      BY <1>2 DEF Result, add_proposal_message, bind_workforce, Upsert, Projects,
        submit_completion_report, record_completion_owner_notified,
        record_proposal_approval, record_completion_approval
    <2> QED
      BY <1>2, <2>1 DEF EverActive
  <1>3. CASE c.op = "initialize"
    <2> DEFINE m == Move(p, "active")
    <2>1. q = [m EXCEPT !.charter = h] /\ p.status # "absent"
      BY <1>3 DEF Result, record_initialization, Upsert
    <2>2. "active" \in ProjectStatuses
      BY DEF ProjectStatuses
    <2>3. EverActive(m)
      BY <2>1, <2>2, MoveKeepsActive
    <2>4. DOMAIN m = DOMAIN p
      BY DEF Move, Projects
    <2> HIDE DEF m
    <2>5. q.transitions = m.transitions
      BY <2>1, <2>4 DEF Projects
    <2> QED
      BY <2>3, <2>5 DEF EverActive
  <1>4. CASE c.op = "transition"
    <2>1. c.to \in ProjectStatuses
      BY <1>4 DEF Calls
    <2>2. q = Move(p, c.to) /\ p.status # "absent"
      BY <1>4 DEF Result, transition_project_status, Upsert
    <2> QED
      BY <1>4, <2>1, <2>2, MoveKeepsActive
  <1> QED
    BY <1>1, <1>2, <1>3, <1>4 DEF Calls

\* The initial state satisfies the invariant.
LEMMA InitActivation == SpaceInit => ActivationInv
  BY InitSerial, SpaceInitInvariant
  DEF SpaceInit, Init, ActivationInv, ActivationReady, SpacesFollowActivation,
      NoRequest, Anyone

\* A governance step of the only thread keeps what its channel needs, and an
\* activated project activated.
LEMMA StepActivation ==
  ASSUME OneThread, ActivationInv, NEW th \in Threads,
         RequestStep(th) \/ Finish(th)
  PROVE  /\ \A o \in Threads : ActivationReady(o)'
         /\ EverActive(project) => EverActive(project')
  <1>0. TypeOK /\ ActivationReady(th)
    BY DEF ActivationInv, SInv, IInv
  <1>E. ASSUME Ends(th), UNCHANGED project
        PROVE  ActivationReady(th)' /\ (EverActive(project) => EverActive(project'))
    BY <1>0, <1>E DEF Ends, TypeOK, ActivationReady, NoRequest, Anyone
  <1>1. CASE Endpoint(th)
    <2>1. PICK r \in Requests, place \in {"charter", "peek", "read"},
               c \in Calls :
            /\ Request(th, r, place, c)
            /\ r.name = "initialize" => c.op = "initialize" /\ place # "peek"
      BY <1>1, EndpointIsRequest
    <2>2. /\ tpc'[th] = place /\ req'[th] = r /\ call'[th] = c
          /\ UNCHANGED project
      BY <1>0, <2>1 DEF Request, TypeOK
    <2>3. ActivationReady(th)'
      BY <2>1, <2>2 DEF ActivationReady
    <2> QED
      BY <2>2, <2>3 DEF OneThread
  <1>2. CASE WriteCharter(th)
    <2>1. /\ tpc'[th] = "read"
          /\ UNCHANGED <<project, req, call>>
      BY <1>0, <1>2 DEF WriteCharter, TypeOK
    <2>2. ActivationReady(th)'
      BY <1>0, <2>1 DEF ActivationReady
    <2> QED
      BY <2>1, <2>2 DEF OneThread
  <1>3. CASE Peek(th)
    <2>1. CASE ~Ends(th)
      <3>1. /\ tpc[th] = "peek" /\ tpc'[th] = "read"
            /\ UNCHANGED <<project, req>>
        BY <1>0, <1>3, <2>1 DEF Peek, TypeOK
      <3>2. ActivationReady(th)'
        BY <1>0, <3>1 DEF ActivationReady
      <3> QED
        BY <3>1, <3>2 DEF OneThread
    <2> QED
      BY <1>3, <1>E, <2>1 DEF Peek, OneThread
  <1>4. CASE Read(th)
    <2>1. CASE ~Ends(th)
      <3>1. PICK q \in Result(call[th], req[th], project, hash[th]) :
              /\ copy' = [copy EXCEPT ![th] = q]
              /\ tpc' = [tpc EXCEPT ![th] = "write"]
              /\ UNCHANGED <<project, req, call>>
        BY <1>4, <2>1 DEF Read
      <3>2. EverActive(project) \/ call[th].op = "initialize" => EverActive(q)
        BY <1>0, ResultKeepsActive DEF ActivationInv, SInv, TypeOK
      <3>3. copy'[th] = q /\ tpc'[th] = "write"
        BY <1>0, <3>1 DEF TypeOK
      <3>4. ActivationReady(th)'
        BY <1>0, <3>1, <3>2, <3>3 DEF ActivationReady
      <3> QED
        BY <3>1, <3>4 DEF OneThread
    <2> QED
      BY <1>4, <1>E, <2>1 DEF Read, OneThread
  <1>5. CASE Write(th)
    <2>1. /\ project' = copy[th] /\ tpc[th] = "write"
          /\ tpc'[th] \in {"read", "after"} /\ req' = req
      BY <1>0, <1>5 DEF Write, TypeOK
    <2>2. call[th].op = "initialize" => call' = call
      BY <1>5 DEF Write, FollowUp
    <2>3. ActivationReady(th)'
      BY <1>0, <2>1, <2>2 DEF ActivationReady
    <2>4. EverActive(project) => EverActive(project')
      BY <1>0, <2>1 DEF ActivationReady
    <2> QED
      BY <2>3, <2>4 DEF OneThread
  <1>6. CASE Finish(th) \/ Abort(th)
    BY <1>6, <1>E DEF Finish, Abort, OneThread
  <1> QED
    BY <1>1, <1>2, <1>3, <1>4, <1>5, <1>6 DEF RequestStep

\* With one thread every step keeps the invariant.
LEMMA SpaceStepActivation ==
  ASSUME OneThread, ActivationInv, [SpaceNext]_<<vars, spaceVars>>
  PROVE  ActivationInv'
  <1>0. SInv' /\ SpaceInv'
    BY SpaceStepIsGovernance, StepSerial, SpaceStepInvariant DEF ActivationInv
  <1>1. ASSUME NEW th \in Threads, GovernanceStep(th) \/ SpaceFinish(th)
        PROVE  ActivationInv'
    <2>1. channels' = channels /\ (RequestStep(th) \/ Finish(th))
      BY <1>1 DEF GovernanceStep, SpaceFinish
    <2> QED
      BY <1>0, <2>1, StepActivation DEF ActivationInv, SpacesFollowActivation
  <1>2. ASSUME UNCHANGED vars, channels # <<>> \/ UNCHANGED channels
        PROVE  ActivationInv'
    BY <1>0, <1>2 DEF ActivationInv, ActivationReady, SpacesFollowActivation, vars
  <1>3. ASSUME NEW th \in Threads, CreateChannel(th) PROVE ActivationInv'
    <2>1. EverActive(project) /\ UNCHANGED vars
      BY <1>3 DEF CreateChannel, ActivationInv, ActivationReady
    <2> QED
      BY <1>0, <2>1 DEF ActivationInv, ActivationReady, SpacesFollowActivation,
        vars
  <1>4. ASSUME NEW th \in Threads, UpdateChannel(th) PROVE ActivationInv'
    <2>1. UNCHANGED vars /\ spc[th] = "discord"
      BY <1>4 DEF UpdateChannel
    <2>2. bindings[space[th].id].channel \in DOMAIN channels
      BY <2>1 DEF ActivationInv, SpaceInv, RowBeforeDiscord, BindingsAreApart
    <2>3. channels # <<>>
      BY <2>2
    <2> QED
      BY <1>2, <2>1, <2>3
  <1>5. ASSUME NEW th \in Threads,
               InsertBinding(th) \/ FindBinding(th) \/ UpdateState(th)
        PROVE  ActivationInv'
    BY <1>2, <1>5 DEF InsertBinding, FindBinding, UpdateState
  <1>6. CASE UNCHANGED <<vars, spaceVars>>
    BY <1>2, <1>6 DEF spaceVars
  <1> QED
    BY <1>1, <1>3, <1>4, <1>5, <1>6 DEF SpaceNext, SpaceStep

\* While requests come one at a time, a channel exists only for a project that
\* was activated, whichever part of an earlier request failed.
THEOREM SerialSpaceIsActivated ==
  ASSUME OneThread PROVE SpaceSpec => []SpacesFollowActivation
  <1>1. ActivationInv /\ [SpaceNext]_<<vars, spaceVars>> => ActivationInv'
    BY SpaceStepActivation
  <1>2. ActivationInv => SpacesFollowActivation
    BY DEF ActivationInv
  <1> QED
    BY <1>1, <1>2, InitActivation, PTL DEF SpaceSpec

=============================================================================
