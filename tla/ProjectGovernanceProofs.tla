----------------------- MODULE ProjectGovernanceProofs ----------------------
(***************************************************************************)
(* What the documents of ProjectGovernance keep for every number of        *)
(* threads and actors.  Requests may overwrite each other's writes, but    *)
(* what they write is a whole document made from a whole document that was *)
(* stored once, so whatever a document says about itself survives.         *)
(***************************************************************************)
EXTENDS ProjectGovernance, TLAPS

\* What every document stored or copied says about itself.
Sound(p) ==
  /\ CompletedWithEvidence(p)
  /\ Explained(p)
  /\ OnePerRole(p.approvals) /\ OnePerRole(p.completion)

\* The request of a thread fits the call it makes.
CallFits(c, r) ==
  /\ c.op = "approve" => r.role \in TriadRoles /\ r.actor \in Actors
  /\ c.op = "approve_completion" => r.role \in CSuite /\ r.actor \in Actors

\* A thread about to write has a sound document to write.
Ready(th) == tpc[th] = "write" => Sound(copy[th])

IInv ==
  /\ TypeOK
  /\ Sound(project)
  /\ \A th \in Threads : CallFits(call[th], req[th]) /\ Ready(th)

\* No document is a sound document.
LEMMA NoProjectIsSound == Sound(NoProject) /\ NoProject \in Projects
  BY ProjectBounds
  DEF Sound, NoProject, Projects, CompletedWithEvidence, EverCompleted,
      Explained, OnePerRole, ProjectStatuses

\* A recorded transition to an allowed status keeps a document sound and typed.
LEMMA MoveIsSound ==
  ASSUME NEW p \in Projects, Sound(p), p.status # "absent",
         NEW n \in ProjectStatuses, assert_project_transition(p.status, n),
         n = "completed" => _assert_completion_transition_allowed(p)
  PROVE  Sound(Move(p, n)) /\ Move(p, n) \in Projects
<1> DEFINE q == Move(p, n)
           e == [from |-> p.status, to |-> n]
<1>1. /\ p.status \in ProjectStatuses
      /\ p.transitions \in Seq([from : ProjectStatuses, to : ProjectStatuses])
      /\ e \in [from : ProjectStatuses, to : ProjectStatuses]
  BY DEF Projects
<1>2. /\ q.transitions = Append(p.transitions, e)
      /\ q.status = n
      /\ q.report = p.report /\ q.notified = p.notified
      /\ q.completion = p.completion /\ q.approvals = p.approvals
  BY DEF Move, Projects
<1>3. q \in Projects
  <2>1. Append(p.transitions, e)
          \in Seq([from : ProjectStatuses, to : ProjectStatuses])
    BY <1>1
  <2>2. q = [p EXCEPT !.status = n, !.transitions = Append(p.transitions, e)]
    BY DEF Move
  <2>3. QED
    BY <2>1, <2>2 DEF Projects
<1>4. CompletedWithEvidence(q)
  BY <1>1, <1>2 DEF Sound, CompletedWithEvidence, EverCompleted, HasApproved,
                    _assert_completion_transition_allowed
<1>5. Explained(q)
  <2>1. PICK h, k, l : /\ h = p.transitions /\ k = q.transitions
                       /\ l = Len(h)
    OBVIOUS
  <2>2. /\ l \in Nat /\ DOMAIN h = 1..l /\ DOMAIN k = 1..(l + 1)
        /\ k # <<>> /\ Len(k) = l + 1 /\ k[l + 1] = e
        /\ \A i \in 1..l : k[i] = h[i]
    BY <1>1, <1>2, <2>1
  <2>3. Explained(p) /\ p.status # "absent"
    BY DEF Sound
  <2>4. p.status = IF l = 0 THEN "proposed" ELSE h[l].to
    BY <1>1, <2>1, <2>2, <2>3 DEF Explained
  <2>5. \A i \in 1..l : /\ h[i].to \in ALLOWED_TRANSITIONS[h[i].from]
                        /\ h[i].from = IF i = 1 THEN "proposed"
                                                ELSE h[i - 1].to
    BY <2>1, <2>2, <2>3 DEF Explained
  <2>6. e.to \in ALLOWED_TRANSITIONS[e.from] /\ e.from = p.status /\ e.to = n
    BY DEF assert_project_transition
  <2>7. ASSUME NEW i \in 1..(l + 1)
        PROVE  /\ k[i].to \in ALLOWED_TRANSITIONS[k[i].from]
               /\ k[i].from = IF i = 1 THEN "proposed" ELSE k[i - 1].to
    <3>1. CASE i = l + 1
      <4>1. i = 1 <=> l = 0
        BY <2>2, <3>1
      <4>2. l # 0 => k[i - 1] = h[l]
        BY <2>2, <3>1
      <4> QED
        BY <3>1, <4>1, <4>2, <2>2, <2>4, <2>6
    <3>2. CASE i # l + 1
      <4>1. i \in 1..l /\ k[i] = h[i] /\ (i # 1 => k[i - 1] = h[i - 1])
        BY <2>2, <3>2
      <4> QED
        BY <4>1, <2>5
    <3> QED
      BY <3>1, <3>2
  <2>8. k = q.transitions /\ q.status = k[Len(k)].to
    BY <2>1, <2>2, <2>6, <1>2
  <2> HIDE DEF q, e
  <2> QED
    BY <2>2, <2>7, <2>8 DEF Explained
<1>6. QED
  BY <1>2, <1>3, <1>4, <1>5 DEF Sound

\* A further approval of a role that has none keeps one approval per role.
LEMMA ApproveIsSound ==
  ASSUME NEW roles, NEW as \in SUBSET Approvals(roles), OnePerRole(as),
         NEW r, r.role \in roles, r.actor \in Actors, ~RoleTaken(as, r)
  PROVE  /\ OnePerRole(Approve(as, r))
         /\ Approve(as, r) \in SUBSET Approvals(roles)
         /\ as \subseteq Approve(as, r)
<1> DEFINE a == [role |-> r.role, actor |-> r.actor]
<1>1. a \in Approvals(roles) /\ a.role = r.role
  BY DEF Approvals
<1>2. Approve(as, r) = as \union {a}
  BY DEF Approve
<1>3. \A b \in as : b.role # a.role
  BY <1>1 DEF RoleTaken
<1>4. OnePerRole(Approve(as, r))
  BY <1>2, <1>3 DEF OnePerRole
<1>5. QED
  BY <1>1, <1>2, <1>4

\* The changes that leave status, history and approvals alone and forget no
\* evidence keep a document sound.
LEMMA AdditionIsSound ==
  ASSUME NEW p, NEW q, Sound(p),
         q.status = p.status, q.transitions = p.transitions,
         q.approvals = p.approvals, q.completion = p.completion,
         p.report => q.report, p.notified => q.notified
  PROVE  Sound(q)
  BY DEF Sound, CompletedWithEvidence, EverCompleted, Explained

\* Whatever a method makes of a sound document is a sound document.
LEMMA ResultIsSound ==
  ASSUME NEW c \in Calls, NEW r, NEW p \in Projects,
         NEW h \in 0..MaxCharters, NEW q \in Result(c, r, p, h),
         Sound(p), InBounds(c, p), CallFits(c, r)
  PROVE  Sound(q) /\ q \in Projects
<1>1. CASE c.op = "create"
  <2>1. q = [NoProject EXCEPT !.status = "proposed"]
    BY <1>1 DEF Result, create_project, Upsert
  <2>2. q \in Projects
    BY <2>1, NoProjectIsSound DEF Projects, ProjectStatuses
  <2>3. /\ q.status = "proposed" /\ q.transitions = <<>>
        /\ q.approvals = {} /\ q.completion = {}
    BY <2>1 DEF NoProject
  <2>4. QED
    BY <2>2, <2>3
    DEF Sound, CompletedWithEvidence, EverCompleted, Explained, OnePerRole
<1>2. CASE c.op \in {"message", "bind"}
  <2>1. q = [p EXCEPT !.entries = p.entries + 1]
    BY <1>2 DEF Result, add_proposal_message, bind_workforce, Upsert
  <2>2. p.entries + 1 \in 0..MaxEntries
    BY <1>2, ProjectBounds DEF InBounds, Projects
  <2>3. QED
    BY <2>1, <2>2, AdditionIsSound DEF Projects
<1>3. CASE c.op = "report"
  <2>1. q = [p EXCEPT !.report = TRUE]
    BY <1>3 DEF Result, submit_completion_report, Upsert
  <2>2. QED
    BY <2>1, AdditionIsSound DEF Projects
<1>4. CASE c.op = "notify"
  <2>1. q = [p EXCEPT !.notified = TRUE]
    BY <1>4 DEF Result, record_completion_owner_notified, Upsert
  <2>2. QED
    BY <2>1, AdditionIsSound DEF Projects
<1>5. CASE c.op = "approve"
  <2>1. /\ ~RoleTaken(p.approvals, r)
        /\ q = [p EXCEPT !.approvals = Approve(p.approvals, r)]
    BY <1>5 DEF Result, record_proposal_approval, Upsert
  <2>2. /\ OnePerRole(Approve(p.approvals, r))
        /\ Approve(p.approvals, r) \in SUBSET Approvals(TriadRoles)
    BY <1>5, <2>1, ApproveIsSound DEF CallFits, Sound, Projects
  <2>3. QED
    BY <2>1, <2>2
    DEF Projects, Sound, CompletedWithEvidence, EverCompleted, Explained
<1>6. CASE c.op = "approve_completion"
  <2>1. /\ ~RoleTaken(p.completion, r)
        /\ q = [p EXCEPT !.completion = Approve(p.completion, r)]
    BY <1>6 DEF Result, record_completion_approval, Upsert
  <2>2. /\ OnePerRole(Approve(p.completion, r))
        /\ Approve(p.completion, r) \in SUBSET Approvals(CSuite)
        /\ p.completion \subseteq Approve(p.completion, r)
    BY <1>6, <2>1, ApproveIsSound DEF CallFits, Sound, Projects
  <2>3. QED
    BY <2>1, <2>2
    DEF Projects, Sound, CompletedWithEvidence, EverCompleted, Explained,
        HasApproved
<1>7. CASE c.op = "initialize"
  <2>1. /\ p.status # "absent" /\ assert_project_transition(p.status, "active")
        /\ q = [Move(p, "active") EXCEPT !.charter = h]
    BY <1>7 DEF Result, record_initialization, Upsert
  <2>2. Sound(Move(p, "active")) /\ Move(p, "active") \in Projects
    BY <2>1, MoveIsSound DEF ProjectStatuses
  <2>3. QED
    BY <2>1, <2>2, AdditionIsSound DEF Projects
<1>8. CASE c.op = "transition"
  <2>1. c.to \in ProjectStatuses
    BY <1>8 DEF Calls
  <2>2. /\ p.status # "absent" /\ assert_project_transition(p.status, c.to)
        /\ c.to = "completed" => _assert_completion_transition_allowed(p)
        /\ q = Move(p, c.to)
    BY <1>8 DEF Result, transition_project_status, Upsert
  <2>3. QED
    BY <2>1, <2>2, MoveIsSound
<1>9. QED
  BY <1>1, <1>2, <1>3, <1>4, <1>5, <1>6, <1>7, <1>8 DEF Calls

\* The initial state satisfies the invariant.
LEMMA InitInvariant == Init => IInv
  BY NoProjectIsSound, ProjectBounds
  DEF Init, IInv, TypeOK, Ready, CallFits, NoCall, Plain, Calls

\* A request that ends leaves its thread as it was at the start.
LEMMA EndsKeepsInvariant ==
  ASSUME IInv, NEW th \in Threads, Ends(th), UNCHANGED <<project, file>>
  PROVE  IInv'
  BY NoProjectIsSound, ProjectBounds
  DEF IInv, TypeOK, Ends, Ready, CallFits, NoCall, Plain, Calls

\* Every endpoint starts a request with a call that fits it; none promotes the
\* project, and initialize makes the call of its name.
LEMMA EndpointIsRequest ==
  ASSUME NEW th \in Threads, Endpoint(th)
  PROVE  \E r \in Requests, place \in {"charter", "peek", "read"}, c \in Calls :
           /\ Request(th, r, place, c) /\ CallFits(c, r) /\ c.to # "approved"
           /\ r.name = "initialize" => c.op = "initialize" /\ place # "peek"
<1>1. ASSUME NEW n \in {"create", "message", "initialize", "bind", "report",
                        "finalize", "pause", "resume", "terminate", "archive"}
      PROVE  Anyone(n) \in Requests /\ Anyone(n).name = n
  BY DEF Anyone, Requests
<1>2. ASSUME NEW o \in {"create", "message", "initialize", "bind", "report",
                        "notify"}, NEW r
      PROVE  /\ Plain(o) \in Calls /\ CallFits(Plain(o), r)
             /\ Plain(o).to # "approved" /\ Plain(o).op = o
  BY DEF Plain, Calls, CallFits
<1>3. ASSUME NEW s \in {"paused", "active", "terminated", "archived"}, NEW r
      PROVE  /\ Transition(s) \in Calls /\ CallFits(Transition(s), r)
             /\ Transition(s).to # "approved"
  BY DEF Transition, Calls, CallFits, ProjectStatuses
<1>4. CASE CreateProject(th) \/ PostProposalMessage(th)
             \/ BindWorkforceTemplate(th) \/ SubmitCompletionReport(th)
  BY <1>1, <1>2, <1>4 DEF CreateProject, PostProposalMessage,
    BindWorkforceTemplate, SubmitCompletionReport
<1>5. CASE InitializeProject(th) \/ FinalizeCompletion(th)
  BY <1>1, <1>2, <1>5 DEF InitializeProject, FinalizeCompletion
<1>6. CASE PauseProject(th) \/ ResumeProject(th) \/ TerminateProject(th)
             \/ ArchiveProject(th)
  BY <1>1, <1>3, <1>6 DEF PauseProject, ResumeProject, TerminateProject,
    ArchiveProject
<1>7. CASE ApproveProposal(th)
  <2>1. PICK role \in TriadRoles, actor \in Actors :
          Request(th, [name |-> "approve", role |-> role, actor |-> actor],
                  "read", Plain("approve"))
    BY <1>7 DEF ApproveProposal
  <2>2. [name |-> "approve", role |-> role, actor |-> actor] \in Requests
    BY DEF Requests
  <2>3. /\ Plain("approve") \in Calls /\ Plain("approve").to # "approved"
        /\ CallFits(Plain("approve"),
                    [name |-> "approve", role |-> role, actor |-> actor])
    BY DEF Plain, Calls, CallFits
  <2>4. QED
    BY <2>1, <2>2, <2>3
<1>8. CASE ApproveCompletion(th)
  <2> DEFINE R(role, actor) == [name |-> "approve_completion", role |-> role,
                                actor |-> actor]
  <2>1. PICK role \in CSuite, actor \in Actors :
          Request(th, R(role, actor), "read", Plain("approve_completion"))
    BY <1>8 DEF ApproveCompletion
  <2>2. R(role, actor) \in Requests
    BY DEF Requests
  <2>3. /\ Plain("approve_completion") \in Calls
        /\ Plain("approve_completion").to # "approved"
        /\ CallFits(Plain("approve_completion"), R(role, actor))
    BY DEF Plain, Calls, CallFits
  <2>4. QED
    BY <2>1, <2>2, <2>3
<1>9. QED
  BY <1>4, <1>5, <1>6, <1>7, <1>8 DEF Endpoint

\* Every step keeps the invariant.
LEMMA StepInvariant == IInv /\ [Next]_vars => IInv'
<1> SUFFICES ASSUME IInv, [Next]_vars PROVE IInv'
  OBVIOUS
<1>1. CASE UNCHANGED vars
  BY <1>1 DEF vars, IInv, TypeOK, Ready
<1>2. ASSUME NEW th \in Threads, Endpoint(th) PROVE IInv'
  <2>1. PICK r \in Requests, place \in {"charter", "peek", "read"},
             c \in Calls :
          Request(th, r, place, c) /\ CallFits(c, r)
    BY <1>2, EndpointIsRequest
  <2>2. QED
    BY <2>1 DEF Request, IInv, TypeOK, Ready
<1>3. ASSUME NEW th \in Threads, WriteCharter(th) PROVE IInv'
  BY <1>3, ProjectBounds DEF WriteCharter, IInv, TypeOK, Ready
<1>4. ASSUME NEW th \in Threads, Peek(th) PROVE IInv'
  <2>1. CASE Ends(th)
    BY <1>4, <2>1, EndsKeepsInvariant DEF Peek
  <2>2. CASE ~Ends(th)
    BY <1>4, <2>2
    DEF Peek, IInv, TypeOK, Ready, CallFits, Calls, Plain, Transition,
        ProjectStatuses
  <2>3. QED
    BY <2>1, <2>2
<1>5. ASSUME NEW th \in Threads, Read(th) PROVE IInv'
  <2>1. CASE Ends(th)
    BY <1>5, <2>1, EndsKeepsInvariant DEF Read
  <2>2. CASE ~Ends(th)
    <3>1. PICK q \in Result(call[th], req[th], project, hash[th]) :
            /\ copy' = [copy EXCEPT ![th] = q]
            /\ tpc' = [tpc EXCEPT ![th] = "write"]
            /\ UNCHANGED <<req, call, hash>>
      BY <1>5, <2>2 DEF Read
    <3>2. Sound(q) /\ q \in Projects
      BY <1>5, ResultIsSound DEF Read, IInv, TypeOK
    <3>3. QED
      BY <1>5, <3>1, <3>2 DEF Read, IInv, TypeOK, Ready
  <2>3. QED
    BY <2>1, <2>2
<1>6. ASSUME NEW th \in Threads, Write(th) PROVE IInv'
  <2>1. Sound(project') /\ project' \in Projects
    BY <1>6 DEF Write, IInv, TypeOK, Ready
  <2>2. /\ call' \in [Threads -> Calls]
        /\ CallFits(call'[th], req[th])
        /\ \A o \in Threads \ {th} : call'[o] = call[o]
        /\ tpc' \in [Threads -> {"idle", "charter", "peek", "read", "write",
                                 "after"}]
        /\ tpc'[th] # "write"
        /\ \A o \in Threads \ {th} : tpc'[o] = tpc[o]
    <3>1. CASE UNCHANGED call /\ tpc' = [tpc EXCEPT ![th] = "after"]
      BY <1>6, <3>1 DEF IInv, TypeOK
    <3>2. CASE \E c \in FollowUp(call[th], copy[th]) :
                 /\ call' = [call EXCEPT ![th] = c]
                 /\ tpc' = [tpc EXCEPT ![th] = "read"]
      <4>1. PICK c \in FollowUp(call[th], copy[th]) :
              /\ call' = [call EXCEPT ![th] = c]
              /\ tpc' = [tpc EXCEPT ![th] = "read"]
        BY <3>2
      <4>2. c \in Calls /\ CallFits(c, req[th])
        BY DEF FollowUp, Transition, Calls, CallFits, ProjectStatuses
      <4>3. QED
        BY <4>1, <4>2 DEF IInv, TypeOK
    <3>3. QED
      BY <1>6, <3>1, <3>2 DEF Write
  <2>3. /\ copy' \in [Threads -> Projects]
        /\ \A o \in Threads \ {th} : copy'[o] = copy[o]
    BY <1>6, NoProjectIsSound DEF Write, IInv, TypeOK
  <2>4. QED
    BY <1>6, <2>1, <2>2, <2>3 DEF Write, IInv, TypeOK, Ready
<1>7. ASSUME NEW th \in Threads, Finish(th) PROVE IInv'
  BY <1>7, EndsKeepsInvariant DEF Finish
<1>8. ASSUME NEW th \in Threads, Abort(th) PROVE IInv'
  BY <1>8, EndsKeepsInvariant DEF Abort
<1>9. QED
  BY <1>1, <1>2, <1>3, <1>4, <1>5, <1>6, <1>7, <1>8 DEF Next, RequestStep

\* The invariant holds in every behaviour.
LEMMA Invariant == Spec => []IInv
  BY InitInvariant, StepInvariant, PTL DEF Spec

\* Every variable keeps its type, for all threads, actors and bounds.
THEOREM ProjectTypes == Spec => []TypeOK
<1>1. IInv => TypeOK
  BY DEF IInv
<1>2. QED
  BY <1>1, Invariant, PTL

\* No interleaving of governance requests stores a project that was completed
\* without report, both approvals and the notice of the owner.
THEOREM CompletionNeedsEvidence == Spec => []CompletedHasEvidence
<1>1. IInv => CompletedHasEvidence
  BY DEF IInv, Sound, CompletedHasEvidence
<1>2. QED
  BY <1>1, Invariant, PTL

\* The stored history explains the stored status in every interleaving, even
\* though updates may be lost.
THEOREM HistoryIsConsistent == Spec => []HistoryExplainsStatus
<1>1. IInv => HistoryExplainsStatus
  BY DEF IInv, Sound, HistoryExplainsStatus
<1>2. QED
  BY <1>1, Invariant, PTL

\* In every interleaving each role has at most one approval in a document.
THEOREM RolesApproveOnce == Spec => []OneApprovalPerRole
<1>1. IInv => OneApprovalPerRole
  BY DEF IInv, Sound, OneApprovalPerRole
<1>2. QED
  BY <1>1, Invariant, PTL

-----------------------------------------------------------------------------
(* One request at a time *)

\* Requests come one at a time.
OneThread == \A a, b \in Threads : a = b

\* What a write may do to the stored document.
Follows(p, q) ==
  /\ p.approvals \subseteq q.approvals
  /\ p.completion \subseteq q.completion
  /\ p.report => q.report
  /\ p.notified => q.notified
  /\ p.entries <= q.entries
  /\ q.status # p.status =>
       \/ p.status = "absent" /\ q.status = "proposed"
       \/ q.status \in ALLOWED_TRANSITIONS[p.status]

\* A document that left proposed has the triad.
WithTriad(p) ==
  p.status \notin {"absent", "proposed"} => HasApproved(p.approvals, TriadRoles)

\* A thread about to write has the successor of the stored document, and one
\* that promotes the project has seen the triad.
SerialReady(th) ==
  /\ tpc[th] = "write" => /\ Follows(project, copy[th])
                          /\ WithTriad(copy[th])
                          /\ copy[th].status # "absent"
  /\ call[th].to = "approved" => HasApproved(project.approvals, TriadRoles)

SInv ==
  /\ IInv
  /\ project.status = "absent" => project = NoProject
  /\ WithTriad(project)
  /\ \A th \in Threads : SerialReady(th)

\* What Move leaves alone.
LEMMA MoveFields ==
  ASSUME NEW p \in Projects, NEW n \in ProjectStatuses
  PROVE  /\ Move(p, n).status = n
         /\ Move(p, n).approvals = p.approvals
         /\ Move(p, n).completion = p.completion
         /\ Move(p, n).report = p.report
         /\ Move(p, n).notified = p.notified
         /\ Move(p, n).entries = p.entries
  BY DEF Move, Projects

\* The project leaves proposed only to be approved.
LEMMA OnlyToApproved ==
  ASSUME NEW n \in ProjectStatuses, assert_project_transition("proposed", n)
  PROVE  n \in {"proposed", "approved"}
  BY DEF assert_project_transition, ALLOWED_TRANSITIONS, ProjectStatuses

\* A recorded transition to an allowed status follows the document.
LEMMA MoveFollows ==
  ASSUME NEW p \in Projects, WithTriad(p), p.status # "absent",
         NEW n \in ProjectStatuses, assert_project_transition(p.status, n),
         n = "approved" => HasApproved(p.approvals, TriadRoles)
  PROVE  /\ Follows(p, Move(p, n)) /\ WithTriad(Move(p, n))
         /\ Move(p, n).status # "absent"
<1>1. Follows(p, Move(p, n))
  <2>1. p.entries <= p.entries
    BY ProjectBounds DEF Projects
  <2> QED
    BY <2>1, MoveFields DEF Follows, assert_project_transition
<1>2. "absent" \notin ProjectStatuses
  BY DEF ProjectStatuses
<1>3. n # "proposed" => HasApproved(p.approvals, TriadRoles)
  BY OnlyToApproved DEF WithTriad
<1> QED
  BY <1>1, <1>2, <1>3, MoveFields DEF WithTriad

\* Whatever a method makes of a document follows it.
LEMMA ResultFollows ==
  ASSUME NEW c \in Calls, NEW r, NEW p \in Projects,
         NEW h \in 0..MaxCharters, NEW q \in Result(c, r, p, h),
         p.status = "absent" => p = NoProject, WithTriad(p),
         c.to = "approved" => HasApproved(p.approvals, TriadRoles)
  PROVE  Follows(p, q) /\ WithTriad(q) /\ q.status # "absent"
<1>0. p.entries \in Nat /\ p.entries <= p.entries
  BY ProjectBounds DEF Projects
<1>1. CASE c.op = "create"
  <2>1. p = NoProject /\ q = [NoProject EXCEPT !.status = "proposed"]
    BY <1>1 DEF Result, create_project, Upsert
  <2> QED
    BY <2>1 DEF NoProject, Follows, WithTriad
<1>2. CASE c.op \in {"message", "bind"}
  <2>1. q = [p EXCEPT !.entries = p.entries + 1] /\ p.status # "absent"
    BY <1>2 DEF Result, add_proposal_message, bind_workforce, Upsert
  <2> QED
    BY <1>0, <2>1 DEF Projects, Follows, WithTriad
<1>3. CASE c.op = "report"
  <2>1. q = [p EXCEPT !.report = TRUE] /\ p.status # "absent"
    BY <1>3 DEF Result, submit_completion_report, Upsert
  <2> QED
    BY <1>0, <2>1 DEF Projects, Follows, WithTriad
<1>4. CASE c.op = "notify"
  <2>1. q = [p EXCEPT !.notified = TRUE] /\ p.status # "absent"
    BY <1>4 DEF Result, record_completion_owner_notified, Upsert
  <2> QED
    BY <1>0, <2>1 DEF Projects, Follows, WithTriad
<1>5. CASE c.op = "approve"
  <2>1. /\ q = [p EXCEPT !.approvals = Approve(p.approvals, r)]
        /\ p.status = "proposed"
    BY <1>5 DEF Result, record_proposal_approval, Upsert
  <2>2. p.approvals \subseteq Approve(p.approvals, r)
    BY DEF Approve
  <2> QED
    BY <1>0, <2>1, <2>2 DEF Projects, Follows, WithTriad
<1>6. CASE c.op = "approve_completion"
  <2>1. /\ q = [p EXCEPT !.completion = Approve(p.completion, r)]
        /\ p.status = "active"
    BY <1>6 DEF Result, record_completion_approval, Upsert
  <2>2. p.completion \subseteq Approve(p.completion, r)
    BY DEF Approve
  <2> QED
    BY <1>0, <2>1, <2>2 DEF Projects, Follows, WithTriad
<1>7. CASE c.op = "initialize"
  <2> DEFINE m == Move(p, "active")
  <2>1. /\ p.status # "absent" /\ assert_project_transition(p.status, "active")
        /\ q = [m EXCEPT !.charter = h]
    BY <1>7 DEF Result, record_initialization, Upsert
  <2>2. "active" \in ProjectStatuses
    BY DEF ProjectStatuses
  <2>3. Follows(p, m) /\ WithTriad(m) /\ m.status # "absent"
    BY <2>1, <2>2, MoveFollows
  <2>4. DOMAIN m = DOMAIN p
    BY DEF Move, Projects
  <2> HIDE DEF m
  <2>5. /\ q.status = m.status /\ q.approvals = m.approvals
        /\ q.completion = m.completion /\ q.report = m.report
        /\ q.notified = m.notified /\ q.entries = m.entries
    BY <2>1, <2>4 DEF Projects
  <2> QED
    BY <2>3, <2>5 DEF Follows, WithTriad
<1>8. CASE c.op = "transition"
  <2>1. c.to \in ProjectStatuses
    BY <1>8 DEF Calls
  <2>2. /\ p.status # "absent" /\ assert_project_transition(p.status, c.to)
        /\ q = Move(p, c.to)
    BY <1>8 DEF Result, transition_project_status, Upsert
  <2> QED
    BY <2>1, <2>2, MoveFollows
<1> QED
  BY <1>1, <1>2, <1>3, <1>4, <1>5, <1>6, <1>7, <1>8 DEF Calls

\* The initial state satisfies the serial invariant.
LEMMA InitSerial == Init => SInv
  BY InitInvariant
  DEF Init, SInv, WithTriad, SerialReady, NoProject, NoCall, Plain

\* A request that ends keeps the serial invariant.
LEMMA EndsKeepsSerial ==
  ASSUME SInv, NEW th \in Threads, Ends(th), UNCHANGED <<project, file>>
  PROVE  SInv'
<1>1. IInv'
  BY EndsKeepsInvariant DEF SInv
<1>2. ASSUME NEW o \in Threads PROVE SerialReady(o)'
  <2>1. CASE o = th
    BY <2>1 DEF Ends, SInv, IInv, TypeOK, SerialReady, NoCall, Plain
  <2>2. CASE o # th
    BY <2>2 DEF Ends, SInv, IInv, TypeOK, SerialReady
  <2> QED
    BY <2>1, <2>2
<1> QED
  BY <1>1, <1>2 DEF SInv

\* With one thread, a step keeps the serial invariant, and what it does to the
\* stored document follows from it.
LEMMA StepSerial ==
  ASSUME OneThread, SInv, [Next]_vars
  PROVE  SInv' /\ Follows(project, project')
<1>0. IInv' /\ IInv /\ TypeOK
  BY StepInvariant DEF SInv, IInv
<1> DEFINE Same == Follows(project, project)
<1>S. Same
  BY <1>0, ProjectBounds DEF TypeOK, Projects, Follows
<1>1. CASE UNCHANGED vars
  BY <1>0, <1>S, <1>1 DEF vars, SInv, SerialReady
<1>2. ASSUME NEW th \in Threads, Endpoint(th)
      PROVE  SInv' /\ Follows(project, project')
  <2>1. PICK r \in Requests, place \in {"charter", "peek", "read"},
             c \in Calls :
          Request(th, r, place, c) /\ CallFits(c, r) /\ c.to # "approved"
    BY <1>2, EndpointIsRequest
  <2> QED
    BY <1>0, <1>S, <2>1 DEF Request, SInv, TypeOK, SerialReady
<1>3. ASSUME NEW th \in Threads, WriteCharter(th)
      PROVE  SInv' /\ Follows(project, project')
  BY <1>0, <1>S, <1>3 DEF WriteCharter, SInv, TypeOK, SerialReady
<1>4. ASSUME NEW th \in Threads, Peek(th)
      PROVE  SInv' /\ Follows(project, project')
  <2>1. CASE Ends(th)
    BY <1>S, <1>4, <2>1, EndsKeepsSerial DEF Peek
  <2>2. CASE ~Ends(th)
    <3>1. PICK c \in {Transition("completed"), Plain("notify")} :
            /\ tpc' = [tpc EXCEPT ![th] = "read"]
            /\ call' = [call EXCEPT ![th] = c]
            /\ UNCHANGED <<project, file, req, copy, hash>>
      BY <1>4, <2>2 DEF Peek
    <3>2. c.to # "approved"
      BY DEF Transition, Plain
    <3> QED
      BY <1>0, <1>S, <3>1, <3>2 DEF SInv, TypeOK, SerialReady
  <2> QED
    BY <2>1, <2>2
<1>5. ASSUME NEW th \in Threads, Read(th)
      PROVE  SInv' /\ Follows(project, project')
  <2>1. CASE Ends(th)
    BY <1>S, <1>5, <2>1, EndsKeepsSerial DEF Read
  <2>2. CASE ~Ends(th)
    <3>1. PICK q \in Result(call[th], req[th], project, hash[th]) :
            /\ copy' = [copy EXCEPT ![th] = q]
            /\ tpc' = [tpc EXCEPT ![th] = "write"]
            /\ UNCHANGED <<project, file, req, call, hash>>
      BY <1>5, <2>2 DEF Read
    <3>2. Follows(project, q) /\ WithTriad(q) /\ q.status # "absent"
      BY <1>0, ResultFollows DEF SInv, TypeOK, SerialReady
    <3>3. copy'[th] = q
      BY <1>0, <3>1 DEF TypeOK
    <3>4. \A o \in Threads : SerialReady(o)'
      BY <3>1, <3>2, <3>3 DEF OneThread, SInv, SerialReady
    <3> QED
      BY <1>0, <1>S, <3>1, <3>4 DEF SInv
  <2> QED
    BY <2>1, <2>2
<1>6. ASSUME NEW th \in Threads, Write(th)
      PROVE  SInv' /\ Follows(project, project')
  <2>1. /\ project' = copy[th] /\ tpc[th] = "write"
        /\ tpc'[th] # "write"
    BY <1>0, <1>6 DEF Write, TypeOK
  <2>2. /\ Follows(project, project') /\ WithTriad(project')
        /\ project'.status # "absent"
    BY <2>1 DEF SInv, SerialReady
  <2>3. call'[th].to = "approved" => HasApproved(project'.approvals, TriadRoles)
    <3>1. CASE UNCHANGED call
      <4>1. call[th].to = "approved"
              => HasApproved(project.approvals, TriadRoles)
        BY DEF SInv, SerialReady
      <4> QED
        BY <2>2, <3>1, <4>1 DEF Follows, HasApproved
    <3>2. ASSUME NEW c \in FollowUp(call[th], copy[th]),
                 call' = [call EXCEPT ![th] = c]
          PROVE  call'[th].to = "approved"
                   => HasApproved(project'.approvals, TriadRoles)
      <4>1. call'[th] = c
        BY <1>0, <3>2 DEF TypeOK
      <4>2. c.to = "approved" => _has_triad_approvals(copy[th])
        BY DEF FollowUp, Transition
      <4> QED
        BY <2>1, <4>1, <4>2 DEF _has_triad_approvals
    <3> QED
      BY <1>6, <3>1, <3>2 DEF Write
  <2>4. \A o \in Threads : SerialReady(o)'
    BY <2>1, <2>3 DEF OneThread, SerialReady
  <2> QED
    BY <1>0, <2>2, <2>4 DEF SInv
<1>7. ASSUME NEW th \in Threads, Finish(th) \/ Abort(th)
      PROVE  SInv' /\ Follows(project, project')
  BY <1>S, <1>7, EndsKeepsSerial DEF Finish, Abort
<1> QED
  BY <1>1, <1>2, <1>3, <1>4, <1>5, <1>6, <1>7 DEF Next, RequestStep

\* While requests come one at a time, a project that left proposed has the
\* approvals of owner, CEO and CWO.
THEOREM SerialApprovalIsByTriad ==
  ASSUME OneThread PROVE Spec => []ApprovedHasTriad
<1>1. SInv /\ [Next]_vars => SInv'
  BY StepSerial
<1>2. SInv => ApprovedHasTriad
  BY DEF SInv, WithTriad, ApprovedHasTriad
<1> QED
  BY <1>1, <1>2, InitSerial, PTL DEF Spec

\* While requests come one at a time, the stored status moves along the
\* lifecycle only.
THEOREM SerialStatusIsLegal ==
  ASSUME OneThread PROVE Spec => StatusChangesAreLegal
<1>1. SInv /\ [Next]_vars => SInv'
  BY StepSerial
<1> DEFINE Legal == project'.status # project.status =>
                      \/ project.status = "absent" /\ project'.status = "proposed"
                      \/ project'.status \in ALLOWED_TRANSITIONS[project.status]
<1>2. SInv /\ [Next]_vars => [Legal]_vars
  BY StepSerial DEF Follows
<1> QED
  BY <1>1, <1>2, InitSerial, PTL DEF Spec, StatusChangesAreLegal

\* While requests come one at a time, no approval, report, notice or entry is
\* ever lost.
THEOREM SerialEvidenceIsKept ==
  ASSUME OneThread PROVE Spec => EvidenceIsKept
<1>1. SInv /\ [Next]_vars => SInv'
  BY StepSerial
<1> DEFINE Kept == /\ project.approvals \subseteq project'.approvals
                   /\ project.completion \subseteq project'.completion
                   /\ project.report => project'.report
                   /\ project.notified => project'.notified
                   /\ project.entries <= project'.entries
<1>2. SInv /\ [Next]_vars => [Kept]_vars
  BY StepSerial DEF Follows
<1> QED
  BY <1>1, <1>2, InitSerial, PTL DEF Spec, EvidenceIsKept
=============================================================================
