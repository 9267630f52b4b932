-------------------------- MODULE ProjectGovernance -------------------------
(***************************************************************************)
(* The governed lifecycle of one project: the endpoints of the governance  *)
(* router and the governance handlers, on top of PostgresProjectRepository *)
(* (projects do not share state, so one stands for all).                   *)
(*                                                                         *)
(* Every repository method reads the whole project document in one         *)
(* transaction, checks and changes the copy, and upserts the whole         *)
(* document in another; the endpoints are run by the threads of the API    *)
(* process, and by the worker through the project tools.  A read and a     *)
(* write are therefore two steps here, with the copy in between.           *)
(***************************************************************************)
EXTENDS Integers, Sequences, ProjectStatus

CONSTANTS
  Threads,        \* request threads
  Actors,         \* actor ids
  Endpoints,      \* bound: the endpoints that are called
  MaxTransitions, \* bound: lifecycle transitions of the project
  MaxEntries,     \* bound: proposal messages and workforce bindings
  MaxCharters     \* bound: initialization requests

ASSUME ProjectBounds == /\ MaxTransitions \in Nat
                        /\ MaxEntries \in Nat
                        /\ MaxCharters \in Nat

TriadRoles == {"owner", "ceo", "cwo"}
CSuite == {"ceo", "cwo"}

\* A stored approval: who approved, in which role.
Approvals(roles) == [role : roles, actor : Actors]

\* The document of a project.  entries counts what is only ever appended
\* (messages, workforce bindings); charter is the charter_content_hash of
\* the initialization, 0 without one.
Projects ==
  [status      : ProjectStatuses \union {"absent"},
   transitions : Seq([from : ProjectStatuses, to : ProjectStatuses]),
   approvals   : SUBSET Approvals(TriadRoles),
   report      : BOOLEAN,
   completion  : SUBSET Approvals(CSuite),
   notified    : BOOLEAN,
   charter     : 0..MaxCharters,
   entries     : 0..MaxEntries]

\* No row.
NoProject ==
  [status |-> "absent", transitions |-> <<>>, approvals |-> {},
   report |-> FALSE, completion |-> {}, notified |-> FALSE, charter |-> 0,
   entries |-> 0]

\* What may be asked: an endpoint, with the role and actor of the approvals.
Requests ==
  [name : {"create", "message", "initialize", "bind", "report", "finalize",
           "pause", "resume", "terminate", "archive"},
   role : {"none"}, actor : {"none"}]
    \union [name : {"approve"}, role : TriadRoles, actor : Actors]
    \union [name : {"approve_completion"}, role : CSuite, actor : Actors]

\* A repository call in progress: its method, and the next status of
\* transition_project_status.
Calls == [op : {"create", "message", "approve", "initialize", "bind",
                "report", "approve_completion", "notify"}, to : {"none"}]
           \union [op : {"transition"}, to : ProjectStatuses]

Plain(op)      == [op |-> op, to |-> "none"]
Transition(to) == [op |-> "transition", to |-> to]

NoCall == Plain("create")

\* A request whose role and actor the document does not keep.
Anyone(name) == [name |-> name, role |-> "none", actor |-> "none"]

NoRequest == Anyone("none")

VARIABLES
  project,  \* the row of table projects
  file,     \* charter.json: the number of the request that wrote it last
  tpc,      \* where each thread is
  req,      \* its request
  call,     \* its repository call
  copy,     \* the document it is about to upsert
  hash      \* charter_content_hash of the charter it wrote

vars == <<project, file, tpc, req, call, copy, hash>>

Init ==
  /\ project = NoProject
  /\ file = 0
  /\ tpc = [th \in Threads |-> "idle"]
  /\ req = [th \in Threads |-> NoRequest]
  /\ call = [th \in Threads |-> NoCall]
  /\ copy = [th \in Threads |-> NoProject]
  /\ hash = [th \in Threads |-> 0]

-----------------------------------------------------------------------------
(* What the methods of the repository are made of *)

HasApproved(approvals, roles) ==
  \A r \in roles : \E a \in approvals : a.role = r

\* Mutated form: the owner is not asked.
_has_c_suite_approvals(p) == HasApproved(p.approvals, CSuite)

_has_triad_approvals(p) == HasApproved(p.approvals, TriadRoles)

\* Mutated form: any status may follow any other.
AnyTransition(current, next) == next # current

\* project_lifecycle.assert_project_transition: TRUE when it does not raise.
assert_project_transition(current, next) ==
  next \in ALLOWED_TRANSITIONS[current]

\* Mutated form: one approval of the two is enough.
OneCompletionApproval(p) ==
  /\ p.report /\ p.notified
  /\ p.completion # {}

\* _assert_completion_transition_allowed
_assert_completion_transition_allowed(p) ==
  /\ p.report /\ p.notified
  /\ HasApproved(p.completion, CSuite)

\* Mutated form: only the same actor is recognised.
SameActor(approvals, r) ==
  \E a \in approvals : a.role = r.role /\ a.actor = r.actor

\* An approval of the role exists: the request changes nothing when it is the
\* same actor's, and is refused when it is another's.
RoleTaken(approvals, r) == \E a \in approvals : a.role = r.role

\* Mutated form: the status changes, the history does not.
MoveUnrecorded(p, next) == [p EXCEPT !.status = next]

\* The status with its ProjectStatusTransitionRecord.
Move(p, next) ==
  [p EXCEPT !.status = next,
            !.transitions = Append(@, [from |-> p.status, to |-> next])]

\* Mutated form: the new approval replaces the earlier ones.
ApproveAlone(approvals, r) == {[role |-> r.role, actor |-> r.actor]}

\* Mutated form: the approval forgets who gave it.
ApproveUnsigned(approvals, r) ==
  approvals \union {[role |-> r.role, actor |-> "none"]}

Approve(approvals, r) ==
  approvals \union {[role |-> r.role, actor |-> r.actor]}

-----------------------------------------------------------------------------
(* The methods of the repository *)

\* What a method leaves to be upserted: nothing when it raises or returns early.
Upsert(guard, p) == {q \in {p} : guard}

create_project(p) ==
  Upsert(p.status = "absent", [NoProject EXCEPT !.status = "proposed"])

add_proposal_message(p) ==
  Upsert(p.status = "proposed", [p EXCEPT !.entries = @ + 1])

record_proposal_approval(p, r) ==
  Upsert(p.status = "proposed" /\ ~RoleTaken(p.approvals, r),
         [p EXCEPT !.approvals = Approve(@, r)])

record_initialization(p, h) ==
  Upsert(p.status # "absent" /\ assert_project_transition(p.status, "active"),
         [Move(p, "active") EXCEPT !.charter = h])

bind_workforce(p) ==
  Upsert(p.status # "absent", [p EXCEPT !.entries = @ + 1])

submit_completion_report(p) ==
  Upsert(p.status = "active" /\ ~p.report, [p EXCEPT !.report = TRUE])

record_completion_approval(p, r) ==
  Upsert(p.status = "active" /\ p.report /\ ~RoleTaken(p.completion, r),
         [p EXCEPT !.completion = Approve(@, r)])

record_completion_owner_notified(p) ==
  Upsert(p.status # "absent", [p EXCEPT !.notified = TRUE])

transition_project_status(p, next) ==
  Upsert(/\ p.status # "absent"
         /\ assert_project_transition(p.status, next)
         /\ next = "completed" => _assert_completion_transition_allowed(p),
         Move(p, next))

\* The method of a call, applied to the document p it read.
Result(c, r, p, h) ==
  CASE c.op = "create"             -> create_project(p)
    [] c.op = "message"            -> add_proposal_message(p)
    [] c.op = "approve"            -> record_proposal_approval(p, r)
    [] c.op = "initialize"         -> record_initialization(p, h)
    [] c.op = "bind"               -> bind_workforce(p)
    [] c.op = "report"             -> submit_completion_report(p)
    [] c.op = "approve_completion" -> record_completion_approval(p, r)
    [] c.op = "notify"             -> record_completion_owner_notified(p)
    [] c.op = "transition"         -> transition_project_status(p, c.to)

\* The bounds on the document.
InBounds(c, p) ==
  /\ c.op \in {"message", "bind"} => p.entries < MaxEntries
  /\ c.op \in {"initialize", "transition"} => Len(p.transitions) < MaxTransitions

-----------------------------------------------------------------------------
(* A request *)

\* The request is over, and with it the thread's local variables.
Ends(th) ==
  /\ tpc' = [tpc EXCEPT ![th] = "idle"]
  /\ req' = [req EXCEPT ![th] = NoRequest]
  /\ call' = [call EXCEPT ![th] = NoCall]
  /\ copy' = [copy EXCEPT ![th] = NoProject]
  /\ hash' = [hash EXCEPT ![th] = 0]

\* The request r is accepted: its role and headers are the right ones, and the
\* handler has reached its first access of a store.
Request(th, r, place, c) ==
  /\ tpc[th] = "idle" /\ r.name \in Endpoints
  /\ tpc' = [tpc EXCEPT ![th] = place]
  /\ req' = [req EXCEPT ![th] = r]
  /\ call' = [call EXCEPT ![th] = c]
  /\ UNCHANGED <<project, file, copy, hash>>

CreateProject(th) == Request(th, Anyone("create"), "read", Plain("create"))

PostProposalMessage(th) ==
  Request(th, Anyone("message"), "read", Plain("message"))

ApproveProposal(th) ==
  \E role \in TriadRoles, actor \in Actors :
    Request(th, [name |-> "approve", role |-> role, actor |-> actor],
            "read", Plain("approve"))

InitializeProject(th) ==
  Request(th, Anyone("initialize"), "charter", Plain("initialize"))

BindWorkforceTemplate(th) ==
  Request(th, Anyone("bind"), "read", Plain("bind"))

SubmitCompletionReport(th) ==
  Request(th, Anyone("report"), "read", Plain("report"))

ApproveCompletion(th) ==
  \E role \in CSuite, actor \in Actors :
    Request(th, [name |-> "approve_completion", role |-> role,
                 actor |-> actor],
            "read", Plain("approve_completion"))

FinalizeCompletion(th) ==
  Request(th, Anyone("finalize"), "peek", Plain("notify"))

PauseProject(th) ==
  Request(th, Anyone("pause"), "read", Transition("paused"))

ResumeProject(th) ==
  Request(th, Anyone("resume"), "read", Transition("active"))

TerminateProject(th) ==
  Request(th, Anyone("terminate"), "read", Transition("terminated"))

ArchiveProject(th) ==
  Request(th, Anyone("archive"), "read", Transition("archived"))

\* initialize_project_by_cwo writes charter.json before it looks at the
\* project at all.
WriteCharter(th) ==
  /\ tpc[th] = "charter" /\ file < MaxCharters
  /\ file' = file + 1
  /\ hash' = [hash EXCEPT ![th] = file + 1]
  /\ tpc' = [tpc EXCEPT ![th] = "read"]
  /\ UNCHANGED <<project, req, call, copy>>

\* finalize_project_completion_by_c_suite: the owner is recorded as notified
\* first, unless the project says so already.
Peek(th) ==
  /\ tpc[th] = "peek"
  /\ IF project.status = "absent" THEN Ends(th)
     ELSE /\ tpc' = [tpc EXCEPT ![th] = "read"]
          /\ call' = [call EXCEPT ![th] = IF project.notified
                                            THEN Transition("completed")
                                            ELSE Plain("notify")]
          /\ UNCHANGED <<req, copy, hash>>
  /\ UNCHANGED <<project, file>>

\* The method reads the document, checks it and changes its copy; a check that
\* fails ends the request.
Read(th) ==
  /\ tpc[th] = "read" /\ InBounds(call[th], project)
  /\ LET result == Result(call[th], req[th], project, hash[th])
     IN  \/ /\ \E q \in result : copy' = [copy EXCEPT ![th] = q]
            /\ tpc' = [tpc EXCEPT ![th] = "write"]
            /\ UNCHANGED <<req, call, hash>>
         \/ result = {} /\ Ends(th)
  /\ UNCHANGED <<project, file>>

\* The method called after the upsert of p: the promotion when p has the triad,
\* the completion after the notice.
FollowUp(c, p) ==
  CASE c.op = "approve" /\ _has_triad_approvals(p) -> {Transition("approved")}
    [] c.op = "notify" -> {Transition("completed")}
    [] OTHER -> {}

\* _upsert_project: the copy replaces the row.
Write(th) ==
  /\ tpc[th] = "write"
  /\ project' = copy[th]
  /\ copy' = [copy EXCEPT ![th] = NoProject]
  /\ \/ /\ FollowUp(call[th], copy[th]) = {}
        /\ tpc' = [tpc EXCEPT ![th] = "after"]
        /\ UNCHANGED call
     \/ \E c \in FollowUp(call[th], copy[th]) :
          /\ call' = [call EXCEPT ![th] = c]
          /\ tpc' = [tpc EXCEPT ![th] = "read"]
  /\ UNCHANGED <<file, req, hash>>

\* Audit event and answer.
Finish(th) ==
  /\ tpc[th] = "after" /\ Ends(th)
  /\ UNCHANGED <<project, file>>

\* A database error, or the end of the process: the request stops here.
Abort(th) ==
  /\ tpc[th] # "idle" /\ Ends(th)
  /\ UNCHANGED <<project, file>>

-----------------------------------------------------------------------------
Endpoint(th) ==
  \/ CreateProject(th) \/ PostProposalMessage(th) \/ ApproveProposal(th)
  \/ InitializeProject(th) \/ BindWorkforceTemplate(th)
  \/ SubmitCompletionReport(th) \/ ApproveCompletion(th)
  \/ FinalizeCompletion(th) \/ PauseProject(th) \/ ResumeProject(th)
  \/ TerminateProject(th) \/ ArchiveProject(th)

RequestStep(th) ==
  \/ Endpoint(th)
  \/ WriteCharter(th) \/ Peek(th) \/ Read(th) \/ Write(th) \/ Abort(th)

Next == \E th \in Threads : RequestStep(th) \/ Finish(th)

Spec == Init /\ [][Next]_vars

-----------------------------------------------------------------------------
(* Properties *)

\* Every variable ranges over what the code can hold there.
TypeOK ==
  /\ project \in Projects
  /\ file \in 0..MaxCharters
  /\ tpc \in [Threads -> {"idle", "charter", "peek", "read", "write", "after"}]
  /\ req \in [Threads -> Requests \union {NoRequest}]
  /\ call \in [Threads -> Calls]
  /\ copy \in [Threads -> Projects]
  /\ hash \in [Threads -> 0..MaxCharters]

\* The document was completed at some point.
EverCompleted(p) ==
  \E i \in DOMAIN p.transitions : p.transitions[i].to = "completed"

CompletedWithEvidence(p) ==
  EverCompleted(p) => /\ p.report /\ p.notified
                      /\ HasApproved(p.completion, CSuite)

\* A project that was ever completed has its report, the approvals of CEO and
\* CWO and the notice of the owner in the same document, however requests
\* overwrite each other.
CompletedHasEvidence == CompletedWithEvidence(project)

Explained(p) ==
  LET h == p.transitions
  IN  /\ \A i \in DOMAIN h : /\ h[i].to \in ALLOWED_TRANSITIONS[h[i].from]
                             /\ h[i].from = IF i = 1 THEN "proposed"
                                                     ELSE h[i - 1].to
      /\ IF h = <<>> THEN p.status \in {"absent", "proposed"}
                     ELSE p.status = h[Len(h)].to

\* The stored history explains the stored status, also after lost updates: it
\* starts at proposed, each record continues where the one before ended and is
\* an edge of the lifecycle, and the last one ends at the status.
HistoryExplainsStatus == Explained(project)

OnePerRole(approvals) ==
  \A a, b \in approvals : a.role = b.role => a = b

\* No role has approved twice in the stored document, not even as two actors.
OneApprovalPerRole ==
  OnePerRole(project.approvals) /\ OnePerRole(project.completion)

\* While requests come one at a time, a change of the stored status is an edge
\* of the lifecycle, although some request may stop half way.
StatusChangesAreLegal ==
  [][project'.status # project.status =>
       \/ project.status = "absent" /\ project'.status = "proposed"
       \/ project'.status \in ALLOWED_TRANSITIONS[project.status]]_vars

\* ... and nothing recorded is ever lost.
EvidenceIsKept ==
  [][/\ project.approvals \subseteq project'.approvals
     /\ project.completion \subseteq project'.completion
     /\ project.report => project'.report
     /\ project.notified => project'.notified
     /\ project.entries <= project'.entries]_vars

\* ... and a project that left "proposed" has the approvals of owner, CEO and
\* CWO, although the triad is checked on the copy of one call and the status
\* changed by another, which a request may not reach.  (With two threads an
\* approval written from an older copy in between removes one of the three.)
ApprovedHasTriad ==
  project.status \notin {"absent", "proposed"} =>
    HasApproved(project.approvals, TriadRoles)

-----------------------------------------------------------------------------
(* What the documentation says and the code does not do *)

\* ProjectStateMachine.md, "Archived projects reject further mutation events".
ArchivedIsImmutable ==
  [][project.status = "archived" => project' = project]_vars

\* ProjectStateMachine.md, illegal transitions, "terminated -> active": a
\* terminated project does not come back.
TerminatedIsNotRevived ==
  [][project.status = "terminated" => project'.status # "active"]_vars

\* ProjectArtifactModel.md, "DB pointer (storage_uri) and file hash
\* (content_hash) must remain synchronized": at rest, the charter of an
\* initialized project is the one its hash was taken of.
CharterMatchesHash ==
  (\A th \in Threads : tpc[th] = "idle") /\ project.charter # 0
    => project.charter = file

\* record_proposal_approval, "auto-promote when triad is complete": at rest, a
\* project with the three approvals is not left proposed.
TriadIsPromoted ==
  (\A th \in Threads : tpc[th] = "idle") /\ project.status = "proposed"
    => ~_has_triad_approvals(project)

\* resume_project_by_governance, "Resume one paused project": a project becomes
\* active only through its initialization.
ActiveWasInitialized == project.status = "active" => project.charter # 0

\* finalize_project_completion_by_c_suite, "the finalize step implicitly
\* notifies the owner by transitioning to completed": at rest, an owner
\* recorded as notified has a completed project.
NotifiedOfCompletion ==
  (\A th \in Threads : tpc[th] = "idle") /\ project.notified
    => EverCompleted(project)

=============================================================================
