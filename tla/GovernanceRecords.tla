-------------------------- MODULE GovernanceRecords -------------------------
(***************************************************************************)
(* The governed documents of a project and the agents that write them: the *)
(* artifact repository and its file store; the proposal chain of CSO, CEO  *)
(* and CWO with its gates; the co-approvals; the project manager's writer; *)
(* the auditor's findings; the administrator's retention and quarantine    *)
(* records; and the governed write tools.                                  *)
(*                                                                         *)
(* A request runs in a thread of a process.  Its handler is given as the   *)
(* list of things it does one after the other (its plan); a gate that      *)
(* refuses, or a write that raises, drops the rest.  Every read of the     *)
(* repository is a transaction of its own, and one write is three steps:   *)
(* count the revisions, write the file, insert the row.                    *)
(***************************************************************************)
EXTENDS Integers, Sequences, FiniteSets, SequencesExt, ProjectStatus

CONSTANTS
  Threads,       \* threads that run requests
  Projects, Proposals, ApprovalTypes, Tasks, Keys,
  allowed_type_caps, total_active_document_cap,  \* ProjectDocumentPolicy
  Cases          \* bound: the situations looked at, see Case

Types == DOMAIN allowed_type_caps
AppendOnly == {"decision_log", "progress_report", "completion_report"}
GovernanceEvents ==
  {"cso_review", "ceo_proposal_decision", "ceo_coapproval", "cwo_coapproval",
   "auditor_finding", "auditor_enforcement", "auditor_owner_escalation",
   "auditor_ceo_notification", "auditor_owner_alert",
   "administrator_retention", "administrator_containment",
   "administrator_owner_notification", "administrator_ceo_notification",
   "administrator_owner_alert"}
ProjectWritable == {"proposed", "approved", "active", "paused"}
ManagerForbidden == {"project_charter", "workforce_plan"}
Conditional == {"scope_statement", "budget_plan", "success_metrics"}

Conflict == "Strategic Conflict"
Outcomes == {"Aligned", "Needs Revision", Conflict}
Decisions == {"approved", "denied", "needs_revision"}

\* A document.  about: the proposal, approval type, task or tool call it is
\* about; says: the outcome, decision or kind of finding it records; by: the
\* kind of request that wrote it; n: which request, so that no two documents
\* are equal.
Doc(topic, words, kind, number) ==
  [about |-> topic, says |-> words, by |-> kind, n |-> number]

VARIABLES
  inbox,      \* inbox[t]: the requests t still has to run, the first running
  plan,       \* plan[t]: what the running request has left to do
  mind,       \* mind[t]: what the running request remembers
  rows,       \* artifacts table: rows[p][ty] is the sequence of revisions
  files,      \* file store: files[p][ty][rev], the path is <type>-v<rev>
  status,     \* status[p]: the project's status
  workforce,  \* status of the project's workforce agent in the registry
  blocked,    \* tasks that the auditor paused
  memo,       \* GovernedWriteToolService._idempotent_results
  bound,      \* status changes and faults that may still happen
  effects,    \* observation: what the calls with a key did since the start
  log         \* observation: every document inserted and binding made

vars == <<inbox, plan, mind, rows, files, status, workforce, blocked, memo,
          bound, effects, log>>
threads == <<inbox, plan, mind>>
stores == <<rows, files>>
others == <<status, bound>>

-----------------------------------------------------------------------------
(* The repository.                                                         *)

\* list_artifact_documents and list_artifact_documents_by_type.
list_artifact_documents(p, ty) == rows[p][ty]
OfType(ty) == UNION {ToSet(rows[p][ty]) : p \in Projects}

\* read_latest_artifact and get_latest_pointer find a row.
Present(p, ty) == rows[p][ty] # <<>>

\* _assert_write_authorization: the status is the one the caller passes.
Authorized(ty, role, st) ==
  /\ st \in ProjectWritable
  /\ \/ role = "project_manager" /\ ty \notin ManagerForbidden
     \/ role \in {"owner", "ceo", "cwo", "auditor", "administrator"}

TotalCount(p) ==
  Cardinality(UNION {{ty} \X DOMAIN rows[p][ty] : ty \in Types})

\* The caps as the write checks them.  A later revision is never counted
\* against the total, and only append-only types have a cap of their own.
WithinCaps(p, ty) ==
  /\ ty \in AppendOnly => Len(rows[p][ty]) < allowed_type_caps[ty]
  /\ Len(rows[p][ty]) = 0 /\ ty \notin GovernanceEvents =>
       TotalCount(p) < total_active_document_cap

\* DocumentPolicyEnforcer.check_artifact_cap, the administrator's answer.
check_artifact_cap(p, ty) ==
  /\ ty \in Types
  /\ Len(rows[p][ty]) < allowed_type_caps[ty]
  /\ ty \notin GovernanceEvents =>
       TotalCount(p) < total_active_document_cap

-----------------------------------------------------------------------------
(* Plans.  A request names what it is about; see Request.                  *)

Write(ty, who, st, topic, words) ==
  [op |-> "write", type |-> ty, role |-> who, status |-> st,
   about |-> topic, says |-> words, soft |-> FALSE]
Test(t) == [op |-> "test", test |-> t]
SkipIf(t) == [op |-> "skip", test |-> t]
Do(what) == [op |-> what]
If(cond, steps) == IF cond THEN steps ELSE <<>>

\* context.get("project_state") or "active".
OrActive(st) == IF st = "none" THEN "active" ELSE st

\* CSOAgent.handle: the review is recorded in the CEO's name, and a write
\* that fails is only logged.
CsoHandle(r) ==
  If(r.about \in Proposals /\ r.project \in Projects,
     <<[Write("cso_review", "ceo", "active", r.about, r.outcome)
          EXCEPT !.soft = TRUE]>>)

\* CeoAgent._handle_proposal_review.
CeoProposalReview(r) ==
  <<Do("GATE-005"), Do("conflicts"), Do("GATE-003"), Test("scope"),
    Write("ceo_proposal_decision", "ceo", "proposed", r.about, r.decision)>>

\* Mutated form: the CEO does not wait for the CWO.
CeoCoapprovalAlone(r) ==
  <<Test("scope"),
    Write("ceo_coapproval", "ceo", "active", r.about, "approved")>>

\* CeoAgent._handle_coapproval.
CeoCoapproval(r) ==
  <<Test("scope"), Test("cwo_coapproval"),
    Write("ceo_coapproval", "ceo", "active", r.about, "approved")>>

\* CwoAgent._handle_proposal_flow.
CwoProposalFlow(r) ==
  <<Test("scope")>> \o CsoHandle(r) \o <<Do("GATE-006")>>
    \o CeoProposalReview(r)

\* WorkforceInitializer.initialize.
Initialize(r) ==
  <<Test("cso_review"), Test("ceo_approval"),
    Write("workforce_plan", "cwo", "approved", r.about, "plan"),
    Do("bind"), SkipIf("charter"),
    Write("project_charter", "cwo", "approved", r.about, "charter")>>

\* CwoAgent._handle_initialization.
CwoInitialization(r) ==
  <<Test("scope"), Test("completion_report"), Test("package")>>
    \o Initialize(r)
    \o <<Write("cwo_coapproval", "cwo", OrActive(r.state), r.about,
              "approved")>>

\* CwoAgent._handle_coapproval.
CwoCoapproval(r) ==
  <<Test("scope"), Test("ceo_coapproval"),
    Write("cwo_coapproval", "cwo", OrActive(r.state), r.about, "approved")>>

\* PMProjectArtifactWriter.write behind both handlers of the agent.
PmWrite(r) ==
  <<Test("pm_writer"),
    Write(r.type, "project_manager", "resolved", r.about, "document")>>

\* ProjectManagerAgent._handle_task_mutation.  Handing the task to the
\* specialist is module TaskOrchestrator's.
PmTaskMutation(r) ==
  <<Test("scope"), Do("state")>>
    \o If(r.risk, <<SkipIf("inactive"),
                    Write("decision_log", "project_manager", "active",
                          r.about, "budget_risk")>>)
    \o If(r.type # "none", PmWrite(r))

\* ProjectManagerAgent._handle_document_admin.
PmDocumentAdmin(r) ==
  <<Test("scope"), Test("both_approve"), Test("controlled"), Do("state")>>
    \o PmWrite(r)

\* PMProjectArtifactWriter.write_completion_report.
PmCompletionReport(r) ==
  <<Test("running"), Write("completion_report", "project_manager", r.state,
                           r.about, "document")>>

AuditorWrite(r, ty) == Write(ty, "auditor", "active", r.about, r.kind)
Escalation(r) == AuditorWrite(r, "auditor_owner_escalation")
CeoNotice(r) == AuditorWrite(r, "auditor_ceo_notification")
Finding(r) == AuditorWrite(r, "auditor_finding")

\* AuditorAgent._handle_budget_breach, with pause_task: the task is blocked
\* before the scope of the evidence is looked at.
BudgetBreach(r) ==
  IF r.about # "none"
  THEN <<Do("block"), Test("scope"), AuditorWrite(r, "auditor_enforcement"),
         CeoNotice(r)>>
         \o If(r.severity = "critical",
               <<AuditorWrite(r, "auditor_owner_alert")>>)
         \o <<Escalation(r)>>
  ELSE <<Test("scope"), Escalation(r), Finding(r)>>

\* _handle_governance_violation.
GovernanceViolation(r) ==
  <<Test("scope"), Finding(r), Escalation(r)>>
    \o If(r.severity \in {"high", "critical"}, <<CeoNotice(r)>>)

\* _handle_behavioral_violation: a finding that exists suppresses the rest.
BehavioralViolation(r) ==
  <<Test("fresh"), Test("scope"), Finding(r), Escalation(r), CeoNotice(r)>>

\* _handle_document_violation.
DocumentViolation(r) == <<Test("scope"), Finding(r), Escalation(r)>>

\* An event type that AuditorAgent.handle does not know; a query is empty.
UnknownEvent(r) == <<Test("scope"), Finding(r)>>

AdminWrite(r, ty, words) ==
  Write(ty, "administrator", "active", r.about, words)

\* AdministratorAgent._handle_enforce_retention and RetentionEnforcer.
EnforceRetention(r) ==
  <<Test("scope"), AdminWrite(r, "administrator_retention", "completed")>>
    \o If(r.terminated,
          <<AdminWrite(r, "administrator_retention", "terminated")>>)

\* AdministratorAgent._handle_quarantine_agent.
QuarantineAgent(r) ==
  <<Do("quarantine"),
    AdminWrite(r, "administrator_containment", "quarantined"),
    AdminWrite(r, "administrator_owner_notification", "quarantined"),
    AdminWrite(r, "administrator_ceo_notification", "quarantined")>>
    \o If(r.severity = "critical",
          <<AdminWrite(r, "administrator_owner_alert", "quarantined")>>)

\* GovernedWriteToolService.call_tool for the three writing tools: the role
\* of the caller is checked, the role of the recipient writes.
CallTool(r) ==
  <<Test("allowed"), Do("replay"), Do("reserve"), Do("project"),
    Write(r.type, r.recipient, "resolved", r.about, r.decision)>>

PlanOf(r) ==
  CASE r.kind = "cso" -> CsoHandle(r)
    [] r.kind = "ceo" -> CeoProposalReview(r)
    [] r.kind = "ceo_coapproval" -> CeoCoapproval(r)
    [] r.kind = "cwo" -> CwoProposalFlow(r)
    [] r.kind = "cwo_initialization" -> CwoInitialization(r)
    [] r.kind = "cwo_coapproval" -> CwoCoapproval(r)
    [] r.kind = "pm_mutation" -> PmTaskMutation(r)
    [] r.kind = "pm_document" -> PmDocumentAdmin(r)
    [] r.kind = "pm_completion" -> PmCompletionReport(r)
    [] r.kind = "budget_breach" -> BudgetBreach(r)
    [] r.kind = "governance_violation" -> GovernanceViolation(r)
    [] r.kind = "behavioral_violation" -> BehavioralViolation(r)
    [] r.kind = "document_violation" -> DocumentViolation(r)
    [] r.kind = "unknown_event" -> UnknownEvent(r)
    [] r.kind = "retention" -> EnforceRetention(r)
    [] r.kind = "quarantine" -> QuarantineAgent(r)
    [] r.kind = "tool" -> CallTool(r)

-----------------------------------------------------------------------------
(* Requests.  about: the proposal, approval type, or task with the accused *)
(* role.  outcome, decision: what the language model will answer the CSO   *)
(* and the CEO, or what a tool writes.  told: the review outcome a caller  *)
(* of the CEO states.  state: the project state a caller states.  risk:    *)
(* the budget is at risk.  package: template, profile and prompts are      *)
(* there.  evidence: the roles the stated approval evidence names.         *)

Roles == {"owner", "ceo", "cwo", "auditor", "administrator",
          "project_manager", "specialist"}
OptionalState == ProjectStatuses \union {"none"}

Kinds ==
  {"cso", "ceo", "ceo_coapproval", "cwo", "cwo_initialization",
   "cwo_coapproval", "pm_mutation", "pm_document", "pm_completion",
   "budget_breach", "governance_violation", "behavioral_violation",
   "document_violation", "unknown_event", "retention", "quarantine", "tool"}
Topics == Proposals \union ApprovalTypes \union Tasks \union {"none"}

\* A completion report and a quarantine name their project, a tool call its
\* key: the methods have no default for them.
RequestFields ==
  [kind : Kinds, project : Projects \union {"none"}, about : Topics,
   outcome : Outcomes, decision : Decisions, told : Outcomes \union {"none"},
   override : BOOLEAN, state : OptionalState, risk : BOOLEAN,
   package : BOOLEAN, evidence : SUBSET Roles, type : Types \union {"none"},
   severity : {"low", "medium", "high", "critical"}, terminated : BOOLEAN,
   key : Keys \union {"none"}, principal : Roles, recipient : Roles]
Request ==
  {r \in RequestFields :
     /\ r.kind \in {"pm_completion", "quarantine"} => r.project \in Projects
     /\ r.kind = "tool" => r.key \in Keys}

\* What a document may say: see the plans.
Words ==
  Outcomes \union Decisions \union Kinds \union
    {"none", "plan", "charter", "document", "budget_risk", "completed",
     "terminated", "quarantined", "bound"}

\* The documents written before are numbered by something else than requests.
Numbers ==
  (Threads \X Nat)
    \union UNION {{c.stage[i].n : i \in DOMAIN c.stage} : c \in Cases}
Document == [about : Topics, says : Words, by : Kinds \union {"before"},
             n : Numbers]
LogEntry ==
  [project : Projects, type : Types \union {"bind"}, about : Topics,
   says : Words, by : Kinds \union {"before"}, n : Numbers, from : Nat,
   outcome : Words, override : BOOLEAN, open : BOOLEAN]
DocOf(e) == Doc(e.about, e.says, e.by, e.n)
Places(s, p, ty) == {j \in DOMAIN s : s[j].project = p /\ s[j].type = ty}
Coapprovals == {"ceo_coapproval", "cwo_coapproval"}

\* Table tab holds what s says was written before, all of it and no more.
Holds(tab, s) ==
  \A p \in Projects, ty \in Types :
    /\ ToSet(tab[p][ty]) = {DocOf(s[j]) : j \in Places(s, p, ty)}
    /\ Len(tab[p][ty]) = Cardinality(Places(s, p, ty))
    /\ ty \in AppendOnly => Len(tab[p][ty]) <= allowed_type_caps[ty]

\* A case: the requests of each thread, the documents written before (stage
\* lists them, rows is the table), the status of the projects, and how many
\* status changes and faults may happen.  No co-approval was written before.
CaseOK(c) ==
  /\ c.requests \in [Threads -> Seq(Request)]
  /\ c.status \in ProjectStatuses
  /\ c.changes \in Nat /\ c.faults \in Nat
  /\ c.rows \in [Projects -> [Types -> Seq(Document)]]
  /\ c.stage \in Seq(LogEntry)
  /\ \A i \in DOMAIN c.stage :
       /\ c.stage[i].by = "before" /\ c.stage[i].type # "bind"
       /\ c.stage[i].type \notin Coapprovals
       /\ c.stage[i].n \notin Threads \X Nat
       /\ \A j \in DOMAIN c.stage : c.stage[i].n = c.stage[j].n => i = j
  /\ Holds(c.rows, c.stage)

ASSUME RecordConstants ==
  /\ "bind" \notin Types
  /\ IsFiniteSet(Projects) /\ IsFiniteSet(Types)
  /\ AppendOnly \union GovernanceEvents \union ManagerForbidden \subseteq Types
  /\ \A ty \in Types : allowed_type_caps[ty] \in Nat
  /\ total_active_document_cap \in Nat
  /\ \A c \in Cases : CaseOK(c)

Idle == [on |-> FALSE, outcome |-> "none", cycles |-> 0, state |-> "none",
         keyed |-> FALSE, ok |-> TRUE, rev |-> 0, seen |-> {}, from |-> 0]

\* rows: inserted for the key; upset: two calls with it overlapped, or one
\* raised after its row was there.
NoEffect == [rows |-> 0, upset |-> FALSE]

Init ==
  /\ \E c \in Cases : /\ inbox = c.requests
                      /\ log = c.stage /\ rows = c.rows
                      /\ status = [p \in Projects |-> c.status]
                      /\ bound = [changes |-> c.changes, faults |-> c.faults]
  /\ plan = [t \in Threads |-> <<>>]
  /\ mind = [t \in Threads |-> Idle]
  /\ files = rows
  /\ workforce = [p \in Projects |-> "absent"]
  /\ blocked = {}
  /\ memo = [k \in Keys |-> "none"]
  /\ effects = [k \in Keys |-> NoEffect]

-----------------------------------------------------------------------------
(* The steps of a request.                                                 *)

Req(t) == Head(inbox[t])
Step(t) == Head(plan[t])
Runs(t, what) == mind[t].on /\ plan[t] # <<>> /\ Step(t).op = what
Continue(t) == plan' = [plan EXCEPT ![t] = Tail(@)]
Goto(t, what) == plan' = [plan EXCEPT ![t][1].op = what]

\* The handler raises or returns a denial: the rest is dropped.
Refuse(t) ==
  /\ plan' = [plan EXCEPT ![t] = <<>>]
  /\ mind' = [mind EXCEPT ![t].ok = FALSE]

\* What the CSO's failing write does instead.
Raise(t) ==
  IF Step(t).soft THEN Continue(t) /\ UNCHANGED mind ELSE Refuse(t)

Begin(t) ==
  /\ ~mind[t].on /\ inbox[t] # <<>>
  /\ LET r == Req(t)
     IN  /\ plan' = [plan EXCEPT ![t] = PlanOf(r)]
         /\ mind' = [mind EXCEPT ![t] =
              [Idle EXCEPT !.on = TRUE, !.outcome = r.told, !.from = Len(log),
                 !.seen = IF r.project \in Projects THEN {status[r.project]}
                          ELSE {}]]
  /\ UNCHANGED <<inbox, stores, others, workforce, blocked, memo, effects,
                 log>>

\* The request ends; a tool call that got as far as its last line remembers
\* its result, denied or not.  The audit write before that line may raise
\* instead, see AuditRaises.
Finish(t) ==
  /\ mind[t].on /\ plan[t] = <<>>
  /\ memo' = IF mind[t].keyed
             THEN [memo EXCEPT ![Req(t).key] = IF mind[t].ok THEN "ok"
                                               ELSE "denied"]
             ELSE memo
  /\ inbox' = [inbox EXCEPT ![t] = Tail(@)]
  /\ mind' = [mind EXCEPT ![t] = Idle]
  /\ UNCHANGED <<plan, stores, others, workforce, blocked, effects, log>>

\* A read that lets the request pass or not.
Passes(t, test) ==
  LET r == Req(t)
      p == r.project
  IN  CASE test = "scope" -> p \in Projects
        [] test = "cwo_coapproval" ->
             \E d \in ToSet(rows[p]["cwo_coapproval"]) : d.about = r.about
        [] test = "ceo_coapproval" ->
             \E d \in ToSet(rows[p]["ceo_coapproval"]) : d.about = r.about
        [] test = "completion_report" -> Present(p, "completion_report")
        [] test = "package" -> r.package
        [] test = "cso_review" -> Present(p, "cso_review")
        [] test = "ceo_approval" ->
             \E d \in ToSet(rows[p]["ceo_proposal_decision"]) :
                d.says = "approved"
        [] test = "charter" -> Present(p, "project_charter")
        [] test = "inactive" -> status[p] # "active"
        [] test = "pm_writer" ->
             /\ r.type \notin ManagerForbidden
             /\ mind[t].state = "active"
             /\ r.type \in Conditional => r.evidence # {}
        [] test = "both_approve" -> {"ceo", "cwo"} \subseteq r.evidence
        [] test = "controlled" -> r.type \in Conditional
        [] test = "running" -> r.state \in {"active", "paused"}
        [] test = "fresh" ->
             ~\E d \in IF p \in Projects THEN ToSet(rows[p]["auditor_finding"])
                       ELSE OfType("auditor_finding") :
                /\ d.about = r.about /\ d.about # "none"
                /\ d.says = "behavioral_violation"
        [] test = "allowed" ->
             r.principal \in {"ceo", "cwo", "project_manager"}

Gate(t) ==
  /\ Runs(t, "test")
  /\ IF Passes(t, Step(t).test) THEN Continue(t) /\ UNCHANGED mind
     ELSE Refuse(t)
  /\ UNCHANGED <<inbox, stores, others, workforce, blocked, memo, effects,
                 log>>

Skip(t) ==
  /\ Runs(t, "skip")
  /\ plan' = [plan EXCEPT ![t] = IF Passes(t, Step(t).test) THEN Tail(Tail(@))
                                 ELSE Tail(@)]
  /\ UNCHANGED <<inbox, mind, stores, others, workforce, blocked, memo,
                 effects, log>>

\* What the newest review of the proposal says, if there is one.
NewestReview(ds, topic) ==
  {ds[i].says : i \in {j \in DOMAIN ds :
     /\ ds[j].about = topic
     /\ \A k \in DOMAIN ds : k > j => ds[k].about # topic}}

\* Mutated form: GATE-005 is not enforced.
ReviewGateOpen(t, gate, found) ==
  /\ Runs(t, gate)
  /\ \/ found = {} /\ UNCHANGED mind
     \/ \E outcome \in found : mind' = [mind EXCEPT ![t].outcome =
          IF @ = "none" \/ gate = "GATE-006" THEN outcome ELSE @]
  /\ Continue(t)
  /\ UNCHANGED <<inbox, stores, others, workforce, blocked, memo, effects,
                 log>>

\* The request passes if a review was found; CEO and CWO keep its outcome,
\* the CEO only when the caller did not state one.
ReviewGate(t, gate, found) ==
  /\ Runs(t, gate)
  /\ \/ found = {} /\ Refuse(t)
     \/ /\ \E outcome \in found : mind' = [mind EXCEPT ![t].outcome =
             IF @ = "none" \/ gate = "GATE-006" THEN outcome ELSE @]
        /\ Continue(t)
  /\ UNCHANGED <<inbox, stores, others, workforce, blocked, memo, effects,
                 log>>

\* CeoAgent._verify_cso_review_record looks in every project and takes the
\* newest; which project that is, the model leaves open.
VerifyCsoReviewRecord(t) ==
  ReviewGate(t, "GATE-005",
    UNION {NewestReview(rows[p]["cso_review"], Req(t).about) : p \in Projects})

\* CwoAgent._read_cso_review_outcome.
ReadCsoReviewOutcome(t) ==
  ReviewGate(t, "GATE-006",
    NewestReview(rows[Req(t).project]["cso_review"], Req(t).about))

CountOf(ty, topic, words) ==
  Cardinality({d \in OfType(ty) : d.about = topic /\ d.says = words})

\* CeoAgent._read_revision_cycle_count, its first list...
CountConflicts(t) ==
  /\ Runs(t, "conflicts")
  /\ mind' = [mind EXCEPT ![t].cycles =
                CountOf("cso_review", Req(t).about, Conflict)]
  /\ Continue(t)
  /\ UNCHANGED <<inbox, stores, others, workforce, blocked, memo, effects,
                 log>>

\* Mutated form: decisions that asked for a revision are not counted.
CycleGateConflictsOnly(t) ==
  /\ Runs(t, "GATE-003")
  /\ IF mind[t].outcome = Conflict /\ mind[t].cycles >= 3 /\ ~Req(t).override
     THEN Refuse(t)
     ELSE Continue(t) /\ UNCHANGED mind
  /\ UNCHANGED <<inbox, stores, others, workforce, blocked, memo, effects,
                 log>>

\* ... and its second, with GATE-003.
CycleGate(t) ==
  LET cycles == mind[t].cycles
        + CountOf("ceo_proposal_decision", Req(t).about, "needs_revision")
  IN  /\ Runs(t, "GATE-003")
      /\ IF mind[t].outcome = Conflict /\ cycles >= 3 /\ ~Req(t).override
         THEN Refuse(t)
         ELSE Continue(t) /\ UNCHANGED mind
      /\ UNCHANGED <<inbox, stores, others, workforce, blocked, memo,
                     effects, log>>

\* ProjectManagerAgent._resolve_project_state: a stated state wins.
ResolveState(t) ==
  /\ Runs(t, "state")
  /\ mind' = [mind EXCEPT ![t].state =
                IF Req(t).state # "none" THEN Req(t).state
                ELSE status[Req(t).project]]
  /\ Continue(t)
  /\ UNCHANGED <<inbox, stores, others, workforce, blocked, memo, effects,
                 log>>

\* GovernedWriteToolService._resolve_project.
ResolveProject(t) ==
  /\ Runs(t, "project")
  /\ IF Req(t).project \in Projects
     THEN /\ mind' = [mind EXCEPT ![t].state = status[Req(t).project]]
          /\ Continue(t)
     ELSE Refuse(t)
  /\ UNCHANGED <<inbox, stores, others, workforce, blocked, memo, effects,
                 log>>

\* A call of another thread has passed its lookup of key k and is not over.
Overlaps(t, k) ==
  \E u \in Threads \ {t} : mind[u].on /\ mind[u].keyed /\ Req(u).key = k

\* Mutated form: the result is kept but never looked up.
ReplayNever(t) ==
  /\ Runs(t, "replay")
  /\ mind' = [mind EXCEPT ![t].keyed = TRUE]
  /\ Continue(t)
  /\ UNCHANGED <<inbox, stores, others, workforce, blocked, memo, effects,
                 log>>

\* The lookup in _idempotent_results: a known call ends with its old result.
Replay(t) ==
  /\ Runs(t, "replay")
  /\ \/ /\ memo[Req(t).key] # "none"
        /\ plan' = [plan EXCEPT ![t] = <<>>]
        /\ mind' = [mind EXCEPT ![t].ok = memo[Req(t).key] = "ok"]
        /\ UNCHANGED effects
     \/ /\ memo[Req(t).key] = "none"
        /\ mind' = [mind EXCEPT ![t].keyed = TRUE]
        /\ effects' = [effects EXCEPT ![Req(t).key].upset =
                         @ \/ Overlaps(t, Req(t).key)]
        /\ Continue(t)
  /\ UNCHANGED <<inbox, stores, others, workforce, blocked, memo, log>>

\* _reserve_budget_if_configured: the budget runtime says yes or no; that it
\* raises is BudgetRaises.
ReserveBudget(t) ==
  /\ Runs(t, "reserve")
  /\ (Continue(t) /\ UNCHANGED mind) \/ Refuse(t)
  /\ UNCHANGED <<inbox, stores, others, workforce, blocked, memo, effects,
                 log>>

\* write_project_artifact up to its first transaction.
CountRevisions(t) ==
  LET p == Req(t).project
      w == Step(t)
      st == IF w.status = "resolved" THEN mind[t].state ELSE w.status
  IN  /\ Runs(t, "write")
      /\ IF Authorized(w.type, w.role, st) /\ w.type \in Types
              /\ WithinCaps(p, w.type)
         THEN /\ mind' = [mind EXCEPT ![t].rev = Len(rows[p][w.type]) + 1]
              /\ Goto(t, "file")
         ELSE Raise(t)
      /\ UNCHANGED <<inbox, stores, others, workforce, blocked, memo,
                     effects, log>>

DocBy(t) == Doc(Step(t).about, Step(t).says, Req(t).kind,
                <<t, Len(inbox[t])>>)

\* Mutated form: the row gets the next free revision number.
PutNext(docs, rev, d) == Append(docs, d)

\* Revision rev of the documents is d from now on: the path of a file
\* depends on the revision alone, and the row is inserted with
\* ON CONFLICT (project_id, artifact_type, revision_no) DO UPDATE.  Nothing
\* is deleted, so a counted revision is at most one past the last row.
Upsert(docs, rev, d) ==
  IF rev \in DOMAIN docs THEN [docs EXCEPT ![rev] = d] ELSE Append(docs, d)

\* ArtifactFileStore.write.
WriteFile(t) ==
  /\ Runs(t, "file")
  /\ files' = [files EXCEPT ![Req(t).project][Step(t).type] =
                 Upsert(@, mind[t].rev, DocBy(t))]
  /\ Goto(t, "row")
  /\ UNCHANGED <<inbox, mind, rows, others, workforce, blocked, memo,
                 effects, log>>

Entry(t, ty, d) ==
  [project |-> Req(t).project, type |-> ty, about |-> d.about,
   says |-> d.says, by |-> d.by, n |-> d.n, from |-> mind[t].from,
   outcome |-> mind[t].outcome, override |-> Req(t).override,
   open |-> mind[t].seen \intersect ProjectWritable # {}]

\* The second transaction of write_project_artifact.
InsertRow(t) ==
  LET r == Req(t)
      w == Step(t)
  IN  /\ Runs(t, "row")
      /\ rows' = [rows EXCEPT ![r.project][w.type] =
                    Upsert(@, mind[t].rev, DocBy(t))]
      /\ effects' = IF r.kind = "tool"
                    THEN [effects EXCEPT ![r.key].rows = @ + 1] ELSE effects
      /\ log' = Append(log, Entry(t, w.type, DocBy(t)))
      /\ Continue(t)
      /\ UNCHANGED <<inbox, mind, files, others, workforce, blocked, memo>>

\* PostgresAgentRegistryRepository.bind_project_workforce: an upsert that
\* also sets the status.
BindWorkforce(t) ==
  /\ Runs(t, "bind")
  /\ workforce' = [workforce EXCEPT ![Req(t).project] = "active"]
  /\ log' = Append(log, Entry(t, "bind", Doc(Req(t).about, "bound",
                                             Req(t).kind,
                                             <<t, Len(inbox[t])>>)))
  /\ Continue(t)
  /\ UNCHANGED <<inbox, mind, stores, others, blocked, memo, effects>>

\* PostgresAgentRegistryRepository.quarantine_agent, of the project's agent.
Quarantine(t) ==
  /\ Runs(t, "quarantine")
  /\ IF workforce[Req(t).project] = "absent"
     THEN Refuse(t) /\ UNCHANGED workforce
     ELSE /\ workforce' = [workforce EXCEPT ![Req(t).project] = "inactive"]
          /\ Continue(t) /\ UNCHANGED mind
  /\ UNCHANGED <<inbox, stores, others, blocked, memo, effects, log>>

\* TaskLifecycleService.mark_blocked_dispatch.  An unknown task raises, and a
\* known one when its status admits no block, which is TaskOrchestrator's.
BlockTask(t) ==
  /\ Runs(t, "block")
  /\ \/ /\ Req(t).about \in Tasks
        /\ blocked' = blocked \union {Req(t).about}
        /\ Continue(t) /\ UNCHANGED mind
     \/ Refuse(t) /\ UNCHANGED blocked
  /\ UNCHANGED <<inbox, stores, others, workforce, memo, effects, log>>

-----------------------------------------------------------------------------
(* What happens around the requests.                                       *)

Fault ==
  /\ bound.faults > 0
  /\ bound' = [bound EXCEPT !.faults = @ - 1]

\* The database or the file system fails under a write.  An audit row that
\* cannot be written between two writes of a request (record_finding,
\* escalate_to_owner, enforce_completed_project) drops the rest like this, and
\* after the last write it changes nothing; in call_tool it is AuditRaises.
StoreFails(t) ==
  /\ mind[t].on /\ plan[t] # <<>> /\ Step(t).op \in {"write", "file", "row"}
  /\ Fault
  /\ Raise(t)
  /\ UNCHANGED <<inbox, stores, status, workforce, blocked, memo,
                 effects, log>>

\* call_tool raises outside of its try: nothing is remembered.
Forget(t) ==
  /\ Fault
  /\ plan' = [plan EXCEPT ![t] = <<>>]
  /\ mind' = [mind EXCEPT ![t].keyed = FALSE, ![t].ok = FALSE]

\* The budget runtime raises.
BudgetRaises(t) ==
  /\ Runs(t, "reserve")
  /\ Forget(t)
  /\ UNCHANGED <<inbox, stores, status, workforce, blocked, memo, effects,
                 log>>

\* _audit_write_attempt raises, after the row of the tool was inserted and
\* before the result is remembered.
AuditRaises(t) ==
  /\ mind[t].on /\ mind[t].keyed /\ plan[t] = <<>>
  /\ effects' = [effects EXCEPT ![Req(t).key].upset = @ \/ mind[t].ok]
  /\ Forget(t)
  /\ UNCHANGED <<inbox, stores, status, workforce, blocked, memo, log>>

\* The process ends: running requests and the memory of the tools are gone.
Restart ==
  /\ Fault
  /\ \E t \in Threads : mind[t].on
  /\ inbox' = [t \in Threads |-> IF mind[t].on THEN Tail(inbox[t])
                                 ELSE inbox[t]]
  /\ plan' = [t \in Threads |-> <<>>]
  /\ mind' = [t \in Threads |-> Idle]
  /\ memo' = [k \in Keys |-> "none"]
  /\ effects' = [k \in Keys |-> NoEffect]
  /\ UNCHANGED <<stores, status, workforce, blocked, log>>

\* A project changes status, see module ProjectGovernance.
Transition(p) ==
  \E st \in ALLOWED_TRANSITIONS[status[p]] \ {status[p]} :
    /\ bound.changes > 0
    /\ bound' = [bound EXCEPT !.changes = @ - 1]
    /\ status' = [status EXCEPT ![p] = st]
    /\ mind' = [t \in Threads |->
         IF mind[t].on /\ Req(t).project = p
         THEN [mind[t] EXCEPT !.seen = @ \union {st}] ELSE mind[t]]
    /\ UNCHANGED <<inbox, plan, stores, workforce, blocked, memo, effects,
                   log>>

Next ==
  \/ \E t \in Threads :
       \/ Begin(t) \/ Finish(t) \/ Gate(t) \/ Skip(t)
       \/ VerifyCsoReviewRecord(t) \/ ReadCsoReviewOutcome(t)
       \/ CountConflicts(t) \/ CycleGate(t)
       \/ ResolveState(t) \/ ResolveProject(t) \/ Replay(t)
       \/ ReserveBudget(t) \/ CountRevisions(t) \/ WriteFile(t)
       \/ InsertRow(t) \/ BindWorkforce(t) \/ Quarantine(t) \/ BlockTask(t)
       \/ StoreFails(t) \/ BudgetRaises(t) \/ AuditRaises(t)
  \/ Restart
  \/ \E p \in Projects : Transition(p)

Spec == Init /\ [][Next]_vars

-----------------------------------------------------------------------------
(* Properties.                                                             *)

Steps ==
  [op : {"write", "file", "row"}, type : Types \union {"none"}, role : Roles,
   status : OptionalState \union {"resolved"}, about : Topics, says : Words,
   soft : BOOLEAN]
  \union
  [op : {"test", "skip"},
   test : {"scope", "cwo_coapproval", "ceo_coapproval", "completion_report",
           "package", "cso_review", "ceo_approval", "charter", "inactive",
           "pm_writer", "both_approve", "controlled", "running", "fresh",
           "allowed"}]
  \union
  [op : {"GATE-005", "GATE-006", "GATE-003", "conflicts", "bind", "state",
         "block", "quarantine", "replay", "reserve", "project"}]

Mind ==
  [on : BOOLEAN, outcome : Words, cycles : Nat, state : OptionalState,
   keyed : BOOLEAN, ok : BOOLEAN, rev : Nat, seen : SUBSET ProjectStatuses,
   from : Nat]

\* The type of the state: the tables hold documents, a thread is idle with
\* nothing planned or runs the first request of its inbox.
TypeOK ==
  /\ inbox \in [Threads -> Seq(Request)]
  /\ plan \in [Threads -> Seq(Steps)]
  /\ mind \in [Threads -> Mind]
  /\ \A t \in Threads : /\ ~mind[t].on => plan[t] = <<>>
                        /\ mind[t].on => inbox[t] # <<>>
  /\ rows \in [Projects -> [Types -> Seq(Document)]]
  /\ files \in [Projects -> [Types -> Seq(Document)]]
  /\ status \in [Projects -> ProjectStatuses]
  /\ workforce \in [Projects -> {"absent", "active", "inactive"}]
  /\ blocked \subseteq Tasks
  /\ memo \in [Keys -> {"none", "ok", "denied"}]
  /\ bound \in [changes : Nat, faults : Nat]
  /\ effects \in [Keys -> [rows : Nat, upset : BOOLEAN]]
  /\ log \in Seq(LogEntry)

\* The cap of an append-only type holds even when writers that counted the
\* same revisions insert one after the other; and what the administrator's
\* check allows, the repository accepts, although the two count differently.
CapsHold ==
  \A p \in Projects :
    /\ \A ty \in AppendOnly : Len(rows[p][ty]) <= allowed_type_caps[ty]
    /\ \A ty \in Types : check_artifact_cap(p, ty) => WithinCaps(p, ty)

Before(i, p, ty) == {j \in 1..(i - 1) : log[j].project = p /\ log[j].type = ty}

DecisionAfterReview(i) ==
  log[i].type = "ceo_proposal_decision" /\ log[i].by \in {"ceo", "cwo"} =>
    \E p \in Projects : \E j \in Before(i, p, "cso_review") :
      log[j].about = log[i].about

BindAfterApproval(i) ==
  log[i].type = "bind" =>
    LET p == log[i].project
    IN  /\ Before(i, p, "cso_review") # {}
        /\ Before(i, p, "completion_report") # {}
        /\ \E j \in Before(i, p, "ceo_proposal_decision") :
             log[j].says = "approved"

\* GATE-005 and GATE-006: whoever asks, and whatever other requests do
\* meanwhile, a CEO decision on a proposal is recorded only after a CSO review
\* of that proposal was, and a workforce is bound only to a project with a CSO
\* review, an approval and a completion report on record.
GatesKeepOrder ==
  \A i \in DOMAIN log : DecisionAfterReview(i) /\ BindAfterApproval(i)

\* Some row was replaced by a writer that had counted too early.
Overwritten ==
  \E p \in Projects, ty \in Types :
    Len(rows[p][ty]) < Cardinality(Places(log, p, ty))

Cycles(i) ==
  Cardinality({j \in 1..log[i].from :
     /\ log[j].about = log[i].about
     /\ \/ log[j].type = "cso_review" /\ log[j].says = Conflict
        \/ /\ log[j].type = "ceo_proposal_decision"
           /\ log[j].says = "needs_revision"})

\* GATE-003: once three unresolved cycles of a proposal in conflict are on
\* record, the CEO records no further decision on it without an override.  The
\* cycles counted are those recorded before the deciding request began: a
\* conflict that another request records while this one is past its gate does
\* not stop it.  And the gate counts rows, so nothing is claimed after a writer
\* that counted too early has replaced one (AppendOnlyEntriesStay below).
ConflictEndsAfterThree ==
  \A i \in DOMAIN log :
    /\ log[i].type = "ceo_proposal_decision" /\ log[i].by \in {"ceo", "cwo"}
    /\ log[i].outcome = Conflict /\ ~log[i].override
    => Cycles(i) < 3 \/ Overwritten

\* CEO and CWO each wait for the other's co-approval, so a chain of them
\* starts with a workforce initialization, or with a document that a tool or
\* the project manager's writer accepted under the type of a co-approval.
CoapprovalHasAnOrigin ==
  \A i \in DOMAIN log : log[i].by \in Coapprovals =>
    \E j \in Before(i, log[i].project, "cwo_coapproval")
              \union Before(i, log[i].project, "ceo_coapproval") :
      /\ log[j].about = log[i].about
      /\ log[j].by \in {"cwo_initialization", "tool", "pm_mutation"}

\* What GovernedWriteToolService remembers of a call is what it did.  Ok means
\* that a row was written.  And unless two calls with the key overlapped, or
\* one raised at its audit row with the row of the tool in place, ok means that
\* one row was written, however often the call was repeated and whatever else
\* failed in between; and denied, that none was.  It wrote only if the project
\* was open to writes at some moment of the call, though it may have been
\* closed since.
ToolResultIsTheEffect ==
  /\ \A k \in Keys :
       /\ memo[k] = "ok" => effects[k].rows >= 1
       /\ ~effects[k].upset =>
            /\ memo[k] = "ok" => effects[k].rows = 1
            /\ memo[k] = "denied" => effects[k].rows = 0
  /\ \A i \in DOMAIN log : log[i].by = "tool" => log[i].open

-----------------------------------------------------------------------------
(* What the documentation says and the code does not do.                   *)

\* spec/orchestration/memory/ProjectArtifactModel.md:33, "append-only
\* entries": two writers that counted together share a revision, and the
\* second replaces what the first one appended.
AppendOnlyEntriesStay == ~Overwritten

\* The file of a row holds what the row holds, which verify_storage_uri_hash
\* takes for granted when no one tampers.
FilesMatchRows ==
  (\A t \in Threads : ~mind[t].on) =>
    \A p \in Projects, ty \in Types : \A i \in DOMAIN rows[p][ty] :
      files[p][ty][i] = rows[p][ty][i]

\* agents/administrator/retention.py:63: the repository "rejects writes when
\* project_status is completed or terminated".  The agents pass a constant.
ClosedProjectsAreReadOnly == \A i \in DOMAIN log : log[i].open

\* spec/governance/architecture/EscalationModel.md:55, "Behavioral violations
\* [...] MUST escalate directly": when all requests are over, a project with a
\* behavioral finding has an escalation to the owner.  If the escalation fails
\* after the finding was recorded, the repeated request takes the finding for
\* a duplicate and escalates nothing.
ViolationsReachTheOwner ==
  (\A t \in Threads : inbox[t] = <<>>) =>
    \A i \in DOMAIN log :
      /\ log[i].type = "auditor_finding"
      /\ log[i].says = "behavioral_violation"
      => \E j \in DOMAIN log : /\ log[j].type = "auditor_owner_escalation"
                               /\ log[j].project = log[i].project

\* spec/cross-cutting/contracts/ProjectTaskQueryContracts.md:59, "Repeated
\* idempotent write call does not duplicate side effects": the calls with one
\* key write one row in the life of the process.  A call that raises at its
\* audit row is not remembered and writes again.
ToolWritesOnce == \A k \in Keys : effects[k].rows <= 1

=============================================================================
