-------------------------- MODULE TaskOrchestrator --------------------------
(***************************************************************************)
(* The governed task path of OpenQilin: the orchestrator worker            *)
(* (apps/orchestrator_worker.py) polls the tasks table and drives every    *)
(* queued row through the three-node graph policy evaluation -> obligation *)
(* check -> dispatch (task_orchestrator/workflow), while threads of the    *)
(* API process write the same rows: the Project Manager's specialist       *)
(* sub-tasks and the Auditor's pauses.                                     *)
(*                                                                         *)
(* One action is one stretch of code between two points where another      *)
(* process can be observed: a database transaction, a call to the policy   *)
(* runtime, a call to an adapter.  In particular update_task_status is two *)
(* steps, the SELECT with its legality check and the UPDATE, because the   *)
(* repository runs them in two transactions and the UPDATE has no          *)
(* condition on the status it replaces.                                    *)
(***************************************************************************)
EXTENDS Integers, FiniteSets, TaskStatus

CONSTANTS
  Tasks,          \* task ids of owner commands
  PmTasks,        \* task ids create_specialist_task will draw
  ApiThreads,     \* request threads of the API process
  DispatchTargets,\* targets an owner command may carry
  Decisions,      \* what one policy evaluation may come back with
  ObligationSets, \* obligations of an allow_with_obligations decision
  BudgetLimit,    \* allocation, in units of the fixed estimate per task
  HopLimit,       \* limit of check_and_increment_hop
  PairLimit,      \* limit of check_and_increment_pair
  MaxCrashes      \* bound: ends of the worker process

AllTasks == Tasks \union PmTasks

Targets == {"sandbox", "llm", "communication", "specialist"}

AllDecisions == {"allow", "allow_with_obligations", "deny", "uncertain",
                 "error"}

Obligations == {"emit_audit_event", "require_owner_approval",
                "reserve_budget", "enforce_sandbox_profile", "unrecognised"}

ASSUME TasksAssumption == /\ IsFiniteSet(Tasks)
                          /\ IsFiniteSet(PmTasks)
                          /\ Tasks \intersect PmTasks = {}
ASSUME InputsAssumption == /\ DispatchTargets \subseteq Targets
                           /\ Decisions \subseteq AllDecisions
                           /\ ObligationSets \subseteq SUBSET Obligations
ASSUME LimitsAssumption == /\ BudgetLimit \in Nat
                           /\ HopLimit \in Nat
                           /\ PairLimit \in Nat
                           /\ MaxCrashes \in Nat

\* No task: the value of a worker or thread variable that holds none.
NoTask == "no_task"

\* A task id without a row.
Absent == "absent"

ASSUME NoTaskAssumption == NoTask \notin AllTasks

VARIABLES
  \* PostgreSQL, shared by both processes
  status,         \* tasks.status, or Absent
  target,         \* tasks.target / command prefix: the dispatch target
  reservation,    \* budget_reservations.status of the task's reservation
  \* the worker process
  pc,             \* where the worker is
  batch,          \* rest of the snapshot of queued rows of this poll
  cur,            \* the task whose graph is running
  policyDecision, \* TaskState.policy_decision
  todo,           \* obligations still to apply in this graph run
  hopCount,       \* LoopState.hop_count
  to,             \* status argument of the update_task_status in progress
  cont,           \* where the worker continues after that update
  taskOutcomes,   \* TaskDispatchService._task_outcomes of the worker
  budgetOutcomes, \* BudgetReservationService._task_outcomes of the worker
  crashes,        \* ends of the worker process so far
  \* the API process
  apc,            \* where each request thread is
  acur,           \* its task
  ato,            \* status argument of its update_task_status
  \* observations; the callbacks need to know what was handed over, and no
  \* other action reads them
  executions,     \* hand-overs of a task to an adapter by the worker
  apiExecutions,  \* hand-overs of a task to the specialist by the API
  gateDecision,   \* decision of the policy node in the latest graph run
  lastDecision,   \* decision of its latest policy evaluation
  applied         \* obligations the obligation node was told to apply

rowVars    == <<status, target, reservation>>
graphVars  == <<cur, policyDecision, todo, hopCount>>
memoVars   == <<taskOutcomes, budgetOutcomes>>
apiVars    == <<apc, acur, ato>>
obsVars    == <<executions, apiExecutions, gateDecision, lastDecision,
                applied>>
vars == <<rowVars, pc, batch, graphVars, to, cont, memoVars, crashes,
          apiVars, obsVars>>

\* Places in the graph: an exception raised there reaches the worker's
\* "except Exception".
GraphPcs == {"policy", "obligation", "apply", "oblBlock", "dispatch", "mark",
             "update", "marked", "ended"}

\* Places where no graph runs.
RestPcs == {"idle", "down", "dead"}

WorkerPcs == GraphPcs \union RestPcs \union
             {"breach", "fail", "breachUpdate", "failUpdate"}

ApiPcs == {"idle", "execute", "read", "write"}

-----------------------------------------------------------------------------
Init ==
  /\ status = [t \in AllTasks |-> Absent]
  /\ target = [t \in AllTasks |-> Absent]
  /\ reservation = [t \in AllTasks |-> "none"]
  /\ pc = "idle"
  /\ batch = {}
  /\ cur = NoTask
  /\ policyDecision = "none"
  /\ todo = {}
  /\ hopCount = 0
  /\ to = "queued"
  /\ cont = "idle"
  /\ taskOutcomes = {}
  /\ budgetOutcomes = [t \in AllTasks |-> "none"]
  /\ crashes = 0
  /\ apc = [a \in ApiThreads |-> "idle"]
  /\ acur = [a \in ApiThreads |-> NoTask]
  /\ ato = [a \in ApiThreads |-> "queued"]
  /\ executions = [t \in AllTasks |-> 0]
  /\ apiExecutions = [t \in AllTasks |-> 0]
  /\ gateDecision = [t \in AllTasks |-> "none"]
  /\ lastDecision = [t \in AllTasks |-> "none"]
  /\ applied = [t \in AllTasks |-> {}]

-----------------------------------------------------------------------------
(* The tasks table *)

\* PostgresTaskRepository.create_task_from_envelope, reached from the owner
\* command router through the admission service.
Admit(t) ==
  /\ status[t] = Absent
  /\ status' = [status EXCEPT ![t] = "queued"]
  /\ \E g \in DispatchTargets : target' = [target EXCEPT ![t] = g]
  /\ UNCHANGED <<reservation, pc, batch, graphVars, to, cont, memoVars,
                 crashes, apiVars, obsVars>>

\* Mutated form: the arguments of the update change places.
StartUpdateSwapped(s, k) ==
  IF MayUpdate(status[cur], s)
    THEN pc' = "update" /\ to' = k /\ cont' = s
    ELSE pc' = "fail" /\ UNCHANGED <<to, cont>>

\* Mutated form: the node goes on with the new status in its TaskState only.
StartUpdateInState(s, k) ==
  IF MayUpdate(status[cur], s)
    THEN pc' = k /\ UNCHANGED <<to, cont>>
    ELSE pc' = "fail" /\ UNCHANGED <<to, cont>>

\* update_task_status, first transaction, called by a graph node: the row is
\* read and the transition checked; an illegal one raises.
StartUpdate(s, k) ==
  IF MayUpdate(status[cur], s)
    THEN pc' = "update" /\ to' = s /\ cont' = k
    ELSE pc' = "fail" /\ UNCHANGED <<to, cont>>

\* update_task_status, second transaction: an UPDATE by task id alone.
Update ==
  /\ pc = "update"
  /\ status' = [status EXCEPT ![cur] = to]
  /\ pc' = cont
  /\ UNCHANGED <<target, reservation, batch, graphVars, to, cont, memoVars,
                 crashes, apiVars, obsVars>>

-----------------------------------------------------------------------------
(* The polling loop *)

\* Mutated form: a poll that also resumes what an earlier process left behind.
Unfinished == {t \in AllTasks : status[t] \in {"queued", "authorized"}}

\* The rows of list_tasks() the loop keeps.
Queued == {t \in AllTasks : status[t] = "queued"}

\* One snapshot per iteration of the while loop.
Poll ==
  /\ pc = "idle" /\ batch = {}
  /\ batch' = Queued
  /\ UNCHANGED <<rowVars, pc, graphVars, to, cont, memoVars, crashes, apiVars,
                 obsVars>>

\* One graph run per snapshot row, with a fresh TaskState and LoopState; the
\* status of the row is not read again.
StartTask ==
  /\ pc = "idle"
  /\ \E t \in batch : cur' = t /\ batch' = batch \ {t}
  /\ pc' = "policy"
  /\ policyDecision' = "none" /\ todo' = {} /\ hopCount' = 0
  /\ UNCHANGED <<rowVars, to, cont, memoVars, crashes, apiVars, obsVars>>

EndGraph ==
  /\ pc = "ended"
  /\ pc' = "idle" /\ cur' = NoTask
  /\ UNCHANGED <<rowVars, batch, policyDecision, todo, hopCount, to, cont,
                 memoVars, crashes, apiVars, obsVars>>

-----------------------------------------------------------------------------
(* Loop control *)

\* loop_control.check_and_increment_hop at the entry of each node.
HopBreach == hopCount + 1 > HopLimit

\* loop_control.check_and_increment_pair at the PM -> specialist boundary: the
\* LoopState is fresh in each graph run and the boundary is crossed once.
PairBreach == cur \in PmTasks /\ 1 > PairLimit

LoopCapBreach ==
  /\ \/ pc \in {"policy", "obligation", "dispatch"} /\ HopBreach
     \/ pc = "dispatch" /\ PairBreach
  /\ pc' = "breach" /\ hopCount' = hopCount + 1
  /\ UNCHANGED <<rowVars, batch, cur, policyDecision, todo, to, cont, memoVars,
                 crashes, apiVars, obsVars>>

\* "except LoopCapBreachError": the row is to become blocked.  A raise in the
\* handler leaves the loop, and with it the process.
BreachRead ==
  /\ pc = "breach"
  /\ pc' = IF MayUpdate(status[cur], "blocked") THEN "breachUpdate" ELSE "dead"
  /\ UNCHANGED <<rowVars, batch, graphVars, to, cont, memoVars, crashes,
                 apiVars, obsVars>>

BreachUpdate ==
  /\ pc = "breachUpdate"
  /\ status' = [status EXCEPT ![cur] = "blocked"]
  /\ pc' = "idle" /\ cur' = NoTask
  /\ UNCHANGED <<target, reservation, batch, policyDecision, todo, hopCount,
                 to, cont, memoVars, crashes, apiVars, obsVars>>

-----------------------------------------------------------------------------
(* Node 1: policy evaluation *)

\* Mutated form: what is no error is allowed.
FailOpen(d) == d # "error"

\* fail_closed.evaluate_with_fail_closed: PolicyFailClosedOutcome.allowed.
evaluate_with_fail_closed(d) == d \in {"allow", "allow_with_obligations"}

\* Anything but an allow (deny, uncertain, an exception of the client) blocks
\* the row and ends the graph.
PolicyNode ==
  /\ pc = "policy" /\ ~HopBreach
  /\ hopCount' = hopCount + 1
  /\ \E d \in Decisions :
       /\ policyDecision' = d
       /\ gateDecision' = [gateDecision EXCEPT ![cur] = d]
       /\ lastDecision' = [lastDecision EXCEPT ![cur] = d]
       /\ IF evaluate_with_fail_closed(d)
            THEN StartUpdate("authorized", "obligation")
            ELSE StartUpdate("blocked", "ended")
  /\ UNCHANGED <<rowVars, batch, cur, todo, memoVars, crashes, apiVars,
                 executions, apiExecutions, applied>>

-----------------------------------------------------------------------------
(* Node 2: obligations *)

\* Without obligations there is nothing to check.
NoObligations ==
  /\ pc = "obligation" /\ ~HopBreach
  /\ policyDecision # "allow_with_obligations"
  /\ hopCount' = hopCount + 1
  /\ pc' = "dispatch"
  /\ UNCHANGED <<rowVars, batch, cur, policyDecision, todo, to, cont, memoVars,
                 crashes, apiVars, obsVars>>

\* The obligations are those of a second evaluation of the policy.  When the
\* client raises, the node ends the graph and leaves the row as it is; when
\* the second decision is not an allow, there are no obligations to apply.
ObligationNode ==
  /\ pc = "obligation" /\ ~HopBreach
  /\ policyDecision = "allow_with_obligations"
  /\ hopCount' = hopCount + 1
  /\ \E d \in Decisions :
       /\ lastDecision' = [lastDecision EXCEPT ![cur] = d]
       /\ IF d = "error"
            THEN pc' = "ended" /\ UNCHANGED <<todo, applied>>
            ELSE \E os \in IF d = "allow_with_obligations"
                             THEN ObligationSets ELSE {{}} :
                   /\ pc' = "apply"
                   /\ todo' = os
                   /\ applied' = [applied EXCEPT ![cur] = os]
  /\ UNCHANGED <<rowVars, batch, cur, policyDecision, to, cont, memoVars,
                 crashes, apiVars, executions, apiExecutions, gateDecision>>

\* Mutated form: a refused reservation counts as non-blocking too.
NonBlockingBudget ==
  {"emit_audit_event", "enforce_sandbox_profile", "reserve_budget"}

\* Obligations whose handlers never block, whatever their outcome.
NonBlocking == {"emit_audit_event", "enforce_sandbox_profile"}

\* ObligationDispatcher applies in the order of _OBLIGATION_ORDER, unknown
\* names last.
NextObligation(o) ==
  /\ o \in todo
  /\ o = "reserve_budget" => "require_owner_approval" \notin todo
  /\ o = "unrecognised" =>
       todo \intersect {"require_owner_approval", "reserve_budget"} = {}

\* _handle_require_owner_approval blocks the row itself, and then is the
\* blocking obligation of the node.
RequireOwnerApproval ==
  /\ pc = "apply" /\ NextObligation("require_owner_approval")
  /\ StartUpdate("blocked", "oblBlock")
  /\ UNCHANGED <<rowVars, batch, graphVars, memoVars, crashes, apiVars,
                 obsVars>>

Reserved == {t \in AllTasks : reservation[t] = "reserved"}

\* Mutated form: the check that forgets the reservation being made.
SpentWithinAllocation == Cardinality(Reserved) <= BudgetLimit

\* _reserve_for_project: one transaction under the lock of the allocation row.
FitsAllocation == Cardinality(Reserved) + 1 <= BudgetLimit

\* _handle_reserve_budget, reserve_with_fail_closed: the outcome of an earlier
\* call for the task is replayed; every failure refuses.
ReserveBudget ==
  /\ pc = "apply" /\ NextObligation("reserve_budget")
  /\ \E o \in {"allowed", "refused"} :
       /\ budgetOutcomes[cur] # "none" => o = budgetOutcomes[cur]
       /\ budgetOutcomes[cur] = "none" /\ o = "allowed" => FitsAllocation
       /\ reservation' = IF budgetOutcomes[cur] = "none" /\ o = "allowed"
                           THEN [reservation EXCEPT ![cur] = "reserved"]
                           ELSE reservation
       /\ budgetOutcomes' = [budgetOutcomes EXCEPT ![cur] = o]
       /\ pc' = IF o = "allowed" THEN "apply" ELSE "oblBlock"
       /\ todo' = IF o = "allowed" THEN todo \ {"reserve_budget"} ELSE todo
  /\ UNCHANGED <<status, target, batch, cur, policyDecision, hopCount, to,
                 cont, taskOutcomes, crashes, apiVars, obsVars>>

UnknownObligation ==
  /\ pc = "apply" /\ NextObligation("unrecognised")
  /\ pc' = "oblBlock"
  /\ UNCHANGED <<rowVars, batch, graphVars, to, cont, memoVars, crashes,
                 apiVars, obsVars>>

\* The node's own update for the blocking obligation.
ObligationBlock ==
  /\ pc = "oblBlock"
  /\ StartUpdate("blocked", "ended")
  /\ UNCHANGED <<rowVars, batch, graphVars, memoVars, crashes, apiVars,
                 obsVars>>

ObligationsSatisfied ==
  /\ pc = "apply"
  /\ todo \subseteq NonBlocking
  /\ pc' = "dispatch"
  /\ UNCHANGED <<rowVars, batch, graphVars, to, cont, memoVars, crashes,
                 apiVars, obsVars>>

-----------------------------------------------------------------------------
(* Node 3: dispatch *)

\* The answers of an adapter: a receipt that accepts or refuses, or a raise.
AdapterAnswers == {"accepted", "refused", "raised"}

\* The memo of this process answers for a task it has seen.
ReplayOutcome ==
  /\ cur \in taskOutcomes
  /\ pc' = "ended"
  /\ UNCHANGED <<executions, to, reservation>>

\* The adapter is called; what it refuses or raises is marked blocked.
HandOver(answer) ==
  /\ executions' = [executions EXCEPT ![cur] = @ + 1]
  /\ to' = IF answer = "accepted" THEN "dispatched" ELSE "blocked"

ToSandbox ==
  /\ target[cur] = "sandbox"
  /\ \E answer \in AdapterAnswers : HandOver(answer)
  /\ pc' = "mark"
  /\ UNCHANGED reservation

\* A served LLM call settles the reservation whatever is answered afterwards.
ToLlm ==
  /\ target[cur] = "llm"
  /\ \E answer \in AdapterAnswers : HandOver(answer)
  /\ pc' = "mark"
  /\ \/ UNCHANGED reservation
     \/ /\ reservation[cur] = "reserved"
        /\ reservation' = [reservation EXCEPT ![cur] = "settled"]

ToCommunication ==
  /\ target[cur] = "communication"
  /\ \E answer \in AdapterAnswers : HandOver(answer)
  /\ pc' = "mark"
  /\ UNCHANGED reservation

\* The specialist takes sub-tasks of the project manager only and fails any
\* other; what it raises otherwise reaches the worker.
ToSpecialist ==
  /\ target[cur] = "specialist"
  /\ \/ /\ cur \in PmTasks
        /\ \E answer \in AdapterAnswers :
             /\ HandOver(answer)
             /\ pc' = IF answer = "raised" THEN "fail" ELSE "mark"
     \/ /\ cur \notin PmTasks
        /\ pc' = "mark" /\ to' = "failed"
        /\ UNCHANGED executions
  /\ UNCHANGED reservation

\* dispatch_admitted_task up to the call of the lifecycle service.
DispatchNode ==
  /\ pc = "dispatch" /\ ~HopBreach /\ ~PairBreach
  /\ hopCount' = hopCount + 1
  /\ \/ ReplayOutcome
     \/ /\ cur \notin taskOutcomes
        /\ ToSandbox \/ ToLlm \/ ToCommunication \/ ToSpecialist
  /\ UNCHANGED <<status, target, batch, cur, policyDecision, todo, cont,
                 memoVars, crashes, apiVars, apiExecutions, gateDecision,
                 lastDecision, applied>>

\* TaskLifecycleService.mark_dispatched, mark_blocked_dispatch, mark_failed.
Mark ==
  /\ pc = "mark"
  /\ StartUpdate(to, "marked")
  /\ UNCHANGED <<rowVars, batch, graphVars, memoVars, crashes, apiVars,
                 obsVars>>

\* The outcome is memoised once the row says it.
RecordOutcome ==
  /\ pc = "marked"
  /\ taskOutcomes' = taskOutcomes \union {cur}
  /\ pc' = "ended"
  /\ UNCHANGED <<rowVars, batch, graphVars, to, cont, budgetOutcomes, crashes,
                 apiVars, obsVars>>

-----------------------------------------------------------------------------
(* Failure of the worker *)

\* Any call made inside the graph may raise: a database error, the audit
\* writer after the row was written, the adapter's collaborators.
NodeRaises ==
  /\ pc \in GraphPcs
  /\ pc' = "fail"
  /\ UNCHANGED <<rowVars, batch, graphVars, to, cont, memoVars, crashes,
                 apiVars, obsVars>>

\* "except Exception": the row is to become failed.
FailRead ==
  /\ pc = "fail"
  /\ pc' = IF MayUpdate(status[cur], "failed") THEN "failUpdate" ELSE "dead"
  /\ UNCHANGED <<rowVars, batch, graphVars, to, cont, memoVars, crashes,
                 apiVars, obsVars>>

\* Mutated form: the failed task is queued again.
FailRequeues ==
  /\ pc = "failUpdate"
  /\ status' = [status EXCEPT ![cur] = "queued"]
  /\ pc' = "idle" /\ cur' = NoTask
  /\ UNCHANGED <<target, reservation, batch, policyDecision, todo, hopCount,
                 to, cont, memoVars, crashes, apiVars, obsVars>>

FailUpdate ==
  /\ pc = "failUpdate"
  /\ status' = [status EXCEPT ![cur] = "failed"]
  /\ pc' = "idle" /\ cur' = NoTask
  /\ UNCHANGED <<target, reservation, batch, policyDecision, todo, hopCount,
                 to, cont, memoVars, crashes, apiVars, obsVars>>

\* The process ends anywhere: killed, or by an error outside the two handlers
\* (the poll itself, or the database lost while a handler runs).
WorkerCrash ==
  /\ pc \notin {"down", "dead"} /\ crashes < MaxCrashes
  /\ crashes' = crashes + 1
  /\ pc' = "down" /\ batch' = {} /\ cur' = NoTask
  /\ policyDecision' = "none" /\ todo' = {} /\ hopCount' = 0
  /\ taskOutcomes' = {}
  /\ budgetOutcomes' = [t \in AllTasks |-> "none"]
  /\ UNCHANGED <<rowVars, to, cont, apiVars, obsVars>>

\* The container is started again; compose.yml has no restart policy.
WorkerRestart ==
  /\ pc = "down"
  /\ pc' = "idle"
  /\ UNCHANGED <<rowVars, batch, graphVars, to, cont, memoVars, crashes,
                 apiVars, obsVars>>

-----------------------------------------------------------------------------
(* The API process *)

\* ProjectManagerAgent.dispatch_to_specialist, create_specialist_task: the row
\* of the sub-task is inserted as queued, where the worker can see it.
PmCreate(a) ==
  /\ apc[a] = "idle"
  /\ \E p \in AllTasks : status[p] # Absent
  /\ \E t \in PmTasks :
       /\ status[t] = Absent
       /\ status' = [status EXCEPT ![t] = "queued"]
       /\ target' = [target EXCEPT ![t] = "specialist"]
       /\ acur' = [acur EXCEPT ![a] = t]
  /\ apc' = [apc EXCEPT ![a] = "execute"]
  /\ UNCHANGED <<reservation, pc, batch, graphVars, to, cont, memoVars,
                 crashes, ato, obsVars>>

\* ... and the same thread dispatches it at once, without policy or
\* obligations; a raise of the specialist ends the request.
PmExecute(a) ==
  /\ apc[a] = "execute"
  /\ apiExecutions' = [apiExecutions EXCEPT ![acur[a]] = @ + 1]
  /\ \E answer \in AdapterAnswers :
       /\ ato' = [ato EXCEPT ![a] = IF answer = "accepted"
                                      THEN "dispatched" ELSE "blocked"]
       /\ apc' = [apc EXCEPT ![a] = IF answer = "raised"
                                      THEN "idle" ELSE "read"]
  /\ UNCHANGED <<rowVars, pc, batch, graphVars, to, cont, memoVars, crashes,
                 acur, executions, gateDecision, lastDecision, applied>>

\* The read of mark_dispatched, mark_blocked_dispatch or a delivery callback in
\* the API process.
ApiRead(a) ==
  /\ apc[a] = "read"
  /\ apc' = [apc EXCEPT ![a] = IF MayUpdate(status[acur[a]], ato[a])
                                 THEN "write" ELSE "idle"]
  /\ UNCHANGED <<rowVars, pc, batch, graphVars, to, cont, memoVars, crashes,
                 acur, ato, obsVars>>

\* EnforcementActions.pause_task: the read of its mark_blocked_dispatch.
PauseTask(a) ==
  /\ apc[a] = "idle"
  /\ \E t \in AllTasks :
       /\ status[t] # Absent
       /\ MayUpdate(status[t], "blocked")
       /\ acur' = [acur EXCEPT ![a] = t]
  /\ ato' = [ato EXCEPT ![a] = "blocked"]
  /\ apc' = [apc EXCEPT ![a] = "write"]
  /\ UNCHANGED <<rowVars, pc, batch, graphVars, to, cont, memoVars, crashes,
                 obsVars>>

\* delivery_events.IMMUTABLE_TASK_STATUSES
IMMUTABLE_TASK_STATUSES == {"completed", "failed", "cancelled"}

\* LocalDeliveryEventCallbackProcessor.process of an event about a message the
\* communication adapter was handed, up to the call of update_task_status.
\* Events are late, repeated and in any order: processed ids keep one id from
\* being applied twice, and an outcome can come under several ids.
DeliveryCallback(a) ==
  /\ apc[a] = "idle"
  /\ \E t \in AllTasks :
       /\ target[t] = "communication" /\ executions[t] > 0
       /\ status[t] \notin IMMUTABLE_TASK_STATUSES
       /\ acur' = [acur EXCEPT ![a] = t]
  /\ \E s \in {"dispatched", "blocked"} : ato' = [ato EXCEPT ![a] = s]
  /\ apc' = [apc EXCEPT ![a] = "read"]
  /\ UNCHANGED <<rowVars, pc, batch, graphVars, to, cont, memoVars, crashes,
                 obsVars>>

ApiWrite(a) ==
  /\ apc[a] = "write"
  /\ status' = [status EXCEPT ![acur[a]] = ato[a]]
  /\ apc' = [apc EXCEPT ![a] = "idle"]
  /\ UNCHANGED <<target, reservation, pc, batch, graphVars, to, cont, memoVars,
                 crashes, acur, ato, obsVars>>

\* The request fails, or the API process ends, between two transactions.
ApiAbort(a) ==
  /\ apc[a] # "idle"
  /\ apc' = [apc EXCEPT ![a] = "idle"]
  /\ UNCHANGED <<rowVars, pc, batch, graphVars, to, cont, memoVars, crashes,
                 acur, ato, obsVars>>

-----------------------------------------------------------------------------
WorkerStep ==
  \/ Poll \/ StartTask \/ EndGraph \/ Update
  \/ PolicyNode \/ NoObligations \/ ObligationNode
  \/ RequireOwnerApproval \/ ReserveBudget \/ UnknownObligation
  \/ ObligationBlock \/ ObligationsSatisfied
  \/ DispatchNode \/ Mark \/ RecordOutcome
  \/ LoopCapBreach \/ BreachRead \/ BreachUpdate
  \/ FailRead \/ FailUpdate

ApiStep(a) ==
  \/ PmCreate(a) \/ PmExecute(a) \/ PauseTask(a) \/ DeliveryCallback(a)
  \/ ApiRead(a) \/ ApiWrite(a) \/ ApiAbort(a)

Next ==
  \/ \E t \in Tasks : Admit(t)
  \/ WorkerStep
  \/ NodeRaises
  \/ WorkerCrash \/ WorkerRestart
  \/ \E a \in ApiThreads : ApiStep(a)

Spec == Init /\ [][Next]_vars

\* The worker's loop runs as long as its process does: nothing in it waits for
\* anyone.  No fairness is assumed of restarts, admissions or API requests.
FairSpec == Spec /\ WF_vars(WorkerStep)

-----------------------------------------------------------------------------
(* Properties *)

\* The decisions that authorize.
Allowed == {"allow", "allow_with_obligations"}

\* Every variable ranges over what the code can hold there.
TypeOK ==
  /\ status \in [AllTasks -> TaskStatuses \union {Absent}]
  /\ target \in [AllTasks -> Targets \union {Absent}]
  /\ reservation \in [AllTasks -> {"none", "reserved", "settled"}]
  /\ pc \in WorkerPcs
  /\ batch \subseteq AllTasks
  /\ cur \in AllTasks \union {NoTask}
  /\ policyDecision \in AllDecisions \union {"none"}
  /\ todo \subseteq Obligations
  /\ hopCount \in Nat
  /\ to \in TaskStatuses
  /\ cont \in GraphPcs \union {"idle"}
  /\ taskOutcomes \subseteq AllTasks
  /\ budgetOutcomes \in [AllTasks -> {"none", "allowed", "refused"}]
  /\ crashes \in 0..MaxCrashes
  /\ apc \in [ApiThreads -> ApiPcs]
  /\ acur \in [ApiThreads -> AllTasks \union {NoTask}]
  /\ ato \in [ApiThreads -> TaskStatuses]
  /\ executions \in [AllTasks -> Nat]
  /\ apiExecutions \in [AllTasks -> Nat]
  /\ gateDecision \in [AllTasks -> AllDecisions \union {"none"}]
  /\ lastDecision \in [AllTasks -> AllDecisions \union {"none"}]
  /\ applied \in [AllTasks -> SUBSET Obligations]

\* The worker hands a task to an adapter at most once, whatever crashes,
\* restarts, exceptions and writes of API threads fall in between: the memo
\* that makes dispatch_admitted_task replay-safe dies with the process, so
\* this rests on the rows alone.
WorkerExecutesOnce == \A t \in AllTasks : executions[t] <= 1

\* ORCH-001 as the worker keeps it: no task is handed over whose policy
\* node got a deny, uncertain or an error.
ExecutedWasAuthorized ==
  \A t \in AllTasks : executions[t] > 0 => gateDecision[t] \in Allowed

\* ORCH-004: a task is handed over only after every blocking obligation the
\* obligation node was given is met: the budget is reserved, no approval is
\* outstanding, nothing was left unrecognised.
ObligationsBeforeExecution ==
  \A t \in AllTasks : executions[t] > 0 =>
    /\ "reserve_budget" \in applied[t] => reservation[t] # "none"
    /\ applied[t] \intersect {"require_owner_approval", "unrecognised"} = {}

\* The live reservations never exceed the allocation.
WithinAllocation == Cardinality(Reserved) <= BudgetLimit

\* The two exception handlers of the polling loop never raise the guard's
\* InvalidStateTransitionError, which nothing above them would catch.
HandlersNeverRaise == pc # "dead"

\* With the worker as only writer, every change of a stored status is an edge
\* of LEGAL_TRANSITIONS, although check and write are separate transactions.
StatusChangesAreLegal ==
  [][\A t \in AllTasks : status[t] # Absent /\ status'[t] # status[t]
       => status'[t] \in LEGAL_TRANSITIONS[status[t]]]_vars

\* The phase of TaskService a stored status stands for.
PhaseOf(s) == CASE s = Absent       -> "unknown"
                [] s = "queued"     -> "waiting"
                [] s = "authorized" -> "permitted"
                [] OTHER            -> "closed"

Service == INSTANCE TaskService
             WITH Tasks <- AllTasks,
                  phase <- [t \in AllTasks |-> PhaseOf(status[t])],
                  handed <- executions

\* The worker implements the service: through crashes, restarts, exceptions
\* and stale snapshots a task goes one way, from its row being queued to its
\* row being dispatched, blocked or failed, and is handed over at most once,
\* in between, while the row says authorized.
ImplementsTaskService == Service!Spec

Settled == {"dispatched", "blocked", "failed"}

\* Every admitted task comes to rest in a status that ends the graph, however
\* its policy evaluations, obligations and adapters answer.
EveryTaskSettles ==
  \A t \in AllTasks : (status[t] # Absent) ~> [](status[t] \in Settled)

-----------------------------------------------------------------------------
(* What the documentation says and the code does not do *)

\* ORCH-003, "Policy or budget evaluation errors MUST fail closed and block
\* dispatch": no task is handed over whose latest evaluation was no allow.
LatestDecisionBlocksDispatch ==
  \A t \in AllTasks : executions[t] > 0 => lastDecision[t] \in Allowed

\* TaskStateMachine.md, "Any policy or budget evaluation error transitions to
\* `blocked`": when a graph run is over and no process ended inside one, no row
\* is left authorized, the status no poll and no recovery looks at.
NoRowLeftAuthorized ==
  pc = "idle" /\ crashes = 0 =>
    \A t \in AllTasks : status[t] # "authorized"

\* ORCH-005, "Governance enforcement actions MUST NOT be overridden by
\* orchestrator logic": a row an auditor pause (or anyone) blocked does not
\* become dispatched.
BlockedIsNotDispatched ==
  [][\A t \in AllTasks :
       status[t] = "blocked" => status'[t] # "dispatched"]_vars

\* transition_guard.py, "Terminal states (completed, failed, cancelled) have
\* no outbound edges": a failed row stays failed.
FailedIsFinal ==
  [][\A t \in AllTasks : status[t] = "failed" => status'[t] = "failed"]_vars

\* ORCH-001, "Task MUST pass Policy Engine before dispatch": holds of the
\* specialist sub-tasks too.
SpecialistTasksPassPolicy ==
  \A t \in PmTasks : apiExecutions[t] > 0 => gateDecision[t] \in Allowed

\* ORCH-007: a specialist sub-task, created once under one idempotency key,
\* runs once.
SpecialistTasksRunOnce ==
  \A t \in PmTasks : executions[t] + apiExecutions[t] <= 1

\* M15-WorkPackages-v1.md, "check spent + estimate <= limit" with "release":
\* a task that ended blocked or failed holds no part of the allocation.
NoReservationLeaked ==
  \A t \in AllTasks :
    pc = "idle" /\ t \notin batch /\ status[t] \in {"blocked", "failed"}
      => reservation[t] # "reserved"

=============================================================================
