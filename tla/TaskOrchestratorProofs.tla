----------------------- MODULE TaskOrchestratorProofs -----------------------
(***************************************************************************)
(* Proofs about TaskOrchestrator for every set of tasks, sub-tasks and API *)
(* threads, every policy, and any number of crashes.                       *)
(***************************************************************************)
EXTENDS TaskOrchestrator, FiniteSetTheorems, TLAPS

-----------------------------------------------------------------------------
(* Type correctness *)

\* The worker holds a task whenever it is inside a graph or a handler, and an
\* API thread whenever it is inside a request.
HoldsTask ==
  /\ pc \notin RestPcs => cur \in AllTasks
  /\ \A a \in ApiThreads : apc[a] # "idle" => acur[a] \in AllTasks

Typed == TypeOK /\ HoldsTask

\* The initial state is typed.
LEMMA InitType == Init => Typed
  BY LimitsAssumption
  DEF Init, Typed, HoldsTask, TypeOK, AllTasks, Targets, TaskStatuses, WorkerPcs, RestPcs,
      GraphPcs, ApiPcs

\* Every action keeps the types; one step per action.
LEMMA StepType == Typed /\ [Next]_vars => Typed'
  <1> SUFFICES ASSUME Typed, [Next]_vars PROVE Typed'
    OBVIOUS
  <1> USE TasksAssumption, InputsAssumption, LimitsAssumption
      DEF Typed, HoldsTask, TypeOK, rowVars, graphVars, memoVars, apiVars, obsVars, TaskStatuses,
          WorkerPcs, GraphPcs, RestPcs, ApiPcs, AllDecisions
  <1>1. ASSUME NEW t \in Tasks, Admit(t) PROVE Typed'
    BY <1>1 DEF Admit, AllTasks
  <1>2. CASE Poll
    BY <1>2 DEF Poll, Queued
  <1>3. CASE StartTask
    BY <1>3 DEF StartTask
  <1>4. CASE EndGraph
    BY <1>4 DEF EndGraph
  <1>5. CASE Update
    BY <1>5 DEF Update
  <1>6. CASE PolicyNode
    BY <1>6 DEF PolicyNode, StartUpdate
  <1>7. CASE NoObligations
    BY <1>7 DEF NoObligations
  <1>8. CASE ObligationNode
    <2>1. /\ todo' \subseteq Obligations
          /\ applied' \in [AllTasks -> SUBSET Obligations]
      BY <1>8 DEF ObligationNode
    <2>2. /\ pc' \in {"apply", "ended"}
          /\ hopCount' \in Nat
          /\ lastDecision' \in [AllTasks -> AllDecisions \union {"none"}]
      BY <1>8 DEF ObligationNode
    <2> QED
      BY <1>8, <2>1, <2>2 DEF ObligationNode
  <1>9. CASE RequireOwnerApproval
    BY <1>9 DEF RequireOwnerApproval, StartUpdate
  <1>10. CASE ReserveBudget
    BY <1>10 DEF ReserveBudget
  <1>11. CASE UnknownObligation
    BY <1>11 DEF UnknownObligation
  <1>12. CASE ObligationBlock
    BY <1>12 DEF ObligationBlock, StartUpdate
  <1>13. CASE ObligationsSatisfied
    BY <1>13 DEF ObligationsSatisfied
  <1>14. CASE DispatchNode
    BY <1>14 DEF DispatchNode, ReplayOutcome, HandOver, ToSandbox, ToLlm,
        ToCommunication, ToSpecialist
  <1>15. CASE Mark
    BY <1>15 DEF Mark, StartUpdate
  <1>16. CASE RecordOutcome
    BY <1>16 DEF RecordOutcome
  <1>17. CASE LoopCapBreach
    BY <1>17 DEF LoopCapBreach
  <1>18. CASE BreachRead
    BY <1>18 DEF BreachRead
  <1>19. CASE BreachUpdate
    BY <1>19 DEF BreachUpdate
  <1>20. CASE FailRead
    BY <1>20 DEF FailRead
  <1>21. CASE FailUpdate
    BY <1>21 DEF FailUpdate
  <1>22. CASE NodeRaises
    BY <1>22 DEF NodeRaises, GraphPcs
  <1>23. CASE WorkerCrash
    BY <1>23 DEF WorkerCrash
  <1>24. CASE WorkerRestart
    BY <1>24 DEF WorkerRestart
  <1>25. ASSUME NEW a \in ApiThreads, PmCreate(a) PROVE Typed'
    BY <1>25 DEF PmCreate, AllTasks, Targets
  <1>26. ASSUME NEW a \in ApiThreads, PmExecute(a) PROVE Typed'
    BY <1>26 DEF PmExecute
  <1>27. ASSUME NEW a \in ApiThreads, ApiRead(a) PROVE Typed'
    BY <1>27 DEF ApiRead
  <1>28. ASSUME NEW a \in ApiThreads, PauseTask(a) PROVE Typed'
    BY <1>28 DEF PauseTask
  <1>29. ASSUME NEW a \in ApiThreads, ApiWrite(a) PROVE Typed'
    BY <1>29 DEF ApiWrite
  <1>30. ASSUME NEW a \in ApiThreads, ApiAbort(a) PROVE Typed'
    BY <1>30 DEF ApiAbort
  <1>31. ASSUME NEW a \in ApiThreads, DeliveryCallback(a) PROVE Typed'
    BY <1>31 DEF DeliveryCallback
  <1>32. CASE UNCHANGED vars
    BY <1>32 DEF vars
  <1> QED
    BY <1>1, <1>2, <1>3, <1>4, <1>5, <1>6, <1>7, <1>8, <1>9, <1>10, <1>11,
       <1>12, <1>13, <1>14, <1>15, <1>16, <1>17, <1>18, <1>19, <1>20, <1>21,
       <1>22, <1>23, <1>24, <1>25, <1>26, <1>27, <1>28, <1>29, <1>30, <1>31,
       <1>32
    DEF Next, WorkerStep, ApiStep

\* Every variable keeps its type, for all tasks, threads, policies and limits.
THEOREM TypeCorrect == Spec => []TypeOK
  <1>1. Init => Typed
    BY InitType
  <1>2. Typed /\ [Next]_vars => Typed'
    BY StepType
  <1> QED
    BY <1>1, <1>2, PTL DEF Spec, Typed

-----------------------------------------------------------------------------
(* The inductive invariant *)

\* The statuses some write of the code puts into a row that exists.
Written == {"authorized", "blocked", "dispatched", "failed"}

\* The rows of these tasks have left queued.
Started(t) == status[t] \in Written

\* From the policy node up to the hand-over.
BeforeHandOver ==
  \/ pc \in {"policy", "obligation", "apply", "dispatch"}
  \/ pc = "update" /\ cont = "obligation"

\* Past the decision of the policy node.
PastGate ==
  \/ pc \in {"obligation", "apply", "dispatch"}
  \/ pc = "update" /\ cont = "obligation"

\* Who may write what: nobody writes queued into an existing row, an API thread
\* writes blocked or dispatched only, and the worker is never in the graph of a
\* task that is still in its snapshot.
RowDiscipline ==
  /\ \A t \in AllTasks : status[t] \in Written \union {"queued", Absent}
  /\ \A t \in batch : status[t] \notin {"failed", Absent}
  /\ pc \notin RestPcs => cur \notin batch /\ status[cur] # Absent
  /\ pc \in {"update", "mark"} => to \in Written
  /\ pc = "update" => cont \in {"obligation", "oblBlock", "marked", "ended"}
  /\ pc = "update" /\ cont = "obligation" => to = "authorized"
  /\ pc \in {"obligation", "apply", "dispatch"} => Started(cur)
  /\ BeforeHandOver \/ pc \in {"breach", "breachUpdate"}
       => status[cur] # "failed"
  /\ \A a \in ApiThreads :
       /\ apc[a] \in {"read", "write"} => ato[a] \in {"blocked", "dispatched"}
       /\ apc[a] # "idle" => status[acur[a]] # Absent

\* A task that was handed over has left queued for good, and the worker will
\* not come to the hand-over with it again.
HandOverDiscipline ==
  /\ PastGate => gateDecision[cur] \in Allowed
  /\ \A t \in AllTasks :
       \/ executions[t] = 0
       \/ /\ executions[t] = 1
          /\ Started(t)
          /\ t \notin batch
          /\ ~(BeforeHandOver /\ cur = t)
          /\ gateDecision[t] \in Allowed

IInv == Typed /\ RowDiscipline /\ HandOverDiscipline

\* The inductive invariant holds at the start.
LEMMA InitInvariant == Init => IInv
  BY InitType
  DEF Init, IInv, RowDiscipline, HandOverDiscipline, BeforeHandOver, PastGate,
      Written, RestPcs

\* Steps keep the discipline of the rows.
LEMMA StepRows == IInv /\ [Next]_vars => RowDiscipline'
  <1> SUFFICES ASSUME IInv, [Next]_vars PROVE RowDiscipline'
    OBVIOUS
  <1> USE DEF IInv, Typed, HoldsTask, TypeOK, RowDiscipline, Started, Written,
              BeforeHandOver, RestPcs, rowVars, graphVars, memoVars, apiVars,
              obsVars, Absent
  <1>1. ASSUME NEW t \in Tasks, Admit(t) PROVE RowDiscipline'
    BY <1>1 DEF Admit, AllTasks
  <1>2. CASE Poll
    BY <1>2 DEF Poll, Queued
  <1>3. CASE StartTask
    BY <1>3 DEF StartTask
  <1>4. CASE EndGraph
    BY <1>4 DEF EndGraph
  <1>5. CASE Update
    BY <1>5 DEF Update
  <1>6. CASE PolicyNode
    BY <1>6 DEF PolicyNode, StartUpdate, evaluate_with_fail_closed
  <1>7. CASE NoObligations
    BY <1>7 DEF NoObligations
  <1>8. CASE ObligationNode
    BY <1>8 DEF ObligationNode
  <1>9. CASE RequireOwnerApproval
    BY <1>9 DEF RequireOwnerApproval, StartUpdate
  <1>10. CASE ReserveBudget
    BY <1>10 DEF ReserveBudget, NextObligation
  <1>11. CASE UnknownObligation
    BY <1>11 DEF UnknownObligation
  <1>12. CASE ObligationBlock
    BY <1>12 DEF ObligationBlock, StartUpdate
  <1>13. CASE ObligationsSatisfied
    BY <1>13 DEF ObligationsSatisfied
  <1>14. CASE DispatchNode
    BY <1>14 DEF DispatchNode, ReplayOutcome, HandOver, ToSandbox, ToLlm,
        ToCommunication, ToSpecialist
  <1>15. CASE Mark
    BY <1>15 DEF Mark, StartUpdate
  <1>16. CASE RecordOutcome
    BY <1>16 DEF RecordOutcome
  <1>17. CASE LoopCapBreach
    BY <1>17 DEF LoopCapBreach
  <1>18. CASE BreachRead
    BY <1>18 DEF BreachRead
  <1>19. CASE BreachUpdate
    BY <1>19 DEF BreachUpdate
  <1>20. CASE FailRead
    BY <1>20 DEF FailRead
  <1>21. CASE FailUpdate
    BY <1>21 DEF FailUpdate
  <1>22. CASE NodeRaises
    BY <1>22 DEF NodeRaises, GraphPcs
  <1>23. CASE WorkerCrash
    BY <1>23 DEF WorkerCrash
  <1>24. CASE WorkerRestart
    BY <1>24 DEF WorkerRestart
  <1>25. ASSUME NEW a \in ApiThreads, PmCreate(a) PROVE RowDiscipline'
    BY <1>25 DEF PmCreate, AllTasks
  <1>26. ASSUME NEW a \in ApiThreads, PmExecute(a) PROVE RowDiscipline'
    BY <1>26 DEF PmExecute
  <1>27. ASSUME NEW a \in ApiThreads, ApiRead(a) PROVE RowDiscipline'
    BY <1>27 DEF ApiRead
  <1>28. ASSUME NEW a \in ApiThreads, PauseTask(a) PROVE RowDiscipline'
    BY <1>28 DEF PauseTask
  <1>29. ASSUME NEW a \in ApiThreads, ApiWrite(a) PROVE RowDiscipline'
    BY <1>29 DEF ApiWrite
  <1>30. ASSUME NEW a \in ApiThreads, ApiAbort(a) PROVE RowDiscipline'
    BY <1>30 DEF ApiAbort
  <1>31. ASSUME NEW a \in ApiThreads, DeliveryCallback(a) PROVE RowDiscipline'
    BY <1>31 DEF DeliveryCallback, HandOverDiscipline
  <1>32. CASE UNCHANGED vars
    BY <1>32 DEF vars
  <1> QED
    BY <1>1, <1>2, <1>3, <1>4, <1>5, <1>6, <1>7, <1>8, <1>9, <1>10, <1>11,
       <1>12, <1>13, <1>14, <1>15, <1>16, <1>17, <1>18, <1>19, <1>20, <1>21,
       <1>22, <1>23, <1>24, <1>25, <1>26, <1>27, <1>28, <1>29, <1>30, <1>31,
       <1>32
    DEF Next, WorkerStep, ApiStep

\* Steps keep the discipline of the hand-over.
LEMMA StepHandOver == IInv /\ [Next]_vars => HandOverDiscipline'
  <1> SUFFICES ASSUME IInv, [Next]_vars PROVE HandOverDiscipline'
    OBVIOUS
  <1> USE DEF IInv, Typed, HoldsTask, TypeOK, RowDiscipline,
              HandOverDiscipline, Started, Written, BeforeHandOver, PastGate,
              Allowed, RestPcs, rowVars, graphVars, memoVars, apiVars, obsVars,
              Absent
  <1>1. ASSUME NEW t \in Tasks, Admit(t) PROVE HandOverDiscipline'
    BY <1>1 DEF Admit, AllTasks
  <1>2. CASE Poll
    BY <1>2 DEF Poll, Queued
  <1>3. CASE StartTask
    BY <1>3 DEF StartTask
  <1>4. CASE EndGraph
    BY <1>4 DEF EndGraph
  <1>5. CASE Update
    BY <1>5 DEF Update
  <1>6. CASE PolicyNode
    BY <1>6 DEF PolicyNode, StartUpdate, evaluate_with_fail_closed
  <1>7. CASE NoObligations
    BY <1>7 DEF NoObligations
  <1>8. CASE ObligationNode
    BY <1>8 DEF ObligationNode
  <1>9. CASE RequireOwnerApproval
    BY <1>9 DEF RequireOwnerApproval, StartUpdate
  <1>10. CASE ReserveBudget
    BY <1>10 DEF ReserveBudget, NextObligation
  <1>11. CASE UnknownObligation
    BY <1>11 DEF UnknownObligation
  <1>12. CASE ObligationBlock
    BY <1>12 DEF ObligationBlock, StartUpdate
  <1>13. CASE ObligationsSatisfied
    BY <1>13 DEF ObligationsSatisfied
  <1>14. CASE DispatchNode
    BY <1>14 DEF DispatchNode, ReplayOutcome, HandOver, ToSandbox, ToLlm,
        ToCommunication, ToSpecialist
  <1>15. CASE Mark
    BY <1>15 DEF Mark, StartUpdate
  <1>16. CASE RecordOutcome
    BY <1>16 DEF RecordOutcome
  <1>17. CASE LoopCapBreach
    BY <1>17 DEF LoopCapBreach
  <1>18. CASE BreachRead
    BY <1>18 DEF BreachRead
  <1>19. CASE BreachUpdate
    BY <1>19 DEF BreachUpdate
  <1>20. CASE FailRead
    BY <1>20 DEF FailRead
  <1>21. CASE FailUpdate
    BY <1>21 DEF FailUpdate
  <1>22. CASE NodeRaises
    BY <1>22 DEF NodeRaises, GraphPcs
  <1>23. CASE WorkerCrash
    BY <1>23 DEF WorkerCrash
  <1>24. CASE WorkerRestart
    BY <1>24 DEF WorkerRestart
  <1>25. ASSUME NEW a \in ApiThreads, PmCreate(a) PROVE HandOverDiscipline'
    BY <1>25 DEF PmCreate, AllTasks
  <1>26. ASSUME NEW a \in ApiThreads, PmExecute(a) PROVE HandOverDiscipline'
    BY <1>26 DEF PmExecute
  <1>27. ASSUME NEW a \in ApiThreads, ApiRead(a) PROVE HandOverDiscipline'
    BY <1>27 DEF ApiRead
  <1>28. ASSUME NEW a \in ApiThreads, PauseTask(a) PROVE HandOverDiscipline'
    BY <1>28 DEF PauseTask
  <1>29. ASSUME NEW a \in ApiThreads, ApiWrite(a) PROVE HandOverDiscipline'
    BY <1>29 DEF ApiWrite
  <1>30. ASSUME NEW a \in ApiThreads, ApiAbort(a) PROVE HandOverDiscipline'
    BY <1>30 DEF ApiAbort
  <1>31. ASSUME NEW a \in ApiThreads, DeliveryCallback(a) PROVE HandOverDiscipline'
    BY <1>31 DEF DeliveryCallback
  <1>32. CASE UNCHANGED vars
    BY <1>32 DEF vars
  <1> QED
    BY <1>1, <1>2, <1>3, <1>4, <1>5, <1>6, <1>7, <1>8, <1>9, <1>10, <1>11,
       <1>12, <1>13, <1>14, <1>15, <1>16, <1>17, <1>18, <1>19, <1>20, <1>21,
       <1>22, <1>23, <1>24, <1>25, <1>26, <1>27, <1>28, <1>29, <1>30, <1>31,
       <1>32
    DEF Next, WorkerStep, ApiStep

\* The three parts together are inductive.
LEMMA StepInvariant == IInv /\ [Next]_vars => IInv'
  BY StepType, StepRows, StepHandOver DEF IInv

\* The inductive invariant holds in every behaviour.
LEMMA Invariant == Spec => []IInv
  BY InitInvariant, StepInvariant, PTL DEF Spec

\* The worker hands no task to an adapter twice, however often its process
\* ends and is started again and whatever the API threads write meanwhile.
THEOREM ExecutesOnce == Spec => []WorkerExecutesOnce
  <1>1. IInv => WorkerExecutesOnce
    BY DEF IInv, HandOverDiscipline, WorkerExecutesOnce
  <1> QED
    BY <1>1, Invariant, PTL

\* No task is handed over whose policy node did not get an allow.
THEOREM ExecutesAuthorized == Spec => []ExecutedWasAuthorized
  <1>1. IInv => ExecutedWasAuthorized
    BY DEF IInv, HandOverDiscipline, ExecutedWasAuthorized
  <1> QED
    BY <1>1, Invariant, PTL

-----------------------------------------------------------------------------
(* The exception handlers *)

\* What the guard accepts from the statuses a row can have.
LEMMA HandlerWritesAreLegal ==
  /\ \A s \in Written \union {"queued"} : MayUpdate(s, "failed")
  /\ \A s \in (Written \union {"queued"}) \ {"failed"} : MayUpdate(s, "blocked")
  BY DEF Written, MayUpdate, assert_legal_transition, LEGAL_TRANSITIONS,
         TaskStatuses

\* The handlers of the polling loop never raise, so an exception inside a graph
\* never ends the worker.
THEOREM WorkerSurvives == Spec => []HandlersNeverRaise
  <1>1. Init => HandlersNeverRaise
    BY DEF Init, HandlersNeverRaise
  <1>2. IInv /\ HandlersNeverRaise /\ [Next]_vars => HandlersNeverRaise'
    <2> SUFFICES ASSUME IInv, HandlersNeverRaise, [Next]_vars
                 PROVE HandlersNeverRaise'
      OBVIOUS
    <2> USE DEF IInv, Typed, HoldsTask, TypeOK, RowDiscipline,
                HandlersNeverRaise, RestPcs, GraphPcs, BeforeHandOver
    <2>1. CASE FailRead
      BY <2>1, HandlerWritesAreLegal DEF FailRead
    <2>2. CASE BreachRead
      BY <2>2, HandlerWritesAreLegal DEF BreachRead
    <2>3. CASE \/ PolicyNode \/ RequireOwnerApproval \/ ObligationBlock \/ Mark
      BY <2>3 DEF PolicyNode, RequireOwnerApproval, ObligationBlock, Mark,
                  StartUpdate
    <2>4. CASE \/ Poll \/ StartTask \/ EndGraph \/ Update \/ NoObligations
               \/ ReserveBudget \/ UnknownObligation \/ ObligationsSatisfied
               \/ RecordOutcome \/ LoopCapBreach \/ BreachUpdate \/ FailUpdate
               \/ NodeRaises \/ WorkerCrash \/ WorkerRestart
      BY <2>4 DEF Poll, StartTask, EndGraph, Update, NoObligations,
                  ReserveBudget, UnknownObligation, ObligationsSatisfied,
                  RecordOutcome, LoopCapBreach, BreachUpdate, FailUpdate,
                  NodeRaises, WorkerCrash, WorkerRestart
    <2>5. CASE ObligationNode
      BY <2>5 DEF ObligationNode
    <2>6. CASE DispatchNode
      BY <2>6 DEF DispatchNode, ReplayOutcome, HandOver, ToSandbox, ToLlm,
        ToCommunication, ToSpecialist
    <2>7. ASSUME NEW a \in ApiThreads, ApiStep(a) PROVE HandlersNeverRaise'
      BY <2>7 DEF ApiStep, PmCreate, PmExecute, ApiRead, PauseTask, ApiWrite,
                  DeliveryCallback, ApiAbort
    <2>8. ASSUME NEW t \in Tasks, Admit(t) PROVE HandlersNeverRaise'
      BY <2>8 DEF Admit
    <2>9. CASE UNCHANGED vars
      BY <2>9 DEF vars
    <2> QED
      BY <2>1, <2>2, <2>3, <2>4, <2>5, <2>6, <2>7, <2>8, <2>9
      DEF Next, WorkerStep
  <1> QED
    BY <1>1, <1>2, Invariant, PTL DEF Spec

-----------------------------------------------------------------------------
(* Obligations *)

\* What ObligationsBeforeExecution says of one task.
Met(t) ==
  /\ "reserve_budget" \in applied[t] => reservation[t] # "none"
  /\ applied[t] \intersect {"require_owner_approval", "unrecognised"} = {}

\* Obligations are given to a task once, after its row left queued; while they
\* are applied only the reservation is ever struck off, and only once made.
ObligationDiscipline ==
  /\ \A t \in AllTasks : status[t] \in {"queued", Absent} => applied[t] = {}
  /\ \A t \in batch : applied[t] = {}
  /\ \/ pc \in {"policy", "obligation"}
     \/ pc = "update" /\ cont = "obligation"
     => applied[cur] = {}
  /\ pc = "apply" =>
       /\ applied[cur] \ todo \subseteq {"reserve_budget"}
       /\ "reserve_budget" \in applied[cur] \ todo => reservation[cur] # "none"
  /\ pc = "dispatch" => Met(cur)
  /\ \A t \in AllTasks : executions[t] > 0 => Met(t)
  /\ \A t \in AllTasks : budgetOutcomes[t] = "allowed"
                           => reservation[t] # "none"

\* Every action keeps the bookkeeping of obligations, given the invariant.
LEMMA StepObligations ==
  IInv /\ ObligationDiscipline /\ [Next]_vars => ObligationDiscipline'
  <1> SUFFICES ASSUME IInv, ObligationDiscipline, [Next]_vars
               PROVE ObligationDiscipline'
    OBVIOUS
  <1> USE DEF IInv, Typed, HoldsTask, TypeOK, RowDiscipline,
              HandOverDiscipline, ObligationDiscipline, Met, Started, Written,
              BeforeHandOver, RestPcs, rowVars, graphVars, memoVars, apiVars,
              obsVars, Absent
  <1>1. ASSUME NEW t \in Tasks, Admit(t) PROVE ObligationDiscipline'
    BY <1>1 DEF Admit, AllTasks
  <1>2. CASE Poll
    BY <1>2 DEF Poll, Queued
  <1>3. CASE StartTask
    BY <1>3 DEF StartTask
  <1>4. CASE EndGraph
    BY <1>4 DEF EndGraph
  <1>5. CASE Update
    BY <1>5 DEF Update
  <1>6. CASE PolicyNode
    BY <1>6 DEF PolicyNode, StartUpdate, evaluate_with_fail_closed
  <1>7. CASE NoObligations
    BY <1>7 DEF NoObligations
  <1>8. CASE ObligationNode
    BY <1>8 DEF ObligationNode
  <1>9. CASE RequireOwnerApproval
    BY <1>9 DEF RequireOwnerApproval, StartUpdate
  <1>10. CASE ReserveBudget
    BY <1>10 DEF ReserveBudget, NextObligation
  <1>11. CASE UnknownObligation
    BY <1>11 DEF UnknownObligation
  <1>12. CASE ObligationBlock
    BY <1>12 DEF ObligationBlock, StartUpdate
  <1>13. CASE ObligationsSatisfied
    BY <1>13 DEF ObligationsSatisfied, NonBlocking
  <1>14. CASE DispatchNode
    BY <1>14 DEF DispatchNode, ReplayOutcome, HandOver, ToSandbox, ToLlm,
        ToCommunication, ToSpecialist
  <1>15. CASE Mark
    BY <1>15 DEF Mark, StartUpdate
  <1>16. CASE RecordOutcome
    BY <1>16 DEF RecordOutcome
  <1>17. CASE LoopCapBreach
    BY <1>17 DEF LoopCapBreach
  <1>18. CASE BreachRead
    BY <1>18 DEF BreachRead
  <1>19. CASE BreachUpdate
    BY <1>19 DEF BreachUpdate
  <1>20. CASE FailRead
    BY <1>20 DEF FailRead
  <1>21. CASE FailUpdate
    BY <1>21 DEF FailUpdate
  <1>22. CASE NodeRaises
    BY <1>22 DEF NodeRaises, GraphPcs
  <1>23. CASE WorkerCrash
    BY <1>23 DEF WorkerCrash
  <1>24. CASE WorkerRestart
    BY <1>24 DEF WorkerRestart
  <1>25. ASSUME NEW a \in ApiThreads, PmCreate(a) PROVE ObligationDiscipline'
    BY <1>25 DEF PmCreate, AllTasks
  <1>26. ASSUME NEW a \in ApiThreads, PmExecute(a) PROVE ObligationDiscipline'
    BY <1>26 DEF PmExecute
  <1>27. ASSUME NEW a \in ApiThreads, ApiRead(a) PROVE ObligationDiscipline'
    BY <1>27 DEF ApiRead
  <1>28. ASSUME NEW a \in ApiThreads, PauseTask(a) PROVE ObligationDiscipline'
    BY <1>28 DEF PauseTask
  <1>29. ASSUME NEW a \in ApiThreads, ApiWrite(a) PROVE ObligationDiscipline'
    BY <1>29 DEF ApiWrite
  <1>30. ASSUME NEW a \in ApiThreads, ApiAbort(a) PROVE ObligationDiscipline'
    BY <1>30 DEF ApiAbort
  <1>31. ASSUME NEW a \in ApiThreads, DeliveryCallback(a) PROVE ObligationDiscipline'
    BY <1>31 DEF DeliveryCallback
  <1>32. CASE UNCHANGED vars
    BY <1>32 DEF vars
  <1> QED
    BY <1>1, <1>2, <1>3, <1>4, <1>5, <1>6, <1>7, <1>8, <1>9, <1>10, <1>11,
       <1>12, <1>13, <1>14, <1>15, <1>16, <1>17, <1>18, <1>19, <1>20, <1>21,
       <1>22, <1>23, <1>24, <1>25, <1>26, <1>27, <1>28, <1>29, <1>30, <1>31,
       <1>32
    DEF Next, WorkerStep, ApiStep

\* No task is handed over with a blocking obligation open.
THEOREM ObligationsBind == Spec => []ObligationsBeforeExecution
  <1>1. Init => ObligationDiscipline
    BY DEF Init, ObligationDiscipline, Met
  <1>2. ObligationDiscipline => ObligationsBeforeExecution
    BY DEF ObligationDiscipline, ObligationsBeforeExecution, Met
  <1> QED
    BY <1>1, <1>2, StepObligations, Invariant, PTL DEF Spec

-----------------------------------------------------------------------------
(* The allocation *)

\* There are finitely many tasks, so the live reservations can be counted.
LEMMA ReservedIsFinite == IsFiniteSet(Reserved)
  <1>1. IsFiniteSet(AllTasks)
    BY TasksAssumption, FS_Union DEF AllTasks
  <1> QED
    BY <1>1, FS_Subset DEF Reserved

\* Only ReserveBudget adds a live reservation, under the check of the limit;
\* a served LLM call takes one away.
LEMMA StepAllocation ==
  IInv /\ WithinAllocation /\ [Next]_vars => WithinAllocation'
  <1> SUFFICES ASSUME IInv, WithinAllocation, [Next]_vars
               PROVE WithinAllocation'
    OBVIOUS
  <1>1. Cardinality(Reserved) \in Nat /\ BudgetLimit \in Nat
    BY ReservedIsFinite, FS_CardinalityType, LimitsAssumption
  <1>2. ASSUME Reserved' \subseteq Reserved PROVE WithinAllocation'
    <2>1. Cardinality(Reserved') <= Cardinality(Reserved)
      BY <1>2, ReservedIsFinite, FS_Subset
    <2>2. Cardinality(Reserved') \in Nat
      BY <1>2, ReservedIsFinite, FS_Subset, FS_CardinalityType
    <2> QED
      BY <1>1, <2>1, <2>2 DEF WithinAllocation
  <1>3. CASE ReserveBudget
    <2>1. CASE Reserved' \subseteq Reserved
      BY <2>1, <1>2
    <2>2. CASE ~(Reserved' \subseteq Reserved)
      <3>1. FitsAllocation /\ reservation' = [reservation EXCEPT ![cur] = "reserved"]
        BY <1>3, <2>2 DEF ReserveBudget, Reserved
      <3>2. Reserved' = Reserved \union {cur} /\ cur \notin Reserved
        BY <2>2, <3>1 DEF Reserved, IInv, Typed, TypeOK
      <3>3. Cardinality(Reserved') = Cardinality(Reserved) + 1
        BY <3>2, ReservedIsFinite, FS_AddElement
      <3> QED
        BY <1>1, <3>1, <3>3 DEF FitsAllocation, WithinAllocation
    <2> QED
      BY <2>1, <2>2
  <1>4. CASE DispatchNode
    <2>1. Reserved' \subseteq Reserved
      BY <1>4 DEF DispatchNode, ReplayOutcome, ToSandbox, ToLlm, ToCommunication,
         ToSpecialist, Reserved, IInv, Typed, TypeOK
    <2> QED
      BY <2>1, <1>2
  <1>5. CASE UNCHANGED reservation
    BY <1>5, <1>2 DEF Reserved
  <1>6. ASSUME ~ReserveBudget, ~DispatchNode PROVE UNCHANGED reservation
    BY <1>6
    DEF Next, WorkerStep, ApiStep, vars, rowVars, Admit, Poll, StartTask,
        EndGraph, Update, PolicyNode, NoObligations, ObligationNode,
        RequireOwnerApproval, UnknownObligation, ObligationBlock,
        ObligationsSatisfied, Mark, RecordOutcome, LoopCapBreach, BreachRead,
        BreachUpdate, FailRead, FailUpdate, NodeRaises, WorkerCrash,
        WorkerRestart, PmCreate, PmExecute, ApiRead, PauseTask, ApiWrite,
        DeliveryCallback, ApiAbort
  <1> QED
    BY <1>3, <1>4, <1>5, <1>6

\* The live reservations never exceed the allocation, whatever it is.
THEOREM AllocationHolds == Spec => []WithinAllocation
  <1>1. Init => WithinAllocation
    <2> SUFFICES ASSUME Init PROVE WithinAllocation
      OBVIOUS
    <2>1. Reserved = {}
      BY DEF Init, Reserved
    <2> QED
      BY <2>1, FS_EmptySet, LimitsAssumption DEF WithinAllocation
  <1> QED
    BY <1>1, StepAllocation, Invariant, PTL DEF Spec

-----------------------------------------------------------------------------
(* The worker as the only writer *)

\* What the check of an update found still holds when its write is made.
CheckStillHolds ==
  /\ pc = "update" => MayUpdate(status[cur], to)
  /\ pc = "breachUpdate" => MayUpdate(status[cur], "blocked")
  /\ pc = "failUpdate" => MayUpdate(status[cur], "failed")

\* What the first transaction of an update checked still holds at the second
\* one when no API thread writes in between.
LEMMA StepCheck ==
  ASSUME ApiThreads = {}
  PROVE  IInv /\ CheckStillHolds /\ [Next]_vars => CheckStillHolds'
  <1> SUFFICES ASSUME IInv, CheckStillHolds, [Next]_vars
               PROVE CheckStillHolds'
    OBVIOUS
  <1> USE DEF IInv, Typed, HoldsTask, TypeOK, RowDiscipline, CheckStillHolds,
              RestPcs, GraphPcs, rowVars, graphVars, Absent
  <1>1. ASSUME NEW t \in Tasks, Admit(t) PROVE CheckStillHolds'
    <2>1. pc \notin RestPcs => cur # t
      BY <1>1 DEF Admit
    <2> QED
      BY <1>1, <2>1 DEF Admit
  <1>2. CASE \/ PolicyNode \/ RequireOwnerApproval \/ ObligationBlock \/ Mark
    BY <1>2 DEF PolicyNode, RequireOwnerApproval, ObligationBlock, Mark,
                StartUpdate
  <1>3. CASE \/ Poll \/ StartTask \/ EndGraph \/ NoObligations
             \/ UnknownObligation \/ ObligationsSatisfied \/ RecordOutcome
             \/ LoopCapBreach \/ BreachUpdate \/ FailUpdate \/ NodeRaises
             \/ WorkerCrash \/ WorkerRestart
    BY <1>3 DEF Poll, StartTask, EndGraph, NoObligations, UnknownObligation,
                ObligationsSatisfied, RecordOutcome, LoopCapBreach,
                BreachUpdate, FailUpdate, NodeRaises, WorkerCrash,
                WorkerRestart
  <1>4. CASE Update
    BY <1>4 DEF Update
  <1>5. CASE ObligationNode
    BY <1>5 DEF ObligationNode
  <1>6. CASE ReserveBudget
    BY <1>6 DEF ReserveBudget
  <1>7. CASE DispatchNode
    BY <1>7 DEF DispatchNode, ReplayOutcome, HandOver, ToSandbox, ToLlm,
        ToCommunication, ToSpecialist
  <1>8. CASE FailRead \/ BreachRead
    BY <1>8 DEF FailRead, BreachRead
  <1>9. CASE UNCHANGED vars
    BY <1>9 DEF vars
  <1> QED
    BY <1>1, <1>2, <1>3, <1>4, <1>5, <1>6, <1>7, <1>8, <1>9
    DEF Next, WorkerStep

\* While no API thread writes, every change of a stored status is an edge of
\* LEGAL_TRANSITIONS.  One API thread is enough to lose this.
THEOREM SoleWriterIsLegal ==
  ASSUME ApiThreads = {}
  PROVE  Spec => StatusChangesAreLegal
  <1>1. Init => CheckStillHolds
    BY DEF Init, CheckStillHolds
  <1>2. ASSUME IInv, CheckStillHolds, [Next]_vars, NEW t \in AllTasks,
               status[t] # Absent, status'[t] # status[t]
        PROVE  status'[t] \in LEGAL_TRANSITIONS[status[t]]
    <2> USE DEF IInv, Typed, HoldsTask, TypeOK, CheckStillHolds, RestPcs,
                MayUpdate, assert_legal_transition
    <2>1. ASSUME NEW u \in Tasks, Admit(u)
          PROVE  FALSE
      BY <1>2, <2>1 DEF Admit, AllTasks
    <2>2. CASE Update
      BY <1>2, <2>2 DEF Update
    <2>3. CASE BreachUpdate
      BY <1>2, <2>3 DEF BreachUpdate
    <2>4. CASE FailUpdate
      BY <1>2, <2>4 DEF FailUpdate
    <2> QED
      BY <1>2, <2>1, <2>2, <2>3, <2>4
      DEF Next, WorkerStep, vars, rowVars, Poll, StartTask, EndGraph,
          PolicyNode, NoObligations, ObligationNode, RequireOwnerApproval,
          ReserveBudget, UnknownObligation, ObligationBlock,
          ObligationsSatisfied, DispatchNode, Mark, RecordOutcome,
          LoopCapBreach, BreachRead, FailRead, NodeRaises, WorkerCrash,
          WorkerRestart
  <1>3. IInv /\ CheckStillHolds /\ [Next]_vars =>
          [\A t \in AllTasks : status[t] # Absent /\ status'[t] # status[t]
             => status'[t] \in LEGAL_TRANSITIONS[status[t]]]_vars
    BY <1>2
  <1> QED
    BY <1>1, <1>3, StepCheck, Invariant, PTL DEF Spec, StatusChangesAreLegal

-----------------------------------------------------------------------------
(* The refinement of TaskService *)

\* Without other writers a row is queued from the snapshot to the policy node,
\* and authorized from there to the hand-over.
SoleWriterRows ==
  /\ \A t \in batch : status[t] = "queued"
  /\ pc = "policy" \/ (pc = "update" /\ cont = "obligation")
       => status[cur] = "queued"
  /\ pc \in {"obligation", "apply", "dispatch"} => status[cur] = "authorized"

\* Every action of the worker keeps what it knows of the row it works on.
LEMMA StepSoleWriterRows ==
  ASSUME ApiThreads = {}
  PROVE  IInv /\ SoleWriterRows /\ [Next]_vars => SoleWriterRows'
  <1> SUFFICES ASSUME IInv, SoleWriterRows, [Next]_vars
               PROVE SoleWriterRows'
    OBVIOUS
  <1> USE DEF IInv, Typed, HoldsTask, TypeOK, RowDiscipline, SoleWriterRows,
              RestPcs, rowVars, graphVars, Absent
  <1>1. ASSUME NEW t \in Tasks, Admit(t) PROVE SoleWriterRows'
    <2>1. pc \notin RestPcs => cur # t
      BY <1>1 DEF Admit
    <2> QED
      BY <1>1, <2>1 DEF Admit
  <1>2. CASE PolicyNode
    BY <1>2 DEF PolicyNode, StartUpdate, evaluate_with_fail_closed
  <1>3. CASE RequireOwnerApproval \/ ObligationBlock \/ Mark
    BY <1>3 DEF RequireOwnerApproval, ObligationBlock, Mark, StartUpdate
  <1>4. CASE \/ EndGraph \/ NoObligations \/ UnknownObligation
             \/ ObligationsSatisfied \/ RecordOutcome \/ LoopCapBreach
             \/ BreachUpdate \/ FailUpdate \/ NodeRaises \/ WorkerCrash
             \/ WorkerRestart
    BY <1>4 DEF EndGraph, NoObligations, UnknownObligation,
                ObligationsSatisfied, RecordOutcome, LoopCapBreach,
                BreachUpdate, FailUpdate, NodeRaises, GraphPcs, WorkerCrash,
                WorkerRestart
  <1>5. CASE Poll
    BY <1>5 DEF Poll, Queued
  <1>6. CASE StartTask
    BY <1>6 DEF StartTask
  <1>7. CASE Update
    BY <1>7 DEF Update
  <1>8. CASE ObligationNode
    BY <1>8 DEF ObligationNode
  <1>9. CASE ReserveBudget
    BY <1>9 DEF ReserveBudget
  <1>10. CASE DispatchNode
    BY <1>10 DEF DispatchNode, ReplayOutcome, HandOver, ToSandbox, ToLlm,
        ToCommunication, ToSpecialist
  <1>11. CASE FailRead \/ BreachRead
    BY <1>11 DEF FailRead, BreachRead
  <1>12. CASE UNCHANGED vars
    BY <1>12 DEF vars
  <1> QED
    BY <1>1, <1>2, <1>3, <1>4, <1>5, <1>6, <1>7, <1>8, <1>9, <1>10, <1>11,
       <1>12
    DEF Next, WorkerStep

\* The variables of TaskService in the state of the worker.
Phase == [t \in AllTasks |-> PhaseOf(status[t])]

\* A write the guard let through moves the phase one way: an authorized row
\* stands for a permitted task, any other write closes it.
LEMMA WriteMovesPhase ==
  ASSUME NEW t \in AllTasks, NEW s \in Written,
         status \in [AllTasks -> TaskStatuses \union {Absent}],
         status[t] \in Written \union {"queued"},
         MayUpdate(status[t], s),
         status' = [status EXCEPT ![t] = s]
  PROVE  \/ UNCHANGED Phase
         \/ /\ Phase[t] = "waiting"
            /\ Phase' = [Phase EXCEPT ![t] = "permitted"]
         \/ /\ Phase[t] \in {"waiting", "permitted"}
            /\ Phase' = [Phase EXCEPT ![t] = "closed"]
  <1>1. Phase' = [Phase EXCEPT ![t] = PhaseOf(s)]
    BY DEF Phase
  <1>2. Phase[t] = PhaseOf(status[t])
    BY DEF Phase
  <1>3. PhaseOf(s) = PhaseOf(status[t]) => UNCHANGED Phase
    BY <1>1, <1>2 DEF Phase
  <1>4. CASE s = "authorized"
    <2>1. status[t] \in {"queued", "authorized"}
      BY <1>4 DEF MayUpdate, assert_legal_transition, LEGAL_TRANSITIONS,
                  TaskStatuses, Written
    <2> QED
      BY <1>1, <1>2, <1>3, <1>4, <2>1 DEF PhaseOf, Absent
  <1>5. CASE s # "authorized"
    <2>1. PhaseOf(s) = "closed"
      BY <1>5 DEF PhaseOf, Written, Absent
    <2>2. PhaseOf(status[t]) \in {"waiting", "permitted", "closed"}
      BY DEF PhaseOf, Written, Absent
    <2> QED
      BY <1>1, <1>2, <1>3, <2>1, <2>2
  <1> QED
    BY <1>4, <1>5

\* A write of the worker is a step of TaskService or a stutter.
LEMMA WriteImplements ==
  ASSUME NEW t \in AllTasks, NEW s \in Written,
         status \in [AllTasks -> TaskStatuses \union {Absent}],
         status[t] \in Written \union {"queued"},
         MayUpdate(status[t], s),
         status' = [status EXCEPT ![t] = s],
         UNCHANGED executions
  PROVE  [Service!Next]_(Service!vars)
  BY WriteMovesPhase
  DEF Phase, Service!Next, Service!Permit, Service!Close, Service!Move,
      Service!vars

\* While no API thread writes, the worker implements TaskService: through
\* crashes, exceptions and stale snapshots a task goes one way and is handed
\* over at most once, while its row says authorized.
THEOREM WorkerImplementsService ==
  ASSUME ApiThreads = {}
  PROVE  Spec => ImplementsTaskService
  <1>1. Init => Service!Init
    BY DEF Init, Service!Init, PhaseOf, Absent
  <1>2. Init => SoleWriterRows /\ CheckStillHolds
    BY DEF Init, SoleWriterRows, CheckStillHolds
  <1>3. ASSUME IInv, CheckStillHolds, SoleWriterRows, [Next]_vars
        PROVE  [Service!Next]_(Service!vars)
    <2> USE <1>3 DEF IInv, Typed, HoldsTask, TypeOK, RowDiscipline,
                CheckStillHolds, RestPcs, Absent
    <2>1. ASSUME NEW t \in Tasks, Admit(t)
          PROVE  Service!Submit(t)
      <3>1. t \in AllTasks /\ status[t] = "absent"
        BY <2>1 DEF Admit, AllTasks
      <3>2. Phase[t] = "unknown"
        BY <3>1 DEF Phase, PhaseOf
      <3>3. Phase' = [Phase EXCEPT ![t] = PhaseOf("queued")]
        BY <2>1, <3>1 DEF Admit, Phase
      <3>4. PhaseOf("queued") = "waiting"
        BY DEF PhaseOf
      <3>5. UNCHANGED executions
        BY <2>1 DEF Admit, obsVars
      <3> QED
        BY <3>2, <3>3, <3>4, <3>5 DEF Phase, Service!Submit, Service!Move
    <2>2. CASE Update
      BY <2>2, WriteImplements DEF Update, obsVars
    <2>3. CASE BreachUpdate
      BY <2>3, WriteImplements DEF BreachUpdate, obsVars, Written
    <2>4. CASE FailUpdate
      BY <2>4, WriteImplements DEF FailUpdate, obsVars, Written
    <2>5. CASE DispatchNode /\ executions' # executions
      <3>1. /\ pc = "dispatch" /\ cur \in AllTasks
            /\ executions' = [executions EXCEPT ![cur] = @ + 1]
            /\ UNCHANGED status
        BY <2>5 DEF DispatchNode, ReplayOutcome, HandOver, ToSandbox, ToLlm,
                    ToCommunication, ToSpecialist, obsVars, rowVars
      <3>2. executions[cur] = 0 /\ status[cur] = "authorized"
        BY <3>1 DEF HandOverDiscipline, BeforeHandOver, SoleWriterRows
      <3>3. Service!HandOver(cur)
        BY <3>1, <3>2 DEF Service!HandOver, PhaseOf
      <3> QED
        BY <3>1, <3>3 DEF Service!Next
    <2>6. CASE UNCHANGED <<status, executions>>
      BY <2>6 DEF Service!vars
    <2> QED
      BY <2>1, <2>2, <2>3, <2>4, <2>5, <2>6
      DEF AllTasks, Service!Next, Next, WorkerStep, vars, rowVars, obsVars,
          Poll, StartTask, EndGraph, PolicyNode, NoObligations,
          ObligationNode, RequireOwnerApproval, ReserveBudget,
          UnknownObligation, ObligationBlock, ObligationsSatisfied,
          DispatchNode, Mark, RecordOutcome, LoopCapBreach, BreachRead,
          FailRead, NodeRaises, WorkerCrash, WorkerRestart
  <1> QED
    BY <1>1, <1>2, <1>3, StepCheck, StepSoleWriterRows, Invariant, PTL
    DEF Spec, ImplementsTaskService, Service!Spec

-----------------------------------------------------------------------------
(* Every graph run ends *)

\* The most steps a graph run takes from place p, with the reservation of the
\* budget still to make or not: each node goes forward only, and each raise
\* goes to a handler of two steps.
StepsFrom(p, reserve) ==
  CASE p = "policy"                       -> 12
    [] p = "obligation"                   -> 10
    [] p = "apply" /\ reserve             -> 9
    [] p = "apply" /\ ~reserve            -> 8
    [] p = "dispatch"                     -> 7
    [] p = "mark"                         -> 6
    [] p = "oblBlock"                     -> 5
    [] p = "marked"                       -> 4
    [] p = "ended"                        -> 3
    [] p \in {"breach", "fail"}           -> 2
    [] OTHER                              -> 1

\* The steps left of the run in progress: an update goes on at cont.
StepsLeft ==
  IF pc = "update" THEN 1 + StepsFrom(cont, "reserve_budget" \in todo)
                   ELSE StepsFrom(pc, "reserve_budget" \in todo)

\* What one line of the polling loop can do inside process_task: a step of the
\* graph or of a handler, or the raise of a call.
RunStep == WorkerStep \/ NodeRaises

\* How a graph run leaves the row of its task: in a status that ends it, or
\* still authorized when the second policy evaluation raised.
LeavesRow(s, d) == s \in Settled \/ (s = "authorized" /\ d = "error")

\* Inside a graph run the worker goes on with the same task and fewer steps
\* left, or is back in its loop with the row settled; everything else that
\* happens meanwhile, the end of the process apart, leaves the run alone.
GraphRunAdvances ==
  pc \notin RestPcs =>
    /\ RunStep => \/ cur' = cur /\ pc' \notin RestPcs /\ StepsLeft' < StepsLeft
                  \/ pc' = "idle" /\ LeavesRow(status'[cur], lastDecision'[cur])
    /\ ~RunStep => pc' = "down" \/ UNCHANGED <<pc, cur, cont, todo>>

\* No row that has left queued comes back to where a poll finds it.
NotQueuedAgain ==
  \A t \in AllTasks :
    status[t] \notin {"queued", Absent} => status'[t] # "queued"

\* Past the last write of a graph the row is settled, and what the memo of
\* outcomes holds is settled, so that its replay in the dispatch node never
\* ends a run over a row that is not.
ClosingDiscipline ==
  /\ pc = "mark" \/ (pc = "update" /\ cont # "obligation") => to \in Settled
  /\ pc = "marked" => status[cur] \in Settled
  /\ pc = "ended" => LeavesRow(status[cur], lastDecision[cur])
  /\ \A t \in taskOutcomes :
       /\ status[t] \in Settled
       /\ t \notin batch
       /\ ~(BeforeHandOver /\ cur = t)

\* Steps keep the discipline of the closing writes.
LEMMA StepClosing ==
  IInv /\ ClosingDiscipline /\ [Next]_vars => ClosingDiscipline'
  <1> SUFFICES ASSUME IInv, ClosingDiscipline, [Next]_vars
               PROVE  ClosingDiscipline'
    OBVIOUS
  <1> USE DEF IInv, Typed, HoldsTask, TypeOK, RowDiscipline, Started, Written,
              ClosingDiscipline, BeforeHandOver, LeavesRow, Settled, RestPcs,
              rowVars, graphVars, memoVars, apiVars, obsVars, Absent
  <1>1. ASSUME NEW t \in Tasks, Admit(t) PROVE ClosingDiscipline'
    BY <1>1 DEF Admit, AllTasks
  <1>2. CASE Poll
    BY <1>2 DEF Poll, Queued
  <1>3. CASE StartTask
    BY <1>3 DEF StartTask
  <1>4. CASE EndGraph
    BY <1>4 DEF EndGraph
  <1>5. CASE Update
    BY <1>5 DEF Update
  <1>6. CASE PolicyNode
    BY <1>6 DEF PolicyNode, StartUpdate
  <1>7. CASE NoObligations
    BY <1>7 DEF NoObligations
  <1>8. CASE ObligationNode
    <2>1. PICK d \in Decisions :
            /\ lastDecision' = [lastDecision EXCEPT ![cur] = d]
            /\ pc' = "apply" \/ (pc' = "ended" /\ d = "error")
      BY <1>8 DEF ObligationNode
    <2>2. pc' = "ended" => LeavesRow(status'[cur'], lastDecision'[cur'])
      BY <1>8, <2>1 DEF ObligationNode
    <2> QED
      BY <1>8, <2>1, <2>2 DEF ObligationNode
  <1>9. CASE RequireOwnerApproval
    BY <1>9 DEF RequireOwnerApproval, StartUpdate
  <1>10. CASE ReserveBudget
    BY <1>10 DEF ReserveBudget
  <1>11. CASE UnknownObligation
    BY <1>11 DEF UnknownObligation
  <1>12. CASE ObligationBlock
    BY <1>12 DEF ObligationBlock, StartUpdate
  <1>13. CASE ObligationsSatisfied
    BY <1>13 DEF ObligationsSatisfied
  <1>14. CASE DispatchNode
    <2>1. cur \notin taskOutcomes
      BY <1>14 DEF DispatchNode
    <2>2. /\ pc' \in {"mark", "fail"} /\ (pc' = "mark" => to' \in Settled)
          /\ UNCHANGED <<status, batch, cur, taskOutcomes>>
      BY <1>14, <2>1 DEF DispatchNode, ReplayOutcome, HandOver, ToSandbox,
                         ToLlm, ToCommunication, ToSpecialist
    <2> QED
      BY <2>2
  <1>15. CASE Mark
    BY <1>15 DEF Mark, StartUpdate
  <1>16. CASE RecordOutcome
    BY <1>16 DEF RecordOutcome
  <1>17. CASE LoopCapBreach
    BY <1>17 DEF LoopCapBreach
  <1>18. CASE BreachRead
    BY <1>18 DEF BreachRead
  <1>19. CASE BreachUpdate
    BY <1>19 DEF BreachUpdate
  <1>20. CASE FailRead
    BY <1>20 DEF FailRead
  <1>21. CASE FailUpdate
    BY <1>21 DEF FailUpdate
  <1>22. CASE NodeRaises
    BY <1>22 DEF NodeRaises, GraphPcs
  <1>23. CASE WorkerCrash
    BY <1>23 DEF WorkerCrash
  <1>24. CASE WorkerRestart
    BY <1>24 DEF WorkerRestart
  <1>25. ASSUME NEW a \in ApiThreads, PmCreate(a) PROVE ClosingDiscipline'
    BY <1>25 DEF PmCreate, AllTasks
  <1>26. ASSUME NEW a \in ApiThreads,
                \/ PmExecute(a) \/ ApiRead(a) \/ PauseTask(a) \/ ApiAbort(a)
                \/ DeliveryCallback(a)
         PROVE  ClosingDiscipline'
    BY <1>26 DEF PmExecute, ApiRead, PauseTask, ApiAbort, DeliveryCallback
  <1>27. ASSUME NEW a \in ApiThreads, ApiWrite(a) PROVE ClosingDiscipline'
    BY <1>27 DEF ApiWrite
  <1>28. CASE UNCHANGED vars
    BY <1>28 DEF vars
  <1> QED
    BY <1>1, <1>2, <1>3, <1>4, <1>5, <1>6, <1>7, <1>8, <1>9, <1>10, <1>11,
       <1>12, <1>13, <1>14, <1>15, <1>16, <1>17, <1>18, <1>19, <1>20, <1>21,
       <1>22, <1>23, <1>24, <1>25, <1>26, <1>27, <1>28
    DEF Next, WorkerStep, ApiStep

\* A run in progress has between one and twelve steps left.
LEMMA StepsAreBounded == IInv /\ pc \notin RestPcs => StepsLeft \in 1..12
  BY DEF IInv, RowDiscipline, StepsLeft, StepsFrom

\* A step of the nodes or of a raise brings the run nearer to its end.
LEMMA NodeAdvances ==
  ASSUME IInv, pc \notin RestPcs,
         \/ Update \/ PolicyNode \/ NoObligations \/ ObligationNode
         \/ RequireOwnerApproval \/ ReserveBudget \/ UnknownObligation
         \/ ObligationBlock \/ ObligationsSatisfied \/ DispatchNode \/ Mark
         \/ RecordOutcome \/ LoopCapBreach \/ BreachRead \/ FailRead
         \/ NodeRaises
  PROVE  cur' = cur /\ pc' \notin RestPcs /\ StepsLeft' < StepsLeft
  <1> USE DEF StepsLeft, StepsFrom, RestPcs, graphVars
  <1>1. CASE Update
    <2>1. cont \in {"obligation", "oblBlock", "marked", "ended"}
      BY <1>1 DEF Update, IInv, RowDiscipline
    <2> QED
      BY <1>1, <2>1 DEF Update
  <1>2. CASE PolicyNode
    BY <1>2 DEF PolicyNode, StartUpdate
  <1>3. CASE NoObligations
    BY <1>3 DEF NoObligations
  <1>4. CASE ObligationNode
    <2>1. pc = "obligation" /\ cur' = cur /\ pc' \in {"apply", "ended"}
      BY <1>4 DEF ObligationNode
    <2> QED
      BY <2>1
  <1>5. CASE RequireOwnerApproval
    BY <1>5 DEF RequireOwnerApproval, StartUpdate
  <1>6. CASE ReserveBudget
    <2>1. /\ pc = "apply" /\ "reserve_budget" \in todo /\ cur' = cur
          /\ \/ pc' = "apply" /\ "reserve_budget" \notin todo'
             \/ pc' = "oblBlock"
      BY <1>6 DEF ReserveBudget, NextObligation
    <2> QED
      BY <2>1
  <1>7. CASE UnknownObligation \/ ObligationsSatisfied
    BY <1>7 DEF UnknownObligation, ObligationsSatisfied
  <1>8. CASE ObligationBlock
    BY <1>8 DEF ObligationBlock, StartUpdate
  <1>9. CASE DispatchNode
    <2>1. /\ pc = "dispatch" /\ cur' = cur
          /\ pc' \in {"mark", "fail", "ended"}
      BY <1>9 DEF DispatchNode, ReplayOutcome, HandOver, ToSandbox, ToLlm,
                  ToCommunication, ToSpecialist
    <2> QED
      BY <2>1
  <1>10. CASE Mark
    BY <1>10 DEF Mark, StartUpdate
  <1>11. CASE RecordOutcome
    BY <1>11 DEF RecordOutcome
  <1>12. CASE LoopCapBreach
    BY <1>12 DEF LoopCapBreach
  <1>13. CASE BreachRead
    <2>1. MayUpdate(status[cur], "blocked")
      BY <1>13, HandlerWritesAreLegal
      DEF BreachRead, IInv, Typed, HoldsTask, RowDiscipline
    <2> QED
      BY <1>13, <2>1 DEF BreachRead
  <1>14. CASE FailRead
    <2>1. MayUpdate(status[cur], "failed")
      BY <1>14, HandlerWritesAreLegal
      DEF FailRead, IInv, Typed, HoldsTask, RowDiscipline
    <2> QED
      BY <1>14, <2>1 DEF FailRead
  <1>15. CASE NodeRaises
    <2>1. pc = "update" => cont \in {"obligation", "oblBlock", "marked",
                                     "ended"}
      BY DEF IInv, RowDiscipline
    <2> QED
      BY <1>15, <2>1 DEF NodeRaises, GraphPcs
  <1> QED
    BY <1>1, <1>2, <1>3, <1>4, <1>5, <1>6, <1>7, <1>8, <1>9, <1>10, <1>11,
       <1>12, <1>13, <1>14, <1>15

\* The three steps that end a run leave its row settled, but for the error of
\* the second evaluation.
LEMMA EndLeavesRow ==
  ASSUME IInv, ClosingDiscipline, pc \notin RestPcs,
         EndGraph \/ BreachUpdate \/ FailUpdate
  PROVE  pc' = "idle" /\ LeavesRow(status'[cur], lastDecision'[cur])
  <1> USE DEF IInv, Typed, HoldsTask, TypeOK, LeavesRow
  <1>1. CASE EndGraph
    BY <1>1 DEF EndGraph, ClosingDiscipline, rowVars, obsVars
  <1>2. CASE BreachUpdate \/ FailUpdate
    BY <1>2 DEF BreachUpdate, FailUpdate, Settled
  <1> QED
    BY <1>1, <1>2

\* What is no step of the run leaves it alone or ends the process.
LEMMA OthersLeaveRun ==
  ASSUME Next, ~RunStep, pc \notin RestPcs
  PROVE  pc' = "down" \/ UNCHANGED <<pc, cur, cont, todo>>
  <1>1. \/ \E t \in Tasks : Admit(t)
        \/ WorkerCrash \/ WorkerRestart
        \/ \E a \in ApiThreads : ApiStep(a)
    BY DEF Next, RunStep
  <1>2. CASE \E t \in Tasks : Admit(t)
    BY <1>2 DEF Admit, graphVars
  <1>3. CASE WorkerCrash \/ WorkerRestart
    BY <1>3 DEF WorkerCrash, WorkerRestart, RestPcs
  <1>4. CASE \E a \in ApiThreads : ApiStep(a)
    BY <1>4 DEF ApiStep, PmCreate, PmExecute, PauseTask, DeliveryCallback,
                ApiRead, ApiWrite, ApiAbort, graphVars
  <1> QED
    BY <1>1, <1>2, <1>3, <1>4

\* Nobody writes queued into a row that exists.
LEMMA NobodyRequeues == IInv /\ [Next]_vars => NotQueuedAgain
  <1> SUFFICES ASSUME IInv, [Next]_vars, NEW t \in AllTasks,
                      status[t] \notin {"queued", Absent}
               PROVE  status'[t] # "queued"
    BY DEF NotQueuedAgain
  <1> USE DEF IInv, Typed, HoldsTask, TypeOK
  <1>1. ASSUME NEW u \in Tasks, Admit(u) PROVE status'[t] # "queued"
    BY <1>1 DEF Admit
  <1>2. CASE Update
    BY <1>2 DEF Update, RowDiscipline, Written
  <1>3. CASE BreachUpdate \/ FailUpdate
    BY <1>3 DEF BreachUpdate, FailUpdate
  <1>4. ASSUME NEW a \in ApiThreads, PmCreate(a) PROVE status'[t] # "queued"
    BY <1>4 DEF PmCreate
  <1>5. ASSUME NEW a \in ApiThreads, ApiWrite(a) PROVE status'[t] # "queued"
    BY <1>5 DEF ApiWrite, RowDiscipline
  <1>6. CASE UNCHANGED status
    BY <1>6
  <1> QED
    BY <1>1, <1>2, <1>3, <1>4, <1>5, <1>6
    DEF Next, WorkerStep, ApiStep, vars, rowVars, Poll, StartTask, EndGraph,
        PolicyNode, NoObligations, ObligationNode, RequireOwnerApproval,
        ReserveBudget, UnknownObligation, ObligationBlock,
        ObligationsSatisfied, DispatchNode, Mark, RecordOutcome,
        LoopCapBreach, BreachRead, FailRead, NodeRaises, WorkerCrash,
        WorkerRestart, PmExecute, ApiRead, PauseTask, DeliveryCallback,
        ApiAbort

\* Every graph run of the worker is over after at most twelve of its steps,
\* whatever policy runtime, adapters and API threads do meanwhile, and leaves
\* its row in a status that ends it (authorized only when the second policy
\* evaluation raised), where no later poll takes it up again.
THEOREM GraphRunsEnd ==
  Spec => /\ [](pc \notin RestPcs => StepsLeft \in 1..12)
          /\ [][GraphRunAdvances /\ NotQueuedAgain]_vars
  <1>1. Init => ClosingDiscipline
    BY DEF Init, ClosingDiscipline
  <1>2. IInv => (pc \notin RestPcs => StepsLeft \in 1..12)
    BY StepsAreBounded
  <1>3. ASSUME IInv, ClosingDiscipline, Next PROVE GraphRunAdvances
    <2> SUFFICES ASSUME pc \notin RestPcs
                 PROVE  /\ RunStep =>
                             \/ /\ cur' = cur /\ pc' \notin RestPcs
                                /\ StepsLeft' < StepsLeft
                             \/ /\ pc' = "idle"
                                /\ LeavesRow(status'[cur], lastDecision'[cur])
                        /\ ~RunStep =>
                             pc' = "down" \/ UNCHANGED <<pc, cur, cont, todo>>
      BY DEF GraphRunAdvances
    <2>1. ~Poll /\ ~StartTask
      BY DEF Poll, StartTask, RestPcs
    <2> QED
      BY <1>3, <2>1, NodeAdvances, EndLeavesRow, OthersLeaveRun
      DEF RunStep, WorkerStep
  <1>4. IInv /\ ClosingDiscipline /\ [Next]_vars
          => [GraphRunAdvances /\ NotQueuedAgain]_vars
    BY <1>3, NobodyRequeues
  <1> QED
    BY <1>1, <1>2, <1>4, StepClosing, Invariant, PTL DEF Spec

=============================================================================
