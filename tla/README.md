# OpenQilin in TLA+

Specifications of the control core of OpenQilin (`src/src/openqilin`), the runs
of TLC that check them on small instances, and theorems that TLAPS proves for
every instance. Paths below are relative to `src/src/openqilin` unless they
start with `src/`.

## 1. The system

OpenQilin is a governed multi-agent runtime. An **API process** (FastAPI, plain
`def` endpoints run by a thread pool) admits owner commands and runs the
project-governance endpoints and the agents; a **worker process**
(`apps/orchestrator_worker.py`) polls the tasks table and drives each queued
task through policy, obligations and dispatch. They share PostgreSQL and nothing
else: every memo, claim and cache is per process. Every repository method opens
its own session, so a read and the write that depends on it are two
transactions, and no UPDATE is conditional on what was read.

| Component | State it keeps | Operations | Talks to | What is hard | What makes it correct |
| --- | --- | --- | --- | --- | --- |
| Task worker (`apps/orchestrator_worker.py`, `task_orchestrator/workflow`) | position in the graph, snapshot of the poll, loop counters | poll, three nodes, two exception handlers | tasks table, policy, budget, adapters | end of the process between two steps, stale snapshot, a second policy evaluation | at most one hand-over per task, never unauthorized, every task settles |
| Task store and guard (`task_repository.py`, `transition_guard.py`) | `tasks` rows | insert, list, update status | worker, API threads | check and write in two transactions | status changes are legal |
| Dispatch service (`task_service.py`) | `_task_outcomes` memo | dispatch to four targets, specialist sub-tasks | adapters, lifecycle service | memo lost at restart and not shared | replay-safe |
| Policy integration (`policy_runtime_integration`) | none | evaluate fail-closed, apply obligations in order | OPA | errors, decisions that change | fail closed |
| Budget runtime (`budget_runtime`) | allocations, reservations, memo | reserve, settle, release | PostgreSQL row lock | limit, retries, settlement, release | reservations within allocation |
| Admission (`task_orchestrator/admission`, `control_plane/idempotency`) | claims in memory | claim, insert, bind, replay; recovery at startup | tasks table | racing threads, failing insert, restart | acknowledged commands are stored, one task per key |
| Project governance (`control_plane/handlers`, `project_repository.py`) | project document, charter file | twelve endpoints | Project spaces | whole-document lost updates, half-done requests | evidence, history, one approval per role |
| Project spaces (`project_spaces`) | binding rows, Discord channels | create, archive, lock, resolve | Discord, governance endpoints | three stores without a transaction | closed channels do not route |
| Communication gateway (`communication_gateway`, `communication_dispatch.py`) | streams seen, idempotency records, message ledger, dead letters | validate order, claim, send, retry, write a dead letter | ACP transport | one key in two tasks, an exception between claim and completion, the last attempt | a key is sent again only after a retryable nack; accepted means acknowledged; exhausted means one dead letter |
| Delivery callbacks (`task_orchestrator/callbacks`) | processed ids | apply event | tasks table | repeated and late events racing the worker | the worker's guarantees hold whatever events come |
| Ingress (`control_plane/routers/discord_ingress.py`, `owner_commands.py`, `control_plane/grammar`, `control_plane/identity`) | identity table, intent cache | route a message, resolve the principal, claim a mapping, govern chat and project | agents, admission, operators | six ways to an answer, two reads of the identity table, a cached intent | nothing is answered unsigned or admitted unauthorized; a revocation holds |
| Governance artifacts (`governance_artifact_repository.py`, `artifact_file_store.py`) | revision rows, files | write with caps and authorization, read | agents, tools | count, file and row in three steps | caps hold; file and row agree |
| Executive agents, auditor, administrator, project manager (`agents`) | records in the artifact store, workforce registry | review, decide, co-approve, initialize, find, escalate, quarantine | artifact store, task rows | gates read in several transactions, records that fail quietly | gates keep their order, conflicts end, co-approvals have an origin |
| Write tools (`execution_sandbox/tools/write_tools.py`) | memo of results | governed writes, replay | artifact store, project documents | repetition after success, denial or an error, overlapping calls | a remembered result is what the calls did |
| LLM gateway and dispatch (`llm_gateway`, `llm_dispatch.py`) | none; the budget ledger | guard, ground, complete with retries and fallback, settle, check citations | providers, ledger, conversation store | failures after the provider was paid | ledger follows served calls; nothing ungrounded is remembered |
| Conversation store (`conversation_store.py`) | turns, windows, summaries, embeddings | append, list, close a window | agents, secretary, worker | overlapping and failing appends, a thread per embedding | windows partition the conversation |
| Redis cache, observability, Discord bot, CLI, release readiness, domain leader | logs | append, read | - | - | - |

`PROJECT.json` lists every component with its status, and the hazards of the
code at the lines where they bite.

## 2. Modules

| Module | Models | Notes |
| --- | --- | --- |
| `TaskStatus`, `ProjectStatus` | the two lifecycle tables | shared |
| `TaskService` | what the task path promises of each task | abstract |
| `TaskOrchestrator` | worker, graph, obligations, budget, dispatch, and the API threads that write the same rows | core; implements `TaskService` |
| `Ingress` | the routers in front of admission, identity table, intent cache | ends where `Admission` begins |
| `Admission` | claims, rows, replays, restart and recovery | uses `TaskStatus` |
| `ProjectGovernance` | one project document and its charter file under the twelve endpoints | projects share no state |
| `ProjectSpaces` | Discord channels and bindings, composed with `ProjectGovernance` | its `after` step is where the endpoint calls the binding service |
| `GovernanceRecords` | artifact store, the agents that write to it, the write tools | |
| `Conversations` | free-text handlers, LLM dispatch, gateway, conversation store, settlement | the dispatch behind the answer "llm" of `TaskOrchestrator` |
| `MessageDelivery` | the communication gateway behind its dispatch adapter | memory of one process, one call at a time |
| `*Proofs` | theorems and proofs, one module for each of the eight above that has state, see section 4 | extend their module and `TLAPS` |
| `MC*` | constants, model values and symmetry for TLC | |

**Granularity.** One action is the code between two points where another thread
or process can act: a transaction, a call to OPA, an adapter, Discord. So
`update_task_status` is a checked read (`StartUpdate`, `FailRead`, `BreachRead`,
`ApiRead`, `PauseTask`) followed by a write (`Update`, `FailUpdate`,
`BreachUpdate`, `ApiWrite`); a project method is `Read`, which leaves the
changed copy of the document, and `Write`, which upserts it; `IngressDedupeStore.claim`
is `Begin` (the look-up) and `Claim` (the assignment).

**TaskOrchestrator.** `status`, `target` and `reservation` are the shared rows,
the next group of variables is the memory of the worker (lost in `WorkerCrash`),
`apc`, `acur`, `ato` are the API threads. `executions`, `apiExecutions`,
`gateDecision`, `lastDecision` and `applied` are observations that no action
reads. Policy answers are any of five on each call: OPA is outside. The token
estimate of a reservation is a constant of the code, so the allocation is counted
in reservations. `NodeRaises` is any exception inside the graph; `WorkerCrash`
is the end of the process anywhere. `pause_task` and `dispatch_to_specialist`
are public operations of the auditor and project-manager agents, and
`DeliveryCallback` is the callback processor `build_runtime_services`
wires; no router calls any of them today, and the runs that need them say so by
having API threads. A callback may come at any time after the communication
adapter was called, with any outcome, and any number of times: the processor's
set of seen ids only removes repetitions of one id.

**TaskService.** `phase` is what the row says (`PhaseOf`: no row, `queued`,
`authorized`, anything else), `handed` the number of hand-overs. The
specification allows one way only: submitted, permitted, handed over at most
once and only while permitted, closed for good. `ImplementsTaskService` is this
specification under the mapping; the observation `executions` is the mapped
`handed`. It is checked where the worker is the only writer of rows: the pauses
and callbacks of the API reopen and rewrite rows (section 5).

**Ingress.** A message is a record of what the routers branch on (which
connector, addressed agent, keyword hits, signature valid or not, well formed or
not); text is not modelled. `mapping` and `recency` are the identity table with
its order of update (a number per key, so that "the newest mapping of an actor"
is a set with at most one member and not a choice), `cache` the classifier's memory. Operators change mappings,
projects change status and the cache expires between any two steps. What an
agent answers is left out; that it answers, and which, is `by`.

**GovernanceRecords.** A request is a plan, the list of its reads, gates and
writes; a step takes the head of the plan, a gate that refuses drops the rest.
`rows[p][ty]` is the sequence of revisions of a type, and a write is count, file,
row. A document is what later gates can tell apart. The answer of a language
model is its outcome, chosen by the request. `call_tool` remembers its result at
its end (`Finish`); the budget runtime and the audit writer are called outside of
its `try`, and where they raise (`BudgetRaises`, `AuditRaises`) nothing is
remembered, in the second case with the row already written. An audit row that
fails between two writes of an agent ends the request like a failing store.
`log` and `effects` (the rows of a key, and whether calls with it overlapped or
were cut off after their row) are observations. A situation (`Cases`) brings the table of what was written before and
the list it came from; `CaseOK` says that the two agree. The newest review of a
proposal is a set with at most one member (`NewestReview`), as there may be none.

**Conversations.** One request per exchange; a channel is a scope. An exchange is
two rows of one INSERT with one `created_at` (so the order of question and answer
in a prompt is a tie of the database's choice, which the model does not tell
apart); sizes are therefore counted in exchanges. `created_at` is taken in
`Stamp`, before the transaction of `Insert`; `Count` is the SELECT after the
commit; `Tag`, `Fetch`, `StoreSummary` are the transactions of `_close_window`;
`Embed` is the daemon thread. `Tag` is one step; of two UPDATEs that really
overlap the second would tag no row instead of the next ones, in a channel of
which only the disjointness of summaries is claimed by then. A provider answers with any of five outcomes per
POST. `build_runtime_services` constructs the store without `summarize_fn` and
without an embedding service, so today windows are tagged and never summarised.
`case.summarises` is the option of the class: the situations have both, and what
is claimed with summaries is a property of `PostgresConversationStore`, not of
the program as it is wired (`WarmSummariesAreLoaded`, section 5); `clear`, `find_relevant_windows`,
`fetch_channel_summary` and the in-memory `LocalConversationStore` are reached by
no wiring and left out. Unknown to the properties: with the Gemini backend only
the aliases of `dev_gemini_free` are mapped, so the profiles `prod_controlled`
and `dev_deepseek` are denied before any request (`Unusable`); and a usage row
names the task's project although its reservation fell back to
`project-default`.

**Admission.** A claim key stands for (principal, idempotency key), a hash for
`_payload_hash`, a scope for the target and project the hash leaves out.
Recovery is the loop of `build_runtime_services` over active rows.

**ProjectGovernance.** Each method of `PostgresProjectRepository` is an operator
from the document it reads to the set of documents it may upsert: empty when it
raises or returns early. Each endpoint is an action that starts a request;
checks of role and headers happen before it and refuse without effect. `Abort`
is a database error or the end of the process between any two transactions.

**ProjectSpaces.** The binding service runs after the document is written, its
failures are logged only (`SpaceFinish` from anywhere), Discord and the binding
row are separate steps.

**MessageDelivery.** `LocalCommunicationDispatchAdapter.dispatch` is `Refuse` or
`Dispatch` (validator and claim), then `BeginAttempt` and one of `Acked`,
`Nacked`, `SendRaises` per attempt, then `WriteDeadLetter` when retries are
exhausted. The ledger is the history of what went to the transport; the
intermediate state `sent` is folded into the answer, since no step lies between.
Messages have valid envelopes (an invalid one is refused before any state) and
share connector, principal and project, so a stream is a target; the resolver
knows every connector the envelope check lets through. The replay branch of
`claim` cannot be reached behind the adapter: an equal payload has an equal
stream and message id, and the ordering validator refuses it first. The records
do not outlive the process; that a message is not handed over again after a
restart rests on the task rows (`WorkerExecutesOnce`).

## 3. Runs

Passing runs:

| Run | Question | Bounds |
| --- | --- | --- |
| `TaskWorkerCrash` | is a task handed over at most once, authorized, with its obligations met and within budget, when the worker may end anywhere, and does the worker implement `TaskService`? | 2 tasks, 1 crash, budget 1, every decision and obligation kind |
| `TaskLiveness` | does every admitted task come to rest, and does no exception handler of the worker ever raise, against an API thread that pauses tasks, runs sub-tasks and applies delivery callbacks on the same rows, and with the pair cap breached? (That no handler raises, and the safety properties of `TaskWorkerCrash`, are proved for any API threads, crashes and caps, section 4.) | 1 task, 1 sub-task, 1 thread, no crash, all answers but a failing policy call; the pair cap is lowered to 0, since the default 2 cannot be breached (each graph run starts with a fresh `LoopState`) |
| `AdmissionConcurrent` | is every acknowledged command stored, when threads race, inserts fail and the process restarts? | 2 threads, 1 key, 2 payloads, 1 restart, 3 rows |
| `ProjectTwoActors` | is one approval per role stored when two actors race? | 2 threads, 2 actors, the endpoints from creation to completion |
| `SpacesSerial` | one request at a time, each of which may stop half way: legal status changes, no lost evidence, no approval without the triad, spaces only for activated projects | all endpoints, 5 transitions, 2 channels |
| `SpacesConcurrent` | do evidence and history survive lost updates, and may a channel that looks closed still route? | 2 threads, the endpoints from creation to the end of a project |
| `IngressRequests` | is anything answered unsigned, admitted unauthorized or into a closed project, brought back after a revocation, or admitted as a mutation from free text? | one message per way through the routers (21) against a competing one, 2 changes of mappings, status or cache around them |
| `RecordsConcurrent` | do caps, gates, co-approvals and tool results hold when two agents work on the same records, and two tool calls on the same key? | 20 situations: two threads with one or two requests each, a stage of earlier records, at most one status change and one failure or restart; caps 1 to 3 |
| `ConversationsShared` | what do prompts, windows, ledger and answers look like when threads share a channel and everything may fail? | 18 situations of up to 3 requests after up to 3 exchanges, windows and prompts of 2 exchanges, 2 aliases with 1 retry, at most 2 failures |
| `DeliveryGateway` | what reaches the transport, how often and in which order, and do ledger, records, dead letters and answers agree? | 4 messages over 2 keys and 2 streams, 4 calls in any order, 3 attempts (the default of the scheduler) |

The bounds are enough in this sense: two writers suffice for every lost update,
since a write depends on one read only; one crash suffices for at-most-once,
since nothing a crash leaves behind counts crashes, and the theorems of section 4
remove the bounds for the safety properties; five transitions take a project
from proposed to archived with one detour. The situations of `RecordsConcurrent`
and `ConversationsShared` put together the requests that read or write the same
records; requests on different records do not see each other. Windows and prompts
of two exchanges make the second window, a full prompt and a row outside of it
happen after three exchanges, what 20, 20 and 41 would need with the sizes of the
code. Task ids and threads are symmetric
sets where no fairness is involved. Deadlock is checked wherever the cfg does
not switch it off; it is switched off where a run may end because all
requests, crashes or tasks of the bound are used up.

**Fairness.** `FairSpec` assumes weak fairness of `WorkerStep` and nothing else:
the loop of `main` sleeps, polls and calls, never waits for another actor, and
every call in it returns or raises (clients have timeouts). Exceptions
(`NodeRaises`), crashes, restarts, admissions and API requests are never assumed
to happen. With a crash between two steps a row may stay authorized, so
`TaskLiveness` has none; section 5 names the other way it is lost.

Two runs show disagreements between code and documents (quoted under
`findings`). `FindLatestDecision`: the obligation node evaluates the policy
again, and a deny there counts as "no obligations", so the task is dispatched.
`FindViolationUnreported`: the escalation of a recorded violation fails, the
repeated report is taken for a duplicate, and the owner is never told. Section 5
lists the others.

Every property of a passing run has a mutant: a small change of one definition
that a slip in the code could make, under which TLC finds the property violated.
The runs of TaskOrchestrator and ProjectGovernance also check the type
invariants; those of the other modules (`TypeOK`, `SpaceTypeOK`) are proved, and
can be added to their runs.

## 4. Proofs

The theorems hold for all values of the constants that meet the named
assumptions of their module: any number of threads, requests, messages, tasks,
projects and faults, with none of the bounds of section 3. Every safety property
of a passing run has one. Each inductive invariant was first checked by TLC under
the cfg of the run, then proved.

**TaskOrchestratorProofs** (`TasksAssumption`, `InputsAssumption`,
`LimitsAssumption`, `NoTaskAssumption`): `TypeCorrect`, `ExecutesOnce`,
`ExecutesAuthorized`, `WorkerSurvives`, `ObligationsBind`, `AllocationHolds`,
`GraphRunsEnd`; under `ApiThreads = {}` also `SoleWriterIsLegal` and `WorkerImplementsService`.

- `IInv` is typing with the fact that the worker holds a task exactly while it is
  in a graph or handler; `RowDiscipline`, what the row of a task can say at each
  place of the worker, whoever else writes: in particular a task that was handed
  over is never `queued` again, since no writer of the system requeues; and
  `HandOverDiscipline`, that a task the worker can still hand over has not been
  handed over and that the decision its graph carries is the one of its policy
  node. At-most-once is not inductive without the second part: the memo dies
  with the process, so the argument must go through the rows.
- `ObligationDiscipline` adds what has been applied so far; `CheckStillHolds`
  says that, without other writers, a check made is still true at the write.
- `WorkerImplementsService` maps each step to `Submit`, `Permit`, `HandOver`,
  `Close` of `TaskService` or to a stutter. Only rows move the abstract phase, so
  the steps in memory stutter; the others need `RowDiscipline` for the phase
  before the step and `CheckStillHolds` for the write after a checked read.
- `GraphRunsEnd` is the part of `EveryTaskSettles` that needs no fairness, with
  any API writers, decisions and targets. `StepsLeft` counts the steps a graph
  run can still take and every step of the worker in a run, a raise included,
  lowers it (`GraphRunAdvances`), so a run is over after twelve steps. The row is
  settled then (`ClosingDiscipline`), unless the second policy evaluation raised,
  which leaves it `authorized` (section 5), and `NotQueuedAgain` says that no
  later poll takes it up. What is left to fairness is that the worker takes its
  steps, and to TLC that the row stays settled.

**AdmissionProofs**: `AdmissionTypes`, `AcknowledgedStaysStored`. A claim that is
bound names a row of its key, and rows are never removed; a thread that has
inserted knows the number of its row before it binds.

**ProjectGovernanceProofs** (`ProjectBounds`): `ProjectTypes`,
`CompletionNeedsEvidence`, `HistoryIsConsistent`, `RolesApproveOnce` for any
threads. Concurrent requests lose updates, but what is written is always a whole
document computed from a whole document that was once stored. So a property of
single documents (`Sound`) is an invariant as soon as every method maps sound
documents to sound ones (`ResultIsSound`) and every copy a thread is about to
write is sound (`Ready`). For one request at a time (`OneThread`, the assumption
of these theorems and of the run): `SerialApprovalIsByTriad`,
`SerialStatusIsLegal`, `SerialEvidenceIsKept`; there the copy is the stored
document changed by one method (`SerialReady`, `Follows`), so what is written is
a successor of what is replaced. With two threads they are false (section 5).

**ProjectSpacesProofs**: `SpacesKeepGovernance`, that the composed specification
implements `ProjectGovernance` (each step is one of its steps or leaves its
variables alone), so all theorems above hold of the composition;
`RetiredStayRetired` for any threads, from the fact that the binding row is
updated before Discord is called and each channel has its own row; and, with
`OneThread`, `SerialSpaceIsActivated`.

**MessageDeliveryProofs**: `DeliveryTypes`, `RetriesAreSafe`,
`AcceptedMeansAcked`, `ExhaustionIsRecorded`, `StreamsKeepOrder`,
`ReplayIsUnreachable`. The invariant follows one call through the publisher: the
ledger entries of a key are exactly the attempts its record counts
(`AttemptsAreCounted`, `EntriesAreClaimed`), all but the last were nacked as
retryable, a claimed message was seen by the validator (`ClaimedIsSeen`), and
answers and dead letters follow the ledger except for the call under way. The
last theorem says that the replay branch of `claim` is dead code behind the
ordering validator.

**IngressProofs** (`IngressConstants`): `IngressTypes`, `EveryWayIsSigned`,
`EveryAdmissionIsAuthorized`, `RevocationIsKept`, `FreeTextIsHarmless`. The
invariant says, place by place, what a request behind it has passed
(`SignedSoFar`, `AuthorizedSoFar`, `IntentSoFar`); since operators change the
table meanwhile, what was true while the request ran is collected in `seen`
(`SeenIsCurrent`), and the cache holds no mutation for free text
(`CacheIsClean`).

**GovernanceRecordsProofs** (`RecordConstants` with `CaseOK`): `RecordsTypes`,
`CapsAreKept`, `GatesAreInOrder`, `ConflictsEnd`, `CoapprovalsHaveAnOrigin`,
`ToolsDoWhatTheySay`.

- What a thread has left to do is the rest of its plan (`Follows`), and the steps
  before it have left something in the log (`Met`) or in the request's memory
  (`Judged`) that stays there. `Shaped` is read off the text of the seventeen
  plans: before a decision stand the gates.
- Gates read tables, the properties speak of what was ever written, so
  `TableIsLogged` relates the two; a table may have fewer rows than were written
  (`Overwritten`), and the count of GATE-003 is exact only otherwise. `Numbered`
  makes the documents that are counted distinct.
- `ToolsDoWhatTheySay` has an invariant of its own, `ToolInv`: where a call is in
  its plan says whether its key is looked up and its row written (`Calling`). It
  assumes nothing of the keys and of what fails. Two calls with one key that
  overlap both miss the memo and both write, and a call that raises at its audit
  row leaves a row that is not remembered; `call_tool` guards against neither, so
  of such a key only "ok means at least one row" is left. Of every other key,
  what is remembered or under way accounts for the rows (`Orderly`): there is at
  most one call past the look-up, and the memo is empty as long as it is.
- The proof showed that the run had missed one origin of co-approvals: the
  project manager's writer takes any document type that is not forbidden to it.
  `CoapprovalHasAnOrigin` names it now, and a situation of the run shows it.

**ConversationsProofs** (`BoundsAssumption`, `CasesAssumption`): `LedgerIsExact`,
`MemoryIsGrounded`, `ProviderIsAskedEnough`, `AgentsAnswer`, `PromptsRemember`,
`WindowsPartition`, `LeftOutWasClosed`.

- `Phase` says what the fields of a request hold at each of its places (order of
  steps, ledger, evidence, attempts). For `PromptsRemember`, `created_at` is
  unique (`StampsApart`), an exchange that was over when a question was asked is
  older than everything stamped later, and a prompt was read from rows that are
  still stored (`MemoryInv`).
- `WindowsPartition`: tags are never changed, so in every schedule a summary is
  part of its window (`TagInv`), which makes summaries disjoint. In a channel
  whose appends neither overlapped nor were cut short (`SliceInv`), the row of
  rank k is tagged with k div W, if that window was full when the last append
  passed the tagging (`Sliced`): the only append under way is of the newest row
  (`Serial`), so inserting changes no rank, and when the count is a multiple of
  W exactly the W rows of the last window are without a tag
  (`OpenIsLastWindow`), all of which the sub-select takes.
- `LeftOutWasClosed` assumes that `MaxExchanges` is at least `WindowExchanges`; in
  the code `max_turns` and `window_size` are both 40. A row that `list_turns`
  leaves out has at least a window of newer ones, all but one of which are
  finished, so `Sliced` gives it a tag (`LeftOutIsTagged`); with a smaller
  `max_turns` it might be outside of the history before its window is closed.
  This part needs no summaries. The other one does: every finished window has
  its summary (`Complete`), so a tagged row in none of those that were read ends
  no earlier than the count at that moment (`UnsummarisedIsNew`), and a row that
  is tagged later completes a window of all rows there are by then
  (`TagIsLast`). Nothing is assumed of what others append between the two reads.

Proving has also changed the models where guards of a `CASE` overlapped (`claim`
and `schedule_next` of MessageDelivery, `ParseCommand`, `ValidateEnvelope` and
`GovernChat` of Ingress): TLC took the first, the semantics of TLA+ any; they
are written as the if/elif chains of the code now. And `Init` of Conversations
numbered the windows of the earlier exchanges over all channels; it numbers them
in each channel now, as `append_turns` does.

Only model-checked: liveness (`EveryTaskSettles`, under fairness, and everything
that would need `ENABLED`), which this prover does not reach; `GraphRunsEnd` is
its proved part.
The prover has no induction over data and no `RECURSIVE` operators; the modules
use neither.

## 5. Further disagreements

Each module states, at its end, properties that documents promise and the code
does not keep. Those without a run of their own can be seen by adding the
property to the run named here (with the change in brackets).

| Property | Run | Documented at | What happens |
| --- | --- | --- | --- |
| `NoRowLeftAuthorized` | `TaskLiveness` (`Decisions` with "error") | `src/spec/state-machines/TaskStateMachine.md:35` | an error of the second policy evaluation leaves the row `authorized`, which no poll looks at |
| `BlockedIsNotDispatched` | `TaskLiveness` | `src/spec/orchestration/control/TaskOrchestrator.md:151` | the worker writes `dispatched` over an auditor pause made while the adapter ran |
| `FailedIsFinal` | `TaskLiveness` | `task_orchestrator/state/transition_guard.py:14` | a stale pause writes `blocked` over `failed` |
| `SpecialistTasksPassPolicy` | `TaskLiveness` | `src/spec/orchestration/control/TaskOrchestrator.md:147` | sub-tasks run before any policy evaluation of them |
| `SpecialistTasksRunOnce` | `TaskLiveness` (`PairLimit = 2`, `HopLimit = 5`) | the same file, line 153 | a sub-task run by the API stays queued and is run again by the worker |
| `NoReservationLeaked` | `TaskWorkerCrash` | `src/implementation/v2/planning/05-milestones/M15-WorkPackages-v1.md:35` | no path releases a reservation |
| `OneLiveRowPerKey` | `AdmissionConcurrent` (no restart) | `src/spec/orchestration/control/TaskOrchestrator.md:153` | two threads claim one key together |
| `OneLiveRowPerKey` | `AdmissionConcurrent` | `control_plane/api/dependencies.py:116` | a key whose task is `authorized` at a restart is admitted again: the recovery looks at the statuses of line 117 only |
| `ReplayHasSameScope` | `AdmissionConcurrent` (two scopes) | `task_orchestrator/admission/idempotency.py:73` | the payload hash leaves out target and project |
| `KeyIsNotWedged` | `AdmissionConcurrent` | `task_orchestrator/admission/idempotency.py:60` | a failed insert leaves a claim nobody can use |
| `ArchivedIsImmutable` | `SpacesSerial` | `src/spec/state-machines/ProjectStateMachine.md:59` | a workforce template is bound to an archived project |
| `TerminatedIsNotRevived` | `SpacesConcurrent` (with "pause" and "resume") | the same file, line 41 | a resume that read the paused document writes `active` over a termination |
| `CharterMatchesHash` | `SpacesSerial` | `src/spec/orchestration/memory/ProjectArtifactModel.md:129` | a refused initialization has replaced the charter file |
| `TriadIsPromoted` | `SpacesSerial` | `data_access/repositories/postgres/project_repository.py:217` | the request ends between the third approval and the promotion; no later approval promotes |
| `ApprovedHasTriad` | `SpacesConcurrent` | the same line | an older copy overwrites the third approval before the promotion |
| `ActiveWasInitialized` | `SpacesSerial` | `control_plane/handlers/governance_handler.py:498` | resume activates an approved project |
| `NotifiedOfCompletion` | `SpacesSerial` | `control_plane/handlers/governance_handler.py:400` | a refused finalization leaves the notice |
| `OneSpacePerProject` | `SpacesConcurrent` (two channels) | `src/spec/orchestration/communication/ProjectSpaceBindingModel.md:61` | two initializations each bind a channel |
| `EndedProjectsDoNotRoute` | `SpacesSerial` | the same file, line 65 | the binding service fails after the project ended |
| `ArchivedIsLocked` | `SpacesSerial` | the same file, line 75 | `archive_project` does not call the service |
| `RefusedIsDeadLettered` | `DeliveryGateway` | `src/spec/orchestration/communication/AgentCommunicationA2A.md:61`, `AgentCommunicationACP.md:98` | a non-retryable nack is completed as failed without a dead letter |
| `NothingInProgressAtRest` | `DeliveryGateway` | `communication_gateway/delivery/publisher.py:146` | an exception of the transport or the audit writer leaves the key in progress for the life of the process |
| `RestrictedRolesStayOut` | `IngressRequests` | `control_plane/advisory/channel_availability.py:11` | only the topic router asks; `/oq ask`, a broadcast and a bot's forward do not |
| `AppendOnlyEntriesStay` | `RecordsConcurrent` | `src/spec/orchestration/memory/ProjectArtifactModel.md:33` | two writers that counted together write one revision, the second replaces the first |
| `FilesMatchRows` | `RecordsConcurrent` | the same file, line 129 | file and row of a revision come from two writers |
| `ClosedProjectsAreReadOnly` | `RecordsConcurrent` | `agents/administrator/retention.py:63` | the agents pass a constant status to the repository |
| `ToolWritesOnce` | `RecordsConcurrent` | `src/spec/cross-cutting/contracts/ProjectTaskQueryContracts.md:52`, `:59` | the audit row fails behind the document of a tool call, nothing is remembered, and the repeated call writes another; so do overlapping calls with one key |
| `CompletedWindowsAreTagged` | `ConversationsShared` | `data_access/repositories/postgres/conversation_store.py:28` | overlapping appends both see the multiple, or one counts past it: a window is skipped, or holds rows of the next |
| `WarmSummariesAreLoaded` | `ConversationsShared` | `src/implementation/v2/planning/05-milestones/M17-WorkPackages-v1.md:219` | `control_plane/api/dependencies.py:224` constructs the store without `summarize_fn`: what no longer fits in a worker's history is in no summary either |
| `AllWindowsAreListed` | `ConversationsShared` (`WarmLimit = 1`) | the same file, line 120 | only the oldest ten summaries are returned |
| `EmbeddingIsOfTheSummary` | `ConversationsShared` | the same file, line 307 | a summary dropped by ON CONFLICT DO NOTHING is still embedded |

Met while modelling, without a property: the co-approvals of CEO and CWO each
wait for the other's, so that without a workforce initialization or a document
written through a tool nobody can begin (`CoapprovalHasAnOrigin` is the other
side of it); gate-flow records are called "excluded from project total-document
cap" (`data_access/repositories/artifacts.py:66`) but count in the total that
other types are checked against; a quarantined workforce becomes active again
when the initialization is repeated; the tool of the project manager may
write documents of types that are governance records; `pause_task` blocks the
task before it checks that it has a project; the memo of the write tools is lost
at a restart, so a call repeated after it writes again.

## 6. Not modelled

The text the agents produce and the keywords that classify it (every outcome is
possible), OPA's rules, HTTP and Discord formats, tracing and audit records
(write-only), settings, release packaging, the Discord bot and the command-line
tools (clients of the routers modelled here), the read tools beyond access check
and outcome (they change nothing), the Redis idempotency cache (called by
nothing), the domain leader (wired to nothing). The proportions of amounts and
token costs are counted in units of the fixed estimate.
Time appears only as the order of steps.

## 7. Plan

Done: all components of section 1 that keep state, and a theorem for each safety
property of a run. Left: liveness stays with TLC; a change of the code that
touches a mapped definition is to be followed by its run and its proofs.
