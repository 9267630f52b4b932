----------------------------- MODULE Admission ------------------------------
(***************************************************************************)
(* Admission of owner commands: AdmissionIdempotencyCoordinator.resolve on *)
(* top of the process-local IngressDedupeStore and the tasks table, run by *)
(* the request threads of the API process, together with the startup       *)
(* recovery that rebuilds the claims from the table.                       *)
(*                                                                         *)
(* A claim key is a pair (principal_id, idempotency_key).  A command is    *)
(* what the payload hash covers (command, args, metadata, connector) and a *)
(* scope, the target and project, which the hash leaves out.               *)
(***************************************************************************)
EXTENDS Integers, Sequences, FiniteSets, FiniteSetsExt, TaskStatus

CONSTANTS
  Threads,      \* request threads of the API process
  ClaimKeys,    \* (principal_id, idempotency_key) pairs
  Hashes,       \* values of _payload_hash
  Scopes,       \* target and project_id of a command
  MaxRows,      \* bound: rows ever inserted
  MaxRestarts   \* bound: restarts of the API process

ASSUME AdmissionBounds == MaxRows \in Nat /\ MaxRestarts \in Nat

NoClaim == [hash |-> "none", task |-> 0]

VARIABLES
  rows,      \* the tasks table, in order of created_at
  claims,    \* IngressDedupeStore._claims
  restarts,  \* restarts of the API process so far
  tpc,       \* where each request thread is
  req,       \* its request
  seen,      \* the claim it read
  found      \* the task it will answer with, 0 when none

vars == <<rows, claims, restarts, tpc, req, seen, found>>

Requests == [key : ClaimKeys, hash : Hashes, scope : Scopes]

\* Where a thread rests: without a request yet, or with its answer.
Answers == {"accepted", "replayed", "conflict", "state_missing", "error"}
Resting == {"idle"} \union Answers

\* Every variable ranges over what the code can hold there; a claim is bound
\* to no task or to the id of a row.
TypeOK ==
  /\ rows \in Seq([key : ClaimKeys, hash : Hashes, scope : Scopes,
                   status : TaskStatuses])
  /\ Len(rows) <= MaxRows
  /\ claims \in [ClaimKeys -> [hash : Hashes \union {"none"},
                               task : 0..MaxRows]]
  /\ restarts \in 0..MaxRestarts
  /\ tpc \in [Threads -> Resting \union {"claim", "create", "bind", "lookup"}]
  /\ seen \in [Threads -> [hash : Hashes \union {"none"}, task : 0..MaxRows]]
  /\ found \in [Threads -> 0..MaxRows]

Init ==
  /\ rows = <<>>
  /\ claims = [k \in ClaimKeys |-> NoClaim]
  /\ restarts = 0
  /\ tpc = [th \in Threads |-> "idle"]
  /\ req \in [Threads -> Requests]
  /\ seen = [th \in Threads |-> NoClaim]
  /\ found = [th \in Threads |-> 0]

-----------------------------------------------------------------------------
(* A request *)

\* submit_owner_command reaches admit_owner_command; IngressDedupeStore.claim
\* looks the key up.
Begin(th, r) ==
  /\ tpc[th] \in Resting
  /\ req' = [req EXCEPT ![th] = r]
  /\ seen' = [seen EXCEPT ![th] = claims[r.key]]
  /\ found' = [found EXCEPT ![th] = 0]
  /\ tpc' = [tpc EXCEPT ![th] = "claim"]
  /\ UNCHANGED <<rows, claims, restarts>>

\* The rest of claim(): nothing locks the dictionary between the look-up and
\* the assignment, so what was seen may be stale by now.
Claim(th) ==
  /\ tpc[th] = "claim"
  /\ IF seen[th] = NoClaim
       THEN /\ claims' = [claims EXCEPT ![req[th].key] =
                            [hash |-> req[th].hash, task |-> 0]]
            /\ tpc' = [tpc EXCEPT ![th] = "create"]
       ELSE /\ tpc' = [tpc EXCEPT ![th] =
                         IF seen[th].hash = req[th].hash
                           THEN "lookup" ELSE "conflict"]
            /\ UNCHANGED claims
  /\ UNCHANGED <<rows, restarts, req, seen, found>>

\* create_task_from_envelope.
Create(th) ==
  /\ tpc[th] = "create" /\ Len(rows) < MaxRows
  /\ rows' = Append(rows, [key |-> req[th].key, hash |-> req[th].hash,
                           scope |-> req[th].scope, status |-> "queued"])
  /\ found' = [found EXCEPT ![th] = Len(rows) + 1]
  /\ tpc' = [tpc EXCEPT ![th] = "bind"]
  /\ UNCHANGED <<claims, restarts, req, seen>>

\* A database error in the insert: the request ends in an error, the claim
\* stays.
CreateFails(th) ==
  /\ tpc[th] = "create"
  /\ tpc' = [tpc EXCEPT ![th] = "error"]
  /\ UNCHANGED <<rows, claims, restarts, req, seen, found>>

\* bind_task_id, and the answer.
Bind(th) ==
  /\ tpc[th] = "bind"
  /\ claims' = [claims EXCEPT ![req[th].key] =
                  IF @ = NoClaim THEN @ ELSE [@ EXCEPT !.task = found[th]]]
  /\ tpc' = [tpc EXCEPT ![th] = "accepted"]
  /\ UNCHANGED <<rows, restarts, req, seen, found>>

RowsOf(k) == {i \in DOMAIN rows : rows[i].key = k}

\* Mutated form: the claim alone makes a replay.
LookupTrustsClaim(th) ==
  /\ tpc[th] = "lookup"
  /\ found' = [found EXCEPT ![th] = seen[th].task]
  /\ tpc' = [tpc EXCEPT ![th] = "replayed"]
  /\ UNCHANGED <<rows, claims, restarts, req, seen>>

\* The replay: get_task_by_principal_and_idempotency answers with the latest
\* row of the key; without one the task of the claim is tried.
Lookup(th) ==
  /\ tpc[th] = "lookup"
  /\ LET k    == req[th].key
         task == IF RowsOf(k) # {} THEN Max(RowsOf(k)) ELSE seen[th].task
     IN  /\ found' = [found EXCEPT ![th] = task]
         /\ tpc' = [tpc EXCEPT ![th] =
                      IF task # 0 THEN "replayed" ELSE "state_missing"]
  /\ UNCHANGED <<rows, claims, restarts, req, seen>>

-----------------------------------------------------------------------------
(* The rest of the system *)

\* The statuses the worker writes one after the other.
WorkerMoves(i) ==
  /\ \E s \in {"authorized", "blocked", "dispatched", "failed"} :
       /\ assert_legal_transition(rows[i].status, s)
       /\ rows' = [rows EXCEPT ![i].status = s]
  /\ UNCHANGED <<claims, restarts, tpc, req, seen, found>>

\* dependencies._ACTIVE_STATUSES
ACTIVE_STATUSES == {"queued", "dispatched", "running", "blocked"}

\* Startup recovery, row by row in order of creation: the first active row of
\* a key makes the claim, each one binds its task id.
RecoveredClaim(k) ==
  LET active == {i \in RowsOf(k) : rows[i].status \in ACTIVE_STATUSES}
  IN  IF active = {} THEN NoClaim
      ELSE [hash |-> rows[Min(active)].hash, task |-> Max(active)]

\* The API process ends and starts again: its threads and claims are gone.
Restart ==
  /\ restarts < MaxRestarts
  /\ restarts' = restarts + 1
  /\ claims' = [k \in ClaimKeys |-> RecoveredClaim(k)]
  /\ tpc' = [th \in Threads |-> IF tpc[th] \in Resting THEN tpc[th]
                                                       ELSE "error"]
  /\ UNCHANGED <<rows, req, seen, found>>

-----------------------------------------------------------------------------
ThreadStep(th) ==
  \/ \E r \in Requests : Begin(th, r)
  \/ Claim(th) \/ Create(th) \/ CreateFails(th) \/ Bind(th) \/ Lookup(th)

Next ==
  \/ \E th \in Threads : ThreadStep(th)
  \/ \E i \in DOMAIN rows : WorkerMoves(i)
  \/ Restart

Spec == Init /\ [][Next]_vars

-----------------------------------------------------------------------------
(* Properties *)

\* A 202 answer names a row of the table that carries the key of the request,
\* and the very command when the request was not a replay: no crash, restart
\* or concurrent claim can leave an owner with an acknowledged command that is
\* not stored.
AcknowledgedIsStored ==
  \A th \in Threads :
    tpc[th] \in {"accepted", "replayed"} =>
      /\ found[th] \in DOMAIN rows
      /\ rows[found[th]].key = req[th].key
      /\ tpc[th] = "accepted" =>
           /\ rows[found[th]].hash = req[th].hash
           /\ rows[found[th]].scope = req[th].scope

Live(i) == rows[i].status \in ACTIVE_STATUSES \union {"authorized"}

-----------------------------------------------------------------------------
(* What the documentation says and the code does not do *)

\* ORCH-007, "Duplicate requests with same idempotency key MUST be side-effect
\* safe": two rows of one key are never in progress together.
OneLiveRowPerKey ==
  \A k \in ClaimKeys : Cardinality({i \in RowsOf(k) : Live(i)}) <= 1

\* idempotency.py, "idempotency key cannot be reused with a different
\* payload": a replay answers with a task of the same target and project.
ReplayHasSameScope ==
  \A th \in Threads :
    tpc[th] = "replayed" => rows[found[th]].scope = req[th].scope

\* idempotency.py, "Resolve admission request into new or replayed task
\* deterministically": no request is answered idempotency_state_missing once
\* the request that claimed its key is over.
KeyIsNotWedged ==
  \A th \in Threads :
    tpc[th] = "state_missing" =>
      \E o \in Threads \ {th} :
        tpc[o] \in {"create", "bind"} /\ req[o].key = req[th].key

=============================================================================
