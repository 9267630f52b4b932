--------------------------- MODULE AdmissionProofs --------------------------
(***************************************************************************)
(* Proofs about Admission for every set of threads, keys, payloads and     *)
(* scopes, any number of rows and any number of restarts.                  *)
(***************************************************************************)
EXTENDS Admission, SequenceTheorems, WellFoundedInduction, TLAPS

-----------------------------------------------------------------------------
(* The latest and the first row *)

\* A non-empty set of natural numbers has a least element.
LEMMA LeastElement ==
  ASSUME NEW S \in SUBSET Nat, S # {}
  PROVE  \E x \in S : \A y \in S : x <= y
  <1> DEFINE R == OpToRel(<, Nat)
  <1>1. IsWellFoundedOn(R, Nat)
    BY NatLessThanWellFounded
  <1> HIDE DEF R
  <1>2. \E x \in S : \A y \in S : ~(<<y, x>> \in R)
    BY <1>1, WFMin
  <1>3. \A x, y \in Nat : ~(<<y, x>> \in R) => x <= y
    BY DEF R, OpToRel
  <1> QED
    BY <1>2, <1>3

\* A non-empty set of natural numbers with a bound has a greatest element.
LEMMA GreatestElement ==
  ASSUME NEW n \in Nat, NEW S \in SUBSET (0..n), S # {}
  PROVE  \E x \in S : \A y \in S : x >= y
  <1> DEFINE T == {n - y : y \in S}
  <1>1. T \in SUBSET Nat
    OBVIOUS
  <1>2. T # {}
    <2>1. PICK y : y \in S
      OBVIOUS
    <2>2. n - y \in T
      BY <2>1
    <2> QED
      BY <2>2
  <1>3. PICK m \in T : \A y \in T : m <= y
    BY <1>1, <1>2, LeastElement
  <1>4. PICK x \in S : m = n - x
    BY <1>3
  <1>5. \A y \in S : x >= y
    BY <1>3, <1>4
  <1> QED
    BY <1>5

\* Max and Min choose an element of a non-empty set of row ids.
LEMMA MaxMinInSet ==
  ASSUME NEW n \in Nat, NEW S \in SUBSET (0..n), S # {}
  PROVE  Max(S) \in S /\ Min(S) \in S
  <1>1. \E x \in S : \A y \in S : x >= y
    BY GreatestElement
  <1>2. \E x \in S : \A y \in S : x <= y
    BY LeastElement
  <1>3. Max(S) \in S
    BY <1>1 DEF Max
  <1>4. Min(S) \in S
    BY <1>2 DEF Min
  <1> QED
    BY <1>3, <1>4

-----------------------------------------------------------------------------
(* Type correctness *)

\* Types, with the requests of the threads.
Typed == TypeOK /\ req \in [Threads -> Requests]

\* What a row of the table holds.
Row == [key : ClaimKeys, hash : Hashes, scope : Scopes, status : TaskStatuses]

\* The rows of the table, by their number.
LEMMA RowType ==
  ASSUME Typed
  PROVE  /\ rows \in Seq(Row) /\ Len(rows) \in 0..MaxRows
         /\ DOMAIN rows = 1..Len(rows)
         /\ \A i \in DOMAIN rows : rows[i] \in Row
  <1>1. rows \in Seq(Row)
    BY DEF Typed, TypeOK, Row
  <1>2. Len(rows) \in 0..MaxRows
    BY <1>1, AdmissionBounds DEF Typed, TypeOK
  <1> QED
    BY <1>1, <1>2

\* The hash and the id of a row.
LEMMA RowRange ==
  ASSUME Typed, NEW i \in DOMAIN rows
  PROVE  rows[i].hash \in Hashes /\ i \in 0..MaxRows
  <1>1. rows[i] \in Row /\ i \in 1..Len(rows) /\ Len(rows) \in 0..MaxRows
    BY RowType
  <1>2. rows[i].hash \in Hashes
    BY <1>1 DEF Row
  <1>3. i \in 0..MaxRows
    BY <1>1, AdmissionBounds
  <1> QED
    BY <1>2, <1>3

\* The set of row ids of a key.
LEMMA RowsOfKey ==
  ASSUME Typed, NEW k
  PROVE  /\ Len(rows) \in Nat
         /\ RowsOf(k) \in SUBSET (0..Len(rows))
         /\ RowsOf(k) \subseteq DOMAIN rows
         /\ DOMAIN rows = 1..Len(rows)
  BY DEF Typed, TypeOK, RowsOf

\* What the recovery reads from the table: no claim, or the claim of one row
\* of the key bound to another.
LEMMA RecoveredRow ==
  ASSUME Typed, NEW k \in ClaimKeys
  PROVE  \/ RecoveredClaim(k) = NoClaim
         \/ \E i, j \in RowsOf(k) :
              RecoveredClaim(k) = [hash |-> rows[i].hash, task |-> j]
  <1> DEFINE active == {i \in RowsOf(k) : rows[i].status \in ACTIVE_STATUSES}
  <1>1. CASE active = {}
    BY <1>1 DEF RecoveredClaim
  <1>2. CASE active # {}
    <2>1. active \in SUBSET (0..Len(rows)) /\ Len(rows) \in Nat
      BY RowsOfKey
    <2> HIDE DEF active
    <2>2. Max(active) \in active /\ Min(active) \in active
      BY <1>2, <2>1, MaxMinInSet
    <2> USE DEF active
    <2>3. RecoveredClaim(k) = [hash |-> rows[Min(active)].hash,
                               task |-> Max(active)]
      BY <1>2 DEF RecoveredClaim
    <2> QED
      BY <2>2, <2>3
  <1> QED
    BY <1>1, <1>2

\* The initial state is typed.
LEMMA InitType == Init => Typed
  BY AdmissionBounds DEF Init, Typed, TypeOK, NoClaim, Resting

\* Every action keeps the types.
LEMMA StepType == Typed /\ [Next]_vars => Typed'
  <1> SUFFICES ASSUME Typed, [Next]_vars PROVE Typed'
    OBVIOUS
  <1> USE AdmissionBounds DEF Typed, TypeOK, Resting, Answers, Requests
  <1>1. ASSUME NEW th \in Threads, NEW r \in Requests, Begin(th, r)
        PROVE  Typed'
    BY <1>1 DEF Begin
  <1>2. ASSUME NEW th \in Threads, Claim(th) PROVE Typed'
    <2>1. claims' \in [ClaimKeys -> [hash : Hashes \union {"none"},
                                     task : 0..MaxRows]]
      <3>1. [hash |-> req[th].hash, task |-> 0]
              \in [hash : Hashes \union {"none"}, task : 0..MaxRows]
        OBVIOUS
      <3> QED
        BY <1>2, <3>1 DEF Claim
    <2>2. tpc' \in [Threads ->
                      Resting \union {"claim", "create", "bind", "lookup"}]
      BY <1>2 DEF Claim
    <2> QED
      BY <1>2, <2>1, <2>2 DEF Claim
  <1>3. ASSUME NEW th \in Threads, Create(th) PROVE Typed'
    <2>1. [key |-> req[th].key, hash |-> req[th].hash,
           scope |-> req[th].scope, status |-> "queued"]
            \in [key : ClaimKeys, hash : Hashes, scope : Scopes,
                 status : TaskStatuses]
      BY DEF TaskStatuses
    <2>2. /\ rows' \in Seq([key : ClaimKeys, hash : Hashes, scope : Scopes,
                            status : TaskStatuses])
          /\ Len(rows') = Len(rows) + 1
      BY <1>3, <2>1 DEF Create
    <2> QED
      BY <1>3, <2>2 DEF Create
  <1>4. ASSUME NEW th \in Threads, CreateFails(th) PROVE Typed'
    BY <1>4 DEF CreateFails
  <1>5. ASSUME NEW th \in Threads, Bind(th) PROVE Typed'
    <2> DEFINE Held == [hash : Hashes \union {"none"}, task : 0..MaxRows]
               c == claims[req[th].key]
    <2>1. /\ c \in Held /\ found[th] \in 0..MaxRows
          /\ claims \in [ClaimKeys -> Held] /\ req[th].key \in ClaimKeys
      OBVIOUS
    <2>2. PICK b : b = IF c = NoClaim THEN c ELSE [c EXCEPT !.task = found[th]]
      OBVIOUS
    <2>3. b \in Held
      BY <2>1, <2>2
    <2>4. claims' = [claims EXCEPT ![req[th].key] = b]
      BY <1>5, <2>2 DEF Bind
    <2> HIDE DEF Held
    <2>5. claims' \in [ClaimKeys -> Held]
      BY <2>1, <2>3, <2>4
    <2>6. tpc' \in [Threads ->
                      Resting \union {"claim", "create", "bind", "lookup"}]
      BY <1>5 DEF Bind
    <2>7. UNCHANGED <<rows, restarts, req, seen, found>>
      BY <1>5 DEF Bind
    <2> QED
      BY <2>5, <2>6, <2>7 DEF Held
  <1>6. ASSUME NEW th \in Threads, Lookup(th) PROVE Typed'
    <2>1. RowsOf(req[th].key) # {} =>
            Max(RowsOf(req[th].key)) \in 0..MaxRows
      <3>1. /\ Len(rows) \in Nat
            /\ RowsOf(req[th].key) \in SUBSET (0..Len(rows))
        BY RowsOfKey
      <3>2. ASSUME RowsOf(req[th].key) # {}
            PROVE  Max(RowsOf(req[th].key)) \in RowsOf(req[th].key)
        BY <3>1, <3>2, MaxMinInSet
      <3> QED
        BY <3>1, <3>2, RowType
    <2>2. found' \in [Threads -> 0..MaxRows]
      BY <1>6, <2>1 DEF Lookup
    <2> QED
      BY <1>6, <2>2 DEF Lookup
  <1>7. ASSUME NEW i \in DOMAIN rows, WorkerMoves(i) PROVE Typed'
    <2>1. PICK s \in TaskStatuses : rows' = [rows EXCEPT ![i].status = s]
      BY <1>7 DEF WorkerMoves, TaskStatuses
    <2>2. /\ rows' \in Seq([key : ClaimKeys, hash : Hashes, scope : Scopes,
                            status : TaskStatuses])
          /\ Len(rows') = Len(rows)
      <3>1. rows \in Seq(Row) /\ i \in 1..Len(rows) /\ rows[i] \in Row
        BY RowType
      <3>2. [rows[i] EXCEPT !.status = s] \in Row
        BY <3>1 DEF Row
      <3>3. rows' = [rows EXCEPT ![i] = [rows[i] EXCEPT !.status = s]]
        BY <2>1
      <3>4. rows' \in Seq(Row) /\ Len(rows') = Len(rows)
        BY <3>1, <3>2, <3>3, ExceptSeq
      <3> QED
        BY <3>4 DEF Row
    <2> QED
      BY <1>7, <2>2 DEF WorkerMoves
  <1>8. CASE Restart
    <2>1. \A k \in ClaimKeys : RecoveredClaim(k) \in
            [hash : Hashes \union {"none"}, task : 0..MaxRows]
      <3> SUFFICES ASSUME NEW k \in ClaimKeys
                   PROVE  RecoveredClaim(k) \in
                            [hash : Hashes \union {"none"}, task : 0..MaxRows]
        OBVIOUS
      <3>1. /\ Len(rows) \in Nat /\ DOMAIN rows = 1..Len(rows)
            /\ RowsOf(k) \subseteq DOMAIN rows
        BY RowsOfKey
      <3>2. CASE RecoveredClaim(k) = NoClaim
        BY <3>2 DEF NoClaim
      <3>3. CASE \E i, j \in RowsOf(k) :
                   RecoveredClaim(k) = [hash |-> rows[i].hash, task |-> j]
        <4>1. PICK i \in RowsOf(k), j \in RowsOf(k) :
                RecoveredClaim(k) = [hash |-> rows[i].hash, task |-> j]
          BY <3>3
        <4>2. i \in DOMAIN rows /\ j \in DOMAIN rows
          BY <3>1
        <4>3. rows[i].hash \in Hashes /\ j \in 0..MaxRows
          BY <4>2, RowRange
        <4> QED
          BY <4>1, <4>3
      <3> QED
        BY <3>2, <3>3, RecoveredRow
    <2>2. claims' \in [ClaimKeys -> [hash : Hashes \union {"none"},
                                     task : 0..MaxRows]]
      BY <1>8, <2>1 DEF Restart
    <2> QED
      BY <1>8, <2>2 DEF Restart
  <1>9. CASE UNCHANGED vars
    BY <1>9 DEF vars
  <1> QED
    BY <1>1, <1>2, <1>3, <1>4, <1>5, <1>6, <1>7, <1>8, <1>9
    DEF Next, ThreadStep

\* Every variable keeps its type: a claim is bound to no task or to the number
\* of a row, for any number of threads, rows and restarts.
THEOREM AdmissionTypes == Spec => []TypeOK
  <1>1. Typed => TypeOK
    BY DEF Typed
  <1> QED
    BY <1>1, InitType, StepType, PTL DEF Spec

-----------------------------------------------------------------------------
(* The inductive invariant *)

\* Task i is a stored row of key k.
RowOfKey(i, k) == i \in DOMAIN rows /\ rows[i].key = k

\* Task i is the stored row of the very request r.
RowOfRequest(i, r) ==
  /\ RowOfKey(i, r.key)
  /\ rows[i].hash = r.hash /\ rows[i].scope = r.scope

\* A claim names a row of its key or none.
ClaimNamesRow(c, k) == c.task = 0 \/ RowOfKey(c.task, k)

\* Claims and their copies in the threads name rows of their key, and a thread
\* that goes on from the insert holds the row it inserted.  A restart drops
\* the claims and the threads but no row, and rebuilds the claims from rows.
RowsBehindClaims ==
  /\ \A k \in ClaimKeys : ClaimNamesRow(claims[k], k)
  /\ \A th \in Threads :
       /\ ClaimNamesRow(seen[th], req[th].key)
       /\ tpc[th] \in {"bind", "accepted"} => RowOfRequest(found[th], req[th])
       /\ tpc[th] = "replayed" => RowOfKey(found[th], req[th].key)

IInv == Typed /\ RowsBehindClaims

\* No row is deleted and no row changes its key, payload or scope.
RowsStay ==
  \A i \in DOMAIN rows :
    /\ i \in DOMAIN rows'
    /\ rows'[i].key = rows[i].key
    /\ rows'[i].hash = rows[i].hash
    /\ rows'[i].scope = rows[i].scope

\* Every action leaves the rows that are stored in place.
LEMMA StepRowsStay == Typed /\ [Next]_vars => RowsStay
  <1> SUFFICES ASSUME Typed, [Next]_vars PROVE RowsStay
    OBVIOUS
  <1>1. ASSUME NEW th \in Threads, Create(th) PROVE RowsStay
    BY <1>1, RowType DEF Create, RowsStay
  <1>2. ASSUME NEW i \in DOMAIN rows, WorkerMoves(i) PROVE RowsStay
    BY <1>2, RowType DEF WorkerMoves, RowsStay, Row
  <1>3. CASE UNCHANGED rows
    BY <1>3 DEF RowsStay
  <1> QED
    BY <1>1, <1>2, <1>3
    DEF Next, ThreadStep, Begin, Claim, CreateFails, Bind, Lookup, Restart,
        vars

\* The inductive invariant holds at the start.
LEMMA InitInvariant == Init => IInv
  BY InitType DEF Init, IInv, RowsBehindClaims, ClaimNamesRow, NoClaim

\* Every action keeps the rows behind the claims.
LEMMA StepInvariant == IInv /\ [Next]_vars => IInv'
  <1> SUFFICES ASSUME IInv, [Next]_vars PROVE RowsBehindClaims'
    BY StepType DEF IInv
  <1>1. Typed /\ RowsStay
    BY StepRowsStay DEF IInv
  <1>2. \A i, k : RowOfKey(i, k) => RowOfKey(i, k)'
    BY <1>1 DEF RowsStay, RowOfKey
  <1>3. \A i, r : RowOfRequest(i, r) => RowOfRequest(i, r)'
    BY <1>1, <1>2 DEF RowsStay, RowOfRequest, RowOfKey
  <1>4. \A c, k : ClaimNamesRow(c, k) => ClaimNamesRow(c, k)'
    BY <1>2 DEF ClaimNamesRow
  <1> USE <1>1, <1>2, <1>3, <1>4 DEF IInv, RowsBehindClaims, Typed, TypeOK,
          Requests
  <1>5. ASSUME NEW th \in Threads, NEW r \in Requests, Begin(th, r)
        PROVE  RowsBehindClaims'
    BY <1>5 DEF Begin
  <1>6. ASSUME NEW th \in Threads, Claim(th) PROVE RowsBehindClaims'
    <2>1. \A k \in ClaimKeys : claims'[k] = claims[k] \/ claims'[k].task = 0
      BY <1>6 DEF Claim
    <2>2. \A k \in ClaimKeys : ClaimNamesRow(claims[k], k)'
      BY <2>1 DEF ClaimNamesRow
    <2> QED
      BY <1>6, <2>2 DEF Claim
  <1>7. ASSUME NEW th \in Threads, Create(th) PROVE RowsBehindClaims'
    <2>1. found'[th] = Len(rows) + 1 /\ req'[th] = req[th]
      BY <1>7 DEF Create
    <2>2. /\ Len(rows) + 1 \in DOMAIN rows'
          /\ rows'[Len(rows) + 1] =
               [key |-> req[th].key, hash |-> req[th].hash,
                scope |-> req[th].scope, status |-> "queued"]
      BY <1>7, RowType DEF Create
    <2>3. RowOfRequest(found[th], req[th])'
      BY <2>1, <2>2 DEF RowOfRequest, RowOfKey
    <2> QED
      BY <1>7, <2>3 DEF Create
  <1>8. ASSUME NEW th \in Threads, CreateFails(th) PROVE RowsBehindClaims'
    BY <1>8 DEF CreateFails
  <1>9. ASSUME NEW th \in Threads, Bind(th) PROVE RowsBehindClaims'
    BY <1>9 DEF Bind, ClaimNamesRow, RowOfRequest
  <1>10. ASSUME NEW th \in Threads, Lookup(th) PROVE RowsBehindClaims'
    <2> DEFINE k == req[th].key
    <2>1. RowsOf(k) # {} => RowOfKey(Max(RowsOf(k)), k)
      <3>1. /\ Len(rows) \in Nat
            /\ RowsOf(k) \in SUBSET (0..Len(rows))
        BY RowsOfKey
      <3>2. ASSUME RowsOf(k) # {} PROVE Max(RowsOf(k)) \in RowsOf(k)
        BY <3>1, <3>2, MaxMinInSet
      <3> QED
        BY <3>2 DEF RowsOf, RowOfKey
    <2>2. tpc'[th] = "replayed" => RowOfKey(found'[th], k)
      BY <1>10, <2>1 DEF Lookup, ClaimNamesRow
    <2> QED
      BY <1>10, <2>2 DEF Lookup
  <1>11. ASSUME NEW i \in DOMAIN rows, WorkerMoves(i)
         PROVE  RowsBehindClaims'
    BY <1>11 DEF WorkerMoves
  <1>12. CASE Restart
    <2>1. \A k \in ClaimKeys : ClaimNamesRow(RecoveredClaim(k), k)
      BY RecoveredRow DEF ClaimNamesRow, NoClaim, RowOfKey, RowsOf
    <2> QED
      BY <1>12, <2>1 DEF Restart, Resting, Answers
  <1>13. CASE UNCHANGED vars
    BY <1>13 DEF vars
  <1> QED
    BY <1>5, <1>6, <1>7, <1>8, <1>9, <1>10, <1>11, <1>12, <1>13
    DEF Next, ThreadStep

\* Every acknowledged command is stored: whatever threads race on a key,
\* whichever insert fails and however often the process restarts, a 202 names
\* a row of the key, and the very command when it was not a replay.
THEOREM AcknowledgedStaysStored == Spec => []AcknowledgedIsStored
  <1>1. IInv => AcknowledgedIsStored
    BY DEF IInv, RowsBehindClaims, RowOfRequest, RowOfKey,
           AcknowledgedIsStored
  <1> QED
    BY <1>1, InitInvariant, StepInvariant, PTL DEF Spec

=============================================================================
