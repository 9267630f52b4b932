--------------------------- MODULE MessageDelivery --------------------------
(***************************************************************************)
(* The communication gateway behind LocalCommunicationDispatchAdapter: the *)
(* ordering validator, the idempotency records, the message ledger, the    *)
(* retries and the dead letters.  All of it is memory of one process, and  *)
(* that process hands over one message at a time.  The caller may hand     *)
(* over the same message again, and different tasks may carry the same     *)
(* idempotency key: nothing is assumed of it.  The ACP transport is        *)
(* external: it acknowledges, refuses, or raises.                          *)
(***************************************************************************)
EXTENDS Integers, Sequences, FiniteSets

CONSTANTS
  MessageIds,      \* message_id with external_message_id
  IdempotencyKeys,
  Targets,
  Messages,        \* the messages of the tasks that are handed over
  Envelope,        \* the fields of each that the gateway looks at
  NoMessage,       \* None
  MaxCalls,        \* bound: calls of dispatch
  MAX_ATTEMPTS     \* DeterministicRetryScheduler.max_attempts

\* Envelopes of one connector, principal and project.  The payload of a message
\* is the message: it has the task_id.
ASSUME MessagesAssumption ==
  /\ Envelope \in [Messages -> [message_id : MessageIds,
                                idempotency_key : IdempotencyKeys,
                                target : Targets, created_at : Nat]]
  /\ NoMessage \notin Messages

ASSUME DeliveryBounds == MaxCalls \in Nat /\ MAX_ATTEMPTS \in Nat \ {0}

DeliveryKeys == IdempotencyKeys \X MessageIds

\* LocalCommunicationIdempotencyStore.build_delivery_key
build_delivery_key(m) ==
  <<Envelope[m].idempotency_key, Envelope[m].message_id>>

\* What a publication comes to, and is stored as the result of its key.
Results == {"accepted", "failed", "exhausted"}

\* What a call is answered: a result, a refusal of the ordering validator, a
\* refusal of the claim, or an exception out of the adapter.
Answers == Results \union {"refused", "conflict", "in_progress", "raised"}

\* A key that was never claimed.
NoRecord == [status |-> "absent", payload |-> NoMessage, attempts |-> 0,
             result |-> "none"]

VARIABLES
  messageIds,   \* LocalOrderingValidator._message_ids_by_stream
  latestSeenAt, \* LocalOrderingValidator._latest_seen_at_by_stream
  records,      \* LocalCommunicationIdempotencyStore._records
  ledger,       \* LocalMessageLedger._records, in the order of insertion
  deadLetters,  \* LocalDeadLetterWriter._dead_letters
  pc,           \* where publish is
  cur,          \* its message
  attempt,      \* its attempt
  calls,        \* calls so far
  answers       \* what each message was answered: an observation

stores == <<messageIds, latestSeenAt, records, ledger, deadLetters>>
vars == <<stores, pc, cur, attempt, calls, answers>>

Init ==
  /\ messageIds = [s \in Targets |-> {}]
  /\ latestSeenAt = [s \in Targets |-> 0]
  /\ records = [k \in DeliveryKeys |-> NoRecord]
  /\ ledger = <<>>
  /\ deadLetters = <<>>
  /\ pc = "idle"
  /\ cur = NoMessage
  /\ attempt = 0
  /\ calls = 0
  /\ answers = [m \in Messages |-> {}]

\* The call for m is answered.
Answer(m, answer) ==
  /\ answers' = [answers EXCEPT ![m] = @ \union {answer}]
  /\ pc' = "idle" /\ cur' = NoMessage /\ attempt' = 0

-----------------------------------------------------------------------------
(* Before the transport *)

\* Mutated form: only the duplicate check.
ValidateDuplicates(m) ==
  Envelope[m].message_id \notin messageIds[Envelope[m].target]

\* LocalOrderingValidator.validate: TRUE when it does not raise.  A stream is a
\* target here.
validate(m) ==
  /\ Envelope[m].message_id \notin messageIds[Envelope[m].target]
  /\ Envelope[m].created_at >= latestSeenAt[Envelope[m].target]

\* Mutated form: a key whose delivery is over is claimed anew.
ClaimFinished(m) ==
  CASE records[build_delivery_key(m)].status # "in_progress" -> "new"
    [] OTHER                                                 -> "in_progress"

\* Mutated form: the payload of a finished key is not compared.
ClaimAnyPayload(m) ==
  CASE records[build_delivery_key(m)].status = "absent"      -> "new"
    [] records[build_delivery_key(m)].status = "in_progress" -> "in_progress"
    [] OTHER                                                 -> "replay"

\* LocalCommunicationIdempotencyStore.claim.  A replay needs the same payload,
\* so the same target: the ordering validator refuses it first.
claim(m) ==
  LET existing == records[build_delivery_key(m)]
  IN  CASE existing.status = "absent"      -> "new"
        [] existing.status = "in_progress" -> "in_progress"
        [] OTHER -> IF existing.payload = m THEN "replay" ELSE "conflict"

\* What publish answers when the claim is not new.
Claimed(m) ==
  IF claim(m) = "replay" THEN records[build_delivery_key(m)].result ELSE claim(m)

\* The validator refuses, and remembers nothing.
Refuse(m) ==
  /\ pc = "idle" /\ calls < MaxCalls
  /\ ~validate(m)
  /\ calls' = calls + 1
  /\ Answer(m, "refused")
  /\ UNCHANGED stores

\* dispatch up to the claim: the validator has the message in its stream from
\* now on, whatever becomes of it.
Dispatch(m) ==
  /\ pc = "idle" /\ calls < MaxCalls
  /\ validate(m)
  /\ calls' = calls + 1
  /\ messageIds' = [messageIds EXCEPT ![Envelope[m].target] =
                                        @ \union {Envelope[m].message_id}]
  /\ latestSeenAt' = [latestSeenAt EXCEPT ![Envelope[m].target] =
                                            Envelope[m].created_at]
  /\ \/ /\ claim(m) = "new"
        /\ records' = [records EXCEPT ![build_delivery_key(m)] =
                         [NoRecord EXCEPT !.status = "in_progress",
                                          !.payload = m]]
        /\ pc' = "begin" /\ cur' = m /\ attempt' = 1
        /\ UNCHANGED answers
     \/ /\ claim(m) # "new"
        /\ Answer(m, Claimed(m))
        /\ UNCHANGED records
  /\ UNCHANGED <<ledger, deadLetters>>

-----------------------------------------------------------------------------
(* The attempts *)

\* increment_attempt and begin_dispatch.
BeginAttempt ==
  /\ pc = "begin"
  /\ records' = [records EXCEPT ![build_delivery_key(cur)].attempts = @ + 1]
  /\ ledger' = Append(ledger, [message |-> cur, attempt |-> attempt,
                               state |-> "prepared", retryable |-> FALSE])
  /\ pc' = "send"
  /\ UNCHANGED <<messageIds, latestSeenAt, deadLetters, cur, attempt, calls,
                 answers>>

\* mark_acked or mark_nacked of the attempt in progress.
Mark(state, retryable) ==
  ledger' = [ledger EXCEPT ![Len(ledger)].state = state,
                           ![Len(ledger)].retryable = retryable]

\* LocalCommunicationIdempotencyStore.complete, and publish returns the result.
Complete(result) ==
  /\ records' = [records EXCEPT ![build_delivery_key(cur)].status = "completed",
                                ![build_delivery_key(cur)].result = result]
  /\ Answer(cur, result)

\* Mutated form: exhausted retries are not told from refused ones.
ScheduleNoExhaustion(retryable) ==
  IF retryable /\ attempt < MAX_ATTEMPTS THEN "retry" ELSE "not_allowed"

\* DeterministicRetryScheduler.schedule_next.  The backoff is computed and not
\* waited for.
schedule_next(retryable) ==
  IF ~retryable THEN "not_allowed"
  ELSE IF attempt >= MAX_ATTEMPTS THEN "exhausted" ELSE "retry"

\* The transport acknowledges.
Acked ==
  /\ pc = "send"
  /\ Mark("acked", FALSE)
  /\ Complete("accepted")
  /\ UNCHANGED <<messageIds, latestSeenAt, deadLetters, calls>>

\* The transport answers nack, or raises AcpClientError.
Nacked(retryable) ==
  /\ pc = "send"
  /\ Mark("nacked", retryable)
  /\ \/ /\ schedule_next(retryable) = "retry"
        /\ pc' = "begin" /\ attempt' = attempt + 1
        /\ UNCHANGED <<records, cur, answers>>
     \/ /\ schedule_next(retryable) = "exhausted"
        /\ pc' = "dead"
        /\ UNCHANGED <<records, cur, attempt, answers>>
     \/ /\ schedule_next(retryable) = "not_allowed"
        /\ Complete("failed")
  /\ UNCHANGED <<messageIds, latestSeenAt, deadLetters, calls>>

\* Any other exception of the transport leaves the adapter at once.
SendRaises ==
  /\ pc = "send"
  /\ Answer(cur, "raised")
  /\ UNCHANGED <<stores, calls>>

\* write_dead_letter: the record is kept first, then the metric and the audit
\* event are written, and the audit writer raises when its row cannot be.
WriteDeadLetter ==
  /\ pc = "dead"
  /\ deadLetters' = Append(deadLetters, [message |-> cur, attempts |-> attempt])
  /\ \/ Complete("exhausted")
     \/ Answer(cur, "raised") /\ UNCHANGED records
  /\ UNCHANGED <<messageIds, latestSeenAt, ledger, calls>>

-----------------------------------------------------------------------------
Next ==
  \/ \E m \in Messages : Refuse(m) \/ Dispatch(m)
  \/ BeginAttempt \/ Acked \/ SendRaises \/ WriteDeadLetter
  \/ \E retryable \in BOOLEAN : Nacked(retryable)

Spec == Init /\ [][Next]_vars

-----------------------------------------------------------------------------
(* Properties *)

Entries == [message : Messages, attempt : 1..MAX_ATTEMPTS,
            state : {"prepared", "acked", "nacked"}, retryable : BOOLEAN]

\* Every variable ranges over what the code can hold there; a stored result
\* and a completed key go together.
TypeOK ==
  /\ messageIds \in [Targets -> SUBSET MessageIds]
  /\ latestSeenAt \in [Targets -> Nat]
  /\ records \in [DeliveryKeys ->
       {NoRecord}
         \union [status : {"in_progress"}, payload : Messages,
                 attempts : 0..MAX_ATTEMPTS, result : {"none"}]
         \union [status : {"completed"}, payload : Messages,
                 attempts : 1..MAX_ATTEMPTS, result : Results]]
  /\ ledger \in Seq(Entries)
  /\ deadLetters \in Seq([message : Messages, attempts : 1..MAX_ATTEMPTS])
  /\ pc \in {"idle", "begin", "send", "dead"}
  /\ cur \in Messages \union {NoMessage}
  /\ attempt \in 0..MAX_ATTEMPTS
  /\ calls \in 0..MaxCalls
  /\ answers \in [Messages -> SUBSET Answers]

\* The entries of a delivery key in the ledger.
EntriesOf(k) ==
  {i \in DOMAIN ledger : build_delivery_key(ledger[i].message) = k}

\* A key goes to the transport again only after a retryable nack, and with the
\* same message: never after an acknowledgement, a final nack or an exception,
\* however often it is handed over and by however many tasks.  So what the
\* receivers see of a key is acknowledged at most once.
ResentOnlyAfterRetryableNack ==
  \A i, j \in DOMAIN ledger :
    /\ i < j
    /\ build_delivery_key(ledger[i].message) = build_delivery_key(ledger[j].message)
    => /\ ledger[i].state = "nacked" /\ ledger[i].retryable
       /\ ledger[j].message = ledger[i].message
       /\ ledger[j].attempt > ledger[i].attempt

\* Between calls: the caller was told accepted exactly for the messages the
\* transport acknowledged, not for another task's message under the same key.
AcceptedIsAcked ==
  pc = "idle" =>
    \A m \in Messages :
      "accepted" \in answers[m] <=>
        \E i \in DOMAIN ledger : ledger[i].message = m /\ ledger[i].state = "acked"

\* Between calls: the last attempt of the message met a retryable nack.
Exhausted(m) ==
  \E i \in DOMAIN ledger : /\ ledger[i].message = m
                           /\ ledger[i].attempt = MAX_ATTEMPTS
                           /\ ledger[i].state = "nacked" /\ ledger[i].retryable

\* A2A-005: between calls, a message whose retries are exhausted has a dead
\* letter, also when the audit event of it failed, and no message has two; and
\* the attempts counted towards exhaustion are those that were made.
ExhaustedIsDeadLettered ==
  /\ pc = "idle" =>
       \A m \in Messages :
         LET letters == {i \in DOMAIN deadLetters : deadLetters[i].message = m}
         IN  /\ Cardinality(letters) <= 1
             /\ Exhausted(m) => Cardinality(letters) = 1
  /\ \A k \in DeliveryKeys : records[k].attempts = Cardinality(EntriesOf(k))

\* A stream reaches the transport in the order of created_at, and no message id
\* twice for two tasks, retries and failures in between included.
StreamsAreOrdered ==
  \A i, j \in DOMAIN ledger :
    LET m == ledger[i].message
        n == ledger[j].message
    IN  i < j /\ Envelope[m].target = Envelope[n].target =>
          /\ Envelope[m].created_at <= Envelope[n].created_at
          /\ Envelope[m].message_id = Envelope[n].message_id => m = n

-----------------------------------------------------------------------------
(* What the documentation says and the code does not do *)

\* AgentCommunicationA2A.md:61, "Dead-letter trigger: non-retryable nack or retry
\* exhaustion": between calls, what was finally refused has a dead letter.  The
\* publisher writes one for the other trigger only.
RefusedIsDeadLettered ==
  pc = "idle" =>
    \A i \in DOMAIN ledger :
      ledger[i].state = "nacked" /\ ~ledger[i].retryable =>
        \E j \in DOMAIN deadLetters : deadLetters[j].message = ledger[i].message

\* publish, "communication delivery already in progress": between calls no key
\* is in progress.
NothingInProgressAtRest ==
  pc = "idle" => \A k \in DeliveryKeys : records[k].status # "in_progress"

=============================================================================
