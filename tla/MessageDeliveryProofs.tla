------------------------ MODULE MessageDeliveryProofs -----------------------
(***************************************************************************)
(* Proofs about MessageDelivery for every set of messages, keys and        *)
(* targets, any number of calls and any number of attempts.                *)
(***************************************************************************)
EXTENDS MessageDelivery, SequenceTheorems, FiniteSetTheorems, TLAPS

-----------------------------------------------------------------------------
(* Operators *)

\* A message has a delivery key.
LEMMA KeyType == \A m \in Messages : build_delivery_key(m) \in DeliveryKeys
  BY MessagesAssumption DEF build_delivery_key, DeliveryKeys

\* The fields of an envelope.
LEMMA EnvelopeType ==
  \A m \in Messages : /\ Envelope[m].message_id \in MessageIds
                      /\ Envelope[m].target \in Targets
                      /\ Envelope[m].created_at \in Nat
  BY MessagesAssumption

\* What begin_dispatch does to the ledger.
LEMMA AppendEntry ==
  ASSUME NEW l \in Seq(Entries), NEW e \in Entries
  PROVE  /\ Append(l, e) \in Seq(Entries)
         /\ Len(l) \in Nat /\ DOMAIN l = 1..Len(l)
         /\ DOMAIN Append(l, e) = 1..(Len(l) + 1)
         /\ Len(Append(l, e)) = Len(l) + 1
         /\ \A i \in 1..Len(l) : Append(l, e)[i] = l[i]
         /\ Append(l, e)[Len(l) + 1] = e
  OBVIOUS

-----------------------------------------------------------------------------
(* The inductive invariant *)

\* The record of the delivery key of m.
RecordOf(m) == records[build_delivery_key(m)]

\* An entry of the ledger belongs to the message its key was claimed for.
EntriesAreClaimed ==
  \A i \in DOMAIN ledger :
    /\ RecordOf(ledger[i].message).status # "absent"
    /\ RecordOf(ledger[i].message).payload = ledger[i].message

\* The message being published holds its key, and the attempts counted for it
\* are those that were begun.
KeyIsHeld ==
  pc # "idle" =>
    /\ cur \in Messages
    /\ attempt \in 1..MAX_ATTEMPTS
    /\ RecordOf(cur).status = "in_progress"
    /\ RecordOf(cur).payload = cur
    /\ attempt = RecordOf(cur).attempts + IF pc = "begin" THEN 1 ELSE 0

\* What the ledger says of the message being published: before an attempt all
\* earlier ones met a retryable nack; during it, and before the dead letter,
\* its entry is the last one.
LedgerOfCurrent ==
  /\ pc = "begin" =>
       \A i \in DOMAIN ledger : ledger[i].message = cur =>
         /\ ledger[i].state = "nacked" /\ ledger[i].retryable
         /\ ledger[i].attempt < attempt
  /\ pc \in {"send", "dead"} =>
       /\ Len(ledger) > 0
       /\ ledger[Len(ledger)].message = cur
       /\ ledger[Len(ledger)].attempt = attempt
  /\ pc = "send" => ledger[Len(ledger)].state = "prepared"
  /\ pc = "dead" => /\ attempt = MAX_ATTEMPTS
                    /\ ledger[Len(ledger)].state = "nacked"
                    /\ ledger[Len(ledger)].retryable

\* A claimed key belongs to its payload, which the ordering validator has seen.
ClaimedIsSeen ==
  \A k \in DeliveryKeys : records[k].status # "absent" =>
    LET m == records[k].payload
    IN  /\ m \in Messages
        /\ build_delivery_key(m) = k
        /\ Envelope[m].message_id \in messageIds[Envelope[m].target]
        /\ Envelope[m].created_at <= latestSeenAt[Envelope[m].target]

\* The message being published is the newest of its stream, and the only one
\* with its message id there.
StreamOfCurrent ==
  pc # "idle" =>
    /\ latestSeenAt[Envelope[cur].target] = Envelope[cur].created_at
    /\ \A k \in DeliveryKeys :
         /\ records[k].status # "absent"
         /\ Envelope[records[k].payload].target = Envelope[cur].target
         /\ Envelope[records[k].payload].message_id = Envelope[cur].message_id
         => records[k].payload = cur

\* A message was acknowledged.
IsAcked(m) ==
  \E i \in DOMAIN ledger : ledger[i].message = m /\ ledger[i].state = "acked"

\* accepted is answered in the step that marks the entry.
AnswersFollowAcks ==
  \A m \in Messages : "accepted" \in answers[m] <=> IsAcked(m)

HasDeadLetter(m) ==
  \E i \in DOMAIN deadLetters : deadLetters[i].message = m

\* A dead letter is missing only between the last nack and its writing.
DeadLettersFollowNacks ==
  /\ \A i, j \in DOMAIN deadLetters :
       deadLetters[i].message = deadLetters[j].message => i = j
  /\ \A m \in Messages :
       HasDeadLetter(m) <=> Exhausted(m) /\ ~(pc = "dead" /\ cur = m)

\* The attempts of a record are its entries.
AttemptsAreCounted ==
  \A k \in DeliveryKeys : records[k].attempts = Cardinality(EntriesOf(k))

Progress ==
  /\ EntriesAreClaimed /\ KeyIsHeld /\ LedgerOfCurrent
  /\ ResentOnlyAfterRetryableNack
  /\ ClaimedIsSeen /\ StreamOfCurrent /\ StreamsAreOrdered
  /\ AnswersFollowAcks /\ DeadLettersFollowNacks /\ AttemptsAreCounted

IInv == TypeOK /\ Progress

\* The records a key may have.
RecordValues ==
  {NoRecord}
    \union [status : {"in_progress"}, payload : Messages,
            attempts : 0..MAX_ATTEMPTS, result : {"none"}]
    \union [status : {"completed"}, payload : Messages,
            attempts : 1..MAX_ATTEMPTS, result : Results]

\* Every state that satisfies TypeOK has a typed record for each message.
LEMMA RecordType ==
  ASSUME TypeOK, NEW m \in Messages
  PROVE  /\ build_delivery_key(m) \in DeliveryKeys
         /\ RecordOf(m) \in RecordValues
  BY KeyType DEF TypeOK, RecordOf, RecordValues

\* What storing a record does to the records.
LEMMA StoreRecord ==
  ASSUME TypeOK, NEW k \in DeliveryKeys, NEW n \in RecordValues,
         records' = [records EXCEPT ![k] = n]
  PROVE  /\ records' \in [DeliveryKeys -> RecordValues]
         /\ records'[k] = n
         /\ \A j \in DeliveryKeys : j # k => records'[j] = records[j]
  <1>1. records \in [DeliveryKeys -> RecordValues]
    BY DEF TypeOK, RecordValues
  <1> QED
    BY <1>1

\* A record in progress after increment_attempt.
LEMMA IncrementedRecord ==
  ASSUME NEW m, NEW a, NEW b, NEW x, NEW y,
         x = [status |-> "in_progress", payload |-> m, attempts |-> a,
              result |-> "none"],
         y = [x EXCEPT !.attempts = b]
  PROVE  y = [status |-> "in_progress", payload |-> m, attempts |-> b,
              result |-> "none"]
  BY Zenon

\* A record in progress after complete.
LEMMA CompletedRecord ==
  ASSUME NEW m, NEW a, NEW r, NEW x, NEW y,
         x = [status |-> "in_progress", payload |-> m, attempts |-> a,
              result |-> "none"],
         y = [x EXCEPT !.status = "completed", !.result = r]
  PROVE  y = [status |-> "completed", payload |-> m, attempts |-> a,
              result |-> r]
  BY Zenon

\* The record that a claim stores.
LEMMA ClaimedRecord ==
  ASSUME NEW m, NEW y,
         y = [NoRecord EXCEPT !.status = "in_progress", !.payload = m]
  PROVE  y = [status |-> "in_progress", payload |-> m, attempts |-> 0,
              result |-> "none"]
  <1>1. PICK x : x = NoRecord
    OBVIOUS
  <1>2. x = [status |-> "absent", payload |-> NoMessage, attempts |-> 0,
             result |-> "none"]
    BY <1>1 DEF NoRecord
  <1>3. y = [x EXCEPT !.status = "in_progress", !.payload = m]
    BY <1>1
  <1> QED
    BY <1>2, <1>3, Zenon

\* The initial state satisfies the invariant.
LEMMA InitInvariant == Init => IInv
  <1> SUFFICES ASSUME Init PROVE IInv
    OBVIOUS
  <1>1. TypeOK
    BY DeliveryBounds DEF Init, TypeOK
  <1>2. /\ EntriesAreClaimed /\ KeyIsHeld /\ LedgerOfCurrent
        /\ ResentOnlyAfterRetryableNack
    BY DEF Init, EntriesAreClaimed, KeyIsHeld, LedgerOfCurrent,
           ResentOnlyAfterRetryableNack
  <1>3. \A k \in DeliveryKeys : /\ records[k].status = "absent"
                                /\ records[k].attempts = 0
    BY DEF Init, NoRecord
  <1>4. ClaimedIsSeen /\ StreamOfCurrent /\ StreamsAreOrdered
    BY <1>3 DEF Init, ClaimedIsSeen, StreamOfCurrent, StreamsAreOrdered
  <1>5. AnswersFollowAcks /\ DeadLettersFollowNacks
    BY DEF Init, AnswersFollowAcks, DeadLettersFollowNacks, IsAcked,
           HasDeadLetter, Exhausted
  <1>6. AttemptsAreCounted
    <2>1. \A k \in DeliveryKeys : EntriesOf(k) = {}
      BY DEF Init, EntriesOf
    <2> QED
      BY <1>3, <2>1, FS_EmptySet DEF AttemptsAreCounted
  <1> QED
    BY <1>1, <1>2, <1>4, <1>5, <1>6 DEF IInv, Progress

-----------------------------------------------------------------------------
(* What the actions do *)

\* The call ends: what Answer does to the variables of publish.
LEMMA AnswerType ==
  ASSUME TypeOK, NEW m \in Messages, NEW a \in Answers, Answer(m, a)
  PROVE  /\ answers' \in [Messages -> SUBSET Answers]
         /\ answers'[m] = answers[m] \union {a}
         /\ \A n \in Messages : n # m => answers'[n] = answers[n]
         /\ pc' = "idle" /\ cur' = NoMessage /\ attempt' = 0
  BY DEF TypeOK, Answer

\* The record of the message that is being published.
LEMMA HeldRecord ==
  ASSUME TypeOK, KeyIsHeld, pc # "idle"
  PROVE  /\ cur \in Messages
         /\ attempt \in 1..MAX_ATTEMPTS
         /\ build_delivery_key(cur) \in DeliveryKeys
         /\ \E a \in 0..MAX_ATTEMPTS :
              /\ records[build_delivery_key(cur)] =
                   [status |-> "in_progress", payload |-> cur, attempts |-> a,
                    result |-> "none"]
              /\ pc = "begin" => attempt = a + 1
              /\ pc # "begin" => attempt = a
  <1>1. /\ cur \in Messages /\ attempt \in 1..MAX_ATTEMPTS
        /\ RecordOf(cur).status = "in_progress"
        /\ RecordOf(cur).payload = cur
        /\ attempt = RecordOf(cur).attempts + IF pc = "begin" THEN 1 ELSE 0
    BY DEF KeyIsHeld
  <1>2. build_delivery_key(cur) \in DeliveryKeys
    BY <1>1, KeyType
  <1>3. RecordOf(cur) \in [status : {"in_progress"}, payload : Messages,
                           attempts : 0..MAX_ATTEMPTS, result : {"none"}]
    BY <1>1, RecordType DEF RecordValues, NoRecord
  <1>4. RecordOf(cur) = [status |-> "in_progress", payload |-> cur,
                         attempts |-> RecordOf(cur).attempts,
                         result |-> "none"]
    BY <1>1, <1>3
  <1>5. /\ RecordOf(cur).attempts \in 0..MAX_ATTEMPTS
        /\ pc = "begin" => attempt = RecordOf(cur).attempts + 1
        /\ pc # "begin" => attempt = RecordOf(cur).attempts
    BY <1>1, <1>3, DeliveryBounds
  <1> QED
    BY <1>1, <1>2, <1>4, <1>5 DEF RecordOf

\* The record of a claimed message is completed with its result.
LEMMA CompleteRecord ==
  ASSUME TypeOK, KeyIsHeld, pc \in {"send", "dead"}, NEW r \in Results,
         Complete(r)
  PROVE  /\ records' \in [DeliveryKeys -> RecordValues]
         /\ \A k \in DeliveryKeys : k # build_delivery_key(cur) =>
              records'[k] = records[k]
         /\ records'[build_delivery_key(cur)] =
              [status |-> "completed", payload |-> cur,
               attempts |-> attempt, result |-> r]
         /\ Answer(cur, r)
  <1> DEFINE k == build_delivery_key(cur)
             n == [status |-> "completed", payload |-> cur,
                   attempts |-> attempt, result |-> r]
  <1>1. /\ cur \in Messages /\ attempt \in 1..MAX_ATTEMPTS
        /\ k \in DeliveryKeys
        /\ records[k] = [status |-> "in_progress", payload |-> cur,
                         attempts |-> attempt, result |-> "none"]
    BY HeldRecord
  <1>2. records' = [records EXCEPT ![k] = n]
    <2>1. PICK y : y = [records[k] EXCEPT !.status = "completed", !.result = r]
      OBVIOUS
    <2>2. records' = [records EXCEPT ![k] = y]
      BY <1>1, <2>1 DEF Complete, TypeOK
    <2>3. PICK x : x = records[k]
      OBVIOUS
    <2>4. /\ x = [status |-> "in_progress", payload |-> cur,
                   attempts |-> attempt, result |-> "none"]
          /\ y = [x EXCEPT !.status = "completed", !.result = r]
      BY <1>1, <2>1, <2>3
    <2>5. y = n
      BY <2>4, CompletedRecord
    <2> QED
      BY <2>2, <2>5
  <1>3. n \in RecordValues
    BY <1>1 DEF RecordValues
  <1>4. Answer(cur, r)
    BY DEF Complete
  <1> HIDE DEF k, n
  <1>5. /\ records' \in [DeliveryKeys -> RecordValues]
        /\ records'[k] = n
        /\ \A j \in DeliveryKeys : j # k => records'[j] = records[j]
    BY <1>1, <1>2, <1>3, StoreRecord
  <1> QED
    BY <1>4, <1>5 DEF k, n

\* An attempt begins: its key counts it and its entry is the last one.
LEMMA BeginEffect ==
  ASSUME TypeOK, KeyIsHeld, BeginAttempt
  PROVE  /\ records' \in [DeliveryKeys -> RecordValues]
         /\ \A k \in DeliveryKeys : k # build_delivery_key(cur) =>
              records'[k] = records[k]
         /\ records'[build_delivery_key(cur)] =
              [status |-> "in_progress", payload |-> cur,
               attempts |-> attempt, result |-> "none"]
         /\ records[build_delivery_key(cur)].attempts + 1 = attempt
         /\ records[build_delivery_key(cur)].attempts \in Nat
         /\ [message |-> cur, attempt |-> attempt, state |-> "prepared",
             retryable |-> FALSE] \in Entries
  <1> DEFINE k == build_delivery_key(cur)
             n == [status |-> "in_progress", payload |-> cur,
                   attempts |-> attempt, result |-> "none"]
  <1>1. PICK a \in 0..MAX_ATTEMPTS :
          /\ cur \in Messages /\ attempt \in 1..MAX_ATTEMPTS
          /\ k \in DeliveryKeys /\ attempt = a + 1
          /\ records[k] = [status |-> "in_progress", payload |-> cur,
                           attempts |-> a, result |-> "none"]
    BY HeldRecord DEF BeginAttempt
  <1>2. records' = [records EXCEPT ![k] = n]
    <2>1. PICK y : y = [records[k] EXCEPT !.attempts = attempt]
      OBVIOUS
    <2>2. records[k].attempts + 1 = attempt
      BY <1>1
    <2>3. records' = [records EXCEPT ![k] = y]
      BY <1>1, <2>1, <2>2 DEF BeginAttempt, TypeOK
    <2>4. y = n
      BY <1>1, <2>1, IncrementedRecord
    <2> QED
      BY <2>3, <2>4
  <1>3. n \in RecordValues
    BY <1>1 DEF RecordValues
  <1>4. [message |-> cur, attempt |-> attempt, state |-> "prepared",
         retryable |-> FALSE] \in Entries
    BY <1>1 DEF Entries
  <1>5. records[k].attempts + 1 = attempt /\ records[k].attempts \in Nat
    BY <1>1
  <1> HIDE DEF k, n
  <1>6. /\ records' \in [DeliveryKeys -> RecordValues]
        /\ records'[k] = n
        /\ \A j \in DeliveryKeys : j # k => records'[j] = records[j]
    BY <1>1, <1>2, <1>3, StoreRecord
  <1> QED
    BY <1>4, <1>5, <1>6 DEF k, n

\* A key that was never claimed is claimed.
LEMMA ClaimEffect ==
  ASSUME TypeOK, NEW m \in Messages,
         records' = [records EXCEPT ![build_delivery_key(m)] =
                       [NoRecord EXCEPT !.status = "in_progress",
                                        !.payload = m]]
  PROVE  /\ records' \in [DeliveryKeys -> RecordValues]
         /\ \A k \in DeliveryKeys : k # build_delivery_key(m) =>
              records'[k] = records[k]
         /\ records'[build_delivery_key(m)] =
              [status |-> "in_progress", payload |-> m, attempts |-> 0,
               result |-> "none"]
  <1> DEFINE k == build_delivery_key(m)
             n == [status |-> "in_progress", payload |-> m, attempts |-> 0,
                   result |-> "none"]
  <1>1. k \in DeliveryKeys
    BY KeyType
  <1>2. records' = [records EXCEPT ![k] = n]
    <2>1. PICK y : y = [NoRecord EXCEPT !.status = "in_progress", !.payload = m]
      OBVIOUS
    <2>2. y = n
      BY <2>1, ClaimedRecord
    <2> QED
      BY <2>1, <2>2
  <1>3. n \in RecordValues
    BY DeliveryBounds DEF RecordValues
  <1> HIDE DEF k, n
  <1>4. /\ records' \in [DeliveryKeys -> RecordValues]
        /\ records'[k] = n
        /\ \A j \in DeliveryKeys : j # k => records'[j] = records[j]
    BY <1>1, <1>2, <1>3, StoreRecord
  <1> QED
    BY <1>4 DEF k, n

\* The last entry is marked: the entries keep their messages and attempts.
LEMMA MarkEffect ==
  ASSUME TypeOK, LedgerOfCurrent, pc = "send",
         NEW s \in {"acked", "nacked"}, NEW b \in BOOLEAN, Mark(s, b)
  PROVE  /\ Len(ledger) \in DOMAIN ledger
         /\ \A i \in DOMAIN ledger : i <= Len(ledger) /\ i \in Nat
         /\ ledger' \in Seq(Entries) /\ Len(ledger') = Len(ledger)
         /\ DOMAIN ledger' = DOMAIN ledger
         /\ \A i \in DOMAIN ledger : i # Len(ledger) => ledger'[i] = ledger[i]
         /\ \A i \in DOMAIN ledger : /\ ledger'[i].message = ledger[i].message
                                     /\ ledger'[i].attempt = ledger[i].attempt
         /\ ledger'[Len(ledger)].state = s
         /\ ledger'[Len(ledger)].retryable = b
  <1> DEFINE l == ledger
             e == [l[Len(l)] EXCEPT !.state = s, !.retryable = b]
  <1>1. l \in Seq(Entries) /\ Len(l) > 0
    BY DEF TypeOK, LedgerOfCurrent
  <1>2. /\ Len(l) \in Nat /\ DOMAIN l = 1..Len(l) /\ Len(l) \in 1..Len(l)
        /\ l[Len(l)] \in Entries
    BY <1>1
  <1>3. /\ e \in Entries /\ e.message = l[Len(l)].message
        /\ e.attempt = l[Len(l)].attempt /\ e.state = s /\ e.retryable = b
    BY <1>2 DEF Entries
  <1>4. ledger' = [l EXCEPT ![Len(l)] = e]
    BY <1>1, <1>2 DEF Mark, Entries
  <1> HIDE DEF e, l
  <1>5. ledger' \in Seq(Entries) /\ Len(ledger') = Len(l)
    BY <1>1, <1>2, <1>3, <1>4, ExceptSeq
  <1>6. DOMAIN ledger' = 1..Len(l) /\ ledger'[Len(l)] = e
    BY <1>2, <1>4
  <1>7. \A i \in 1..Len(l) : i # Len(l) => ledger'[i] = l[i]
    BY <1>2, <1>4
  <1>8. \A i \in 1..Len(l) : /\ ledger'[i].message = l[i].message
                             /\ ledger'[i].attempt = l[i].attempt
    BY <1>3, <1>6, <1>7
  <1>9. \A i \in 1..Len(l) : i <= Len(l) /\ i \in Nat
    BY <1>2
  <1> QED
    BY <1>2, <1>3, <1>5, <1>6, <1>7, <1>8, <1>9 DEF l

-----------------------------------------------------------------------------
(* What the steps of publish keep *)

\* The entries of the ledger, by index.
LEMMA LedgerType ==
  ASSUME TypeOK
  PROVE  /\ Len(ledger) \in Nat /\ DOMAIN ledger = 1..Len(ledger)
         /\ \A i \in DOMAIN ledger :
              /\ i \in Nat
              /\ ledger[i].message \in Messages
              /\ build_delivery_key(ledger[i].message) \in DeliveryKeys
              /\ ledger[i].attempt \in 1..MAX_ATTEMPTS
  <1>1. ledger \in Seq(Entries)
    BY DEF TypeOK
  <1>2. Len(ledger) \in Nat /\ DOMAIN ledger = 1..Len(ledger)
    BY <1>1
  <1>3. \A i \in DOMAIN ledger : ledger[i] \in Entries
    BY <1>1
  <1> QED
    BY <1>2, <1>3, KeyType DEF Entries

\* The keys stay claimed by the messages that have them.
SameClaims ==
  \A k \in DeliveryKeys :
    /\ records'[k].status = "absent" <=> records[k].status = "absent"
    /\ records'[k].payload = records[k].payload

\* The attempts stay those of the same messages.
SameEntries ==
  /\ DOMAIN ledger' = DOMAIN ledger
  /\ \A i \in DOMAIN ledger : /\ ledger'[i].message = ledger[i].message
                              /\ ledger'[i].attempt = ledger[i].attempt

\* While the validator is not asked, the claimed messages remain seen.
LEMMA ClaimsCarryOver ==
  ASSUME ClaimedIsSeen, SameClaims, UNCHANGED <<messageIds, latestSeenAt>>
  PROVE  ClaimedIsSeen'
  BY DEF ClaimedIsSeen, SameClaims

\* What depends on the message and the attempt of each entry only.
LEMMA EntriesCarryOver ==
  ASSUME TypeOK, EntriesAreClaimed, StreamsAreOrdered, SameClaims, SameEntries
  PROVE  /\ EntriesAreClaimed' /\ StreamsAreOrdered'
         /\ \A k \in DeliveryKeys : EntriesOf(k)' = EntriesOf(k)
  <1>1. EntriesAreClaimed'
    BY LedgerType DEF EntriesAreClaimed, SameClaims, SameEntries, RecordOf
  <1>2. StreamsAreOrdered'
    BY DEF StreamsAreOrdered, SameEntries
  <1>3. \A k \in DeliveryKeys : EntriesOf(k)' = EntriesOf(k)
    BY DEF SameEntries, EntriesOf
  <1> QED
    BY <1>1, <1>2, <1>3

\* A call that ends holds nothing.
LEMMA EndedHoldsNothing ==
  ASSUME pc' = "idle"
  PROVE  KeyIsHeld' /\ LedgerOfCurrent' /\ StreamOfCurrent'
  BY DEF KeyIsHeld, LedgerOfCurrent, StreamOfCurrent

\* Completing the key of the message being published keeps all claims and
\* attempts.
LEMMA CompleteKeeps ==
  ASSUME TypeOK, KeyIsHeld, pc \in {"send", "dead"}, NEW r \in Results,
         Complete(r)
  PROVE  /\ SameClaims
         /\ \A k \in DeliveryKeys : records'[k].attempts = records[k].attempts
  <1>1. PICK a \in 0..MAX_ATTEMPTS :
          /\ records[build_delivery_key(cur)] =
                   [status |-> "in_progress", payload |-> cur, attempts |-> a,
                    result |-> "none"]
          /\ attempt = a
    BY HeldRecord
  <1>2. /\ \A k \in DeliveryKeys : k # build_delivery_key(cur) =>
             records'[k] = records[k]
        /\ records'[build_delivery_key(cur)] =
             [status |-> "completed", payload |-> cur,
              attempts |-> attempt, result |-> r]
    BY CompleteRecord
  <1> QED
    BY <1>1, <1>2 DEF SameClaims

\* Nothing but the last entry, and that only from prepared, is marked.
LEMMA MarkKeeps ==
  ASSUME TypeOK, LedgerOfCurrent, ResentOnlyAfterRetryableNack, pc = "send",
         NEW s \in {"acked", "nacked"}, NEW b \in BOOLEAN, Mark(s, b)
  PROVE  /\ SameEntries
         /\ ResentOnlyAfterRetryableNack'
         /\ \A m \in Messages :
              IsAcked(m)' <=> IsAcked(m) \/ (s = "acked" /\ m = cur)
         /\ \A m \in Messages :
              Exhausted(m)' <=>
                \/ Exhausted(m)
                \/ /\ s = "nacked" /\ b /\ attempt = MAX_ATTEMPTS
                   /\ m = cur
  <1> USE MarkEffect
  <1>1. SameEntries
    BY DEF SameEntries
  <1>2. ResentOnlyAfterRetryableNack'
    <2> SUFFICES ASSUME NEW i \in DOMAIN ledger, NEW j \in DOMAIN ledger,
                        i < j,
                        build_delivery_key(ledger[i].message)
                          = build_delivery_key(ledger[j].message)
                 PROVE  /\ ledger'[i].state = "nacked" /\ ledger'[i].retryable
                        /\ ledger'[j].message = ledger'[i].message
                        /\ ledger'[j].attempt > ledger'[i].attempt
      BY DEF ResentOnlyAfterRetryableNack
    <2>1. i # Len(ledger)
      BY LedgerType
    <2>2. ledger'[i] = ledger[i]
      BY <2>1
    <2>3. /\ ledger[i].state = "nacked" /\ ledger[i].retryable
          /\ ledger[j].message = ledger[i].message
          /\ ledger[j].attempt > ledger[i].attempt
      BY DEF ResentOnlyAfterRetryableNack
    <2> QED
      BY <2>2, <2>3
  <1>3. /\ ledger[Len(ledger)].message = cur
        /\ ledger[Len(ledger)].state = "prepared"
        /\ ledger[Len(ledger)].attempt = attempt
    BY DEF LedgerOfCurrent
  <1>4. ASSUME NEW m \in Messages
        PROVE  IsAcked(m)' <=> IsAcked(m) \/ (s = "acked" /\ m = cur)
    BY <1>3 DEF IsAcked
  <1>5. ASSUME NEW m \in Messages
        PROVE  Exhausted(m)' <=>
                \/ Exhausted(m)
                \/ /\ s = "nacked" /\ b /\ attempt = MAX_ATTEMPTS
                   /\ m = cur
    BY <1>3 DEF Exhausted
  <1> QED
    BY <1>1, <1>2, <1>4, <1>5

-----------------------------------------------------------------------------
(* Every step keeps the invariant *)

\* A call that ends without touching the stores (the validator refuses, the
\* transport raises).
LEMMA EndKeeps ==
  ASSUME IInv, pc # "dead", UNCHANGED stores, NEW m \in Messages,
         NEW a \in Answers \ {"accepted"}, Answer(m, a), calls' \in 0..MaxCalls
  PROVE  IInv'
  <1> USE DEF IInv, Progress
  <1>1. /\ answers' \in [Messages -> SUBSET Answers]
        /\ answers'[m] = answers[m] \union {a}
        /\ \A n \in Messages : n # m => answers'[n] = answers[n]
        /\ pc' = "idle" /\ cur' = NoMessage /\ attempt' = 0
    BY AnswerType
  <1>2. TypeOK'
    BY <1>1, DeliveryBounds DEF TypeOK, stores
  <1>3. KeyIsHeld' /\ LedgerOfCurrent' /\ StreamOfCurrent'
    BY <1>1, EndedHoldsNothing
  <1>4. EntriesAreClaimed' /\ ResentOnlyAfterRetryableNack'
    BY DEF EntriesAreClaimed, ResentOnlyAfterRetryableNack, stores, RecordOf
  <1>5. ClaimedIsSeen' /\ StreamsAreOrdered'
    BY DEF ClaimedIsSeen, StreamsAreOrdered, stores
  <1>6. AnswersFollowAcks'
    <2>1. \A n \in Messages : IsAcked(n)' <=> IsAcked(n)
      BY DEF IsAcked, stores
    <2>2. \A n \in Messages : "accepted" \in answers'[n]
                                <=> "accepted" \in answers[n]
      BY <1>1
    <2> QED
      BY <2>1, <2>2 DEF AnswersFollowAcks
  <1>7. DeadLettersFollowNacks'
    BY <1>1 DEF DeadLettersFollowNacks, HasDeadLetter, Exhausted, stores
  <1>8. AttemptsAreCounted'
    BY DEF AttemptsAreCounted, EntriesOf, stores
  <1> QED
    BY <1>2, <1>3, <1>4, <1>5, <1>6, <1>7, <1>8

\* Under the ordering validator a claim is never a replay: the payload of a
\* finished key was seen in its stream.
LEMMA NeverReplayed ==
  ASSUME IInv, NEW m \in Messages, validate(m)
  PROVE  /\ claim(m) \in {"new", "in_progress", "conflict"}
         /\ claim(m) = "new" <=> RecordOf(m).status = "absent"
         /\ claim(m) # "new" => Claimed(m) = claim(m)
  <1>1. /\ build_delivery_key(m) \in DeliveryKeys
        /\ RecordOf(m).status # "absent" => RecordOf(m).payload # m
    BY RecordType DEF IInv, Progress, ClaimedIsSeen, validate, RecordOf
  <1> QED
    BY <1>1 DEF claim, Claimed, RecordOf

\* dispatch up to the claim.
LEMMA DispatchKeeps ==
  ASSUME IInv, NEW m \in Messages, Dispatch(m)
  PROVE  IInv'
  <1> USE DEF IInv, Progress
  <1> DEFINE env == Envelope[m]
  <1>1. /\ pc = "idle" /\ validate(m) /\ calls' = calls + 1
        /\ calls < MaxCalls
        /\ UNCHANGED <<ledger, deadLetters>>
    BY DEF Dispatch
  <1>2. /\ env.target \in Targets /\ env.message_id \in MessageIds
        /\ env.created_at \in Nat
    BY EnvelopeType
  <1>3. /\ messageIds' \in [Targets -> SUBSET MessageIds]
        /\ latestSeenAt' \in [Targets -> Nat]
        /\ calls' \in 0..MaxCalls
    <2>1. /\ messageIds \in [Targets -> SUBSET MessageIds]
          /\ latestSeenAt \in [Targets -> Nat] /\ calls \in 0..MaxCalls
      BY DEF TypeOK
    <2>2. messageIds' = [messageIds EXCEPT ![env.target] =
                                             @ \union {env.message_id}]
          /\ latestSeenAt' = [latestSeenAt EXCEPT ![env.target] =
                                                    env.created_at]
      BY DEF Dispatch
    <2> HIDE DEF env, IInv, Progress
    <2>3. messageIds' \in [Targets -> SUBSET MessageIds]
      BY <1>2, <2>1, <2>2
    <2>4. latestSeenAt' \in [Targets -> Nat]
      BY <1>2, <2>1, <2>2
    <2>5. calls' \in 0..MaxCalls
      BY <1>1, <2>1, DeliveryBounds
    <2> QED
      BY <2>3, <2>4, <2>5
  <1>4. /\ \A t \in Targets : messageIds[t] \subseteq messageIds'[t]
        /\ env.message_id \in messageIds'[env.target]
        /\ \A t \in Targets : latestSeenAt[t] \in Nat /\ latestSeenAt'[t] \in Nat
        /\ \A t \in Targets : latestSeenAt[t] <= latestSeenAt'[t]
        /\ latestSeenAt'[env.target] = env.created_at
    BY <1>1, <1>2 DEF Dispatch, TypeOK, validate
  <1>5. \A k \in DeliveryKeys : records[k].status # "absent" =>
          LET p == records[k].payload
          IN  /\ p \in Messages
              /\ build_delivery_key(p) = k
              /\ Envelope[p].message_id \in messageIds'[Envelope[p].target]
              /\ Envelope[p].created_at <= latestSeenAt'[Envelope[p].target]
    <2> SUFFICES ASSUME NEW k \in DeliveryKeys, records[k].status # "absent"
                 PROVE  LET p == records[k].payload
                        IN  /\ p \in Messages
                            /\ build_delivery_key(p) = k
                            /\ Envelope[p].message_id
                                 \in messageIds'[Envelope[p].target]
                            /\ Envelope[p].created_at
                                 <= latestSeenAt'[Envelope[p].target]
      OBVIOUS
    <2> DEFINE p == records[k].payload
    <2>1. /\ p \in Messages /\ build_delivery_key(p) = k
          /\ Envelope[p].message_id \in messageIds[Envelope[p].target]
          /\ Envelope[p].created_at <= latestSeenAt[Envelope[p].target]
      BY DEF ClaimedIsSeen
    <2>2. Envelope[p].target \in Targets /\ Envelope[p].created_at \in Nat
      BY <2>1, EnvelopeType
    <2> HIDE DEF p
    <2>3. /\ Envelope[p].message_id \in messageIds'[Envelope[p].target]
          /\ Envelope[p].created_at <= latestSeenAt'[Envelope[p].target]
      BY <1>4, <2>1, <2>2
    <2> QED
      BY <2>1, <2>3 DEF p
  <1>6. ResentOnlyAfterRetryableNack' /\ StreamsAreOrdered'
    BY <1>1 DEF ResentOnlyAfterRetryableNack, StreamsAreOrdered
  <1>7. \A n \in Messages : /\ IsAcked(n)' <=> IsAcked(n)
                            /\ Exhausted(n)' <=> Exhausted(n)
                            /\ HasDeadLetter(n)' <=> HasDeadLetter(n)
    BY <1>1 DEF IsAcked, Exhausted, HasDeadLetter
  <1>8. \A k \in DeliveryKeys : EntriesOf(k)' = EntriesOf(k)
    BY <1>1 DEF EntriesOf
  <1>9. CASE claim(m) = "new"
    <2>1. /\ records' = [records EXCEPT ![build_delivery_key(m)] =
                         [NoRecord EXCEPT !.status = "in_progress",
                                          !.payload = m]]
          /\ pc' = "begin" /\ cur' = m /\ attempt' = 1
          /\ UNCHANGED answers
      BY <1>9 DEF Dispatch
    <2> DEFINE k0 == build_delivery_key(m)
    <2>2. /\ records' \in [DeliveryKeys -> RecordValues]
          /\ \A k \in DeliveryKeys : k # k0 => records'[k] = records[k]
          /\ records'[k0] = [status |-> "in_progress", payload |-> m,
                             attempts |-> 0, result |-> "none"]
      BY <2>1, ClaimEffect
    <2>3. k0 \in DeliveryKeys /\ records[k0].status = "absent"
      BY <1>1, <1>9, KeyType, NeverReplayed DEF RecordOf
    <2>4. TypeOK'
      BY <1>1, <1>3, <2>1, <2>2, DeliveryBounds DEF TypeOK, RecordValues
    <2>5. \A i \in DOMAIN ledger : build_delivery_key(ledger[i].message) # k0
      BY <2>3 DEF EntriesAreClaimed, RecordOf
    <2>6. EntriesAreClaimed'
      BY <1>1, <2>2, <2>5, LedgerType DEF EntriesAreClaimed, RecordOf
    <2>7. KeyIsHeld'
      <3>1. RecordOf(cur)' = [status |-> "in_progress", payload |-> m,
                              attempts |-> 0, result |-> "none"]
        BY <2>1, <2>2 DEF RecordOf
      <3>2. attempt' = RecordOf(cur)'.attempts + 1
        BY <2>1, <3>1
      <3> QED
        BY <2>1, <3>1, <3>2, DeliveryBounds DEF KeyIsHeld
    <2>8. LedgerOfCurrent'
      BY <1>1, <2>1, <2>5 DEF LedgerOfCurrent
    <2>9. ClaimedIsSeen'
      <3>1. ASSUME NEW k \in DeliveryKeys, records'[k].status # "absent",
                   NEW p, p = records'[k].payload
            PROVE  /\ p \in Messages
                   /\ build_delivery_key(p) = k
                   /\ Envelope[p].message_id \in messageIds'[Envelope[p].target]
                   /\ Envelope[p].created_at <= latestSeenAt'[Envelope[p].target]
        <4>1. CASE k = k0
          <5>1. p = m
            BY <2>2, <3>1, <4>1
          <5> QED
            BY <5>1, <4>1, <1>2, <1>4
        <4>2. CASE k # k0
          BY <1>5, <2>2, <3>1, <4>2
        <4> QED
          BY <4>1, <4>2
      <3> QED
        BY <3>1 DEF ClaimedIsSeen
    <2>10. StreamOfCurrent'
      BY <1>1, <1>2, <1>4, <2>1, <2>2
      DEF StreamOfCurrent, ClaimedIsSeen, validate
    <2>11. AnswersFollowAcks'
      BY <1>7, <2>1 DEF AnswersFollowAcks
    <2>12. DeadLettersFollowNacks'
      BY <1>1, <1>7, <2>1 DEF DeadLettersFollowNacks
    <2>13. AttemptsAreCounted'
      <3>1. records[k0].attempts = 0
        BY <2>3, RecordType DEF RecordOf, RecordValues, NoRecord
      <3> QED
        BY <1>8, <2>2, <2>3, <3>1 DEF AttemptsAreCounted
    <2> QED
      BY <1>6, <2>4, <2>6, <2>7, <2>8, <2>9, <2>10, <2>11, <2>12, <2>13
  <1>10. CASE claim(m) # "new"
    <2>1. Answer(m, claim(m)) /\ records' = records
      BY <1>1, <1>10, NeverReplayed DEF Dispatch
    <2>2. claim(m) \in {"in_progress", "conflict"}
      BY <1>1, <1>10, NeverReplayed
    <2>3. /\ answers' \in [Messages -> SUBSET Answers]
          /\ answers'[m] = answers[m] \union {claim(m)}
          /\ \A n \in Messages : n # m => answers'[n] = answers[n]
          /\ pc' = "idle" /\ cur' = NoMessage /\ attempt' = 0
      BY <2>1, <2>2, AnswerType DEF Answers
    <2>4. TypeOK'
      BY <1>1, <1>3, <2>1, <2>3, DeliveryBounds DEF TypeOK
    <2>5. KeyIsHeld' /\ LedgerOfCurrent' /\ StreamOfCurrent'
      BY <2>3, EndedHoldsNothing
    <2>6. EntriesAreClaimed'
      BY <1>1, <2>1 DEF EntriesAreClaimed, RecordOf
    <2>7. ClaimedIsSeen'
      BY <1>5, <2>1 DEF ClaimedIsSeen
    <2>8. AnswersFollowAcks'
      BY <1>7, <2>2, <2>3 DEF AnswersFollowAcks
    <2>9. DeadLettersFollowNacks'
      BY <1>1, <1>7, <2>3 DEF DeadLettersFollowNacks
    <2>10. AttemptsAreCounted'
      BY <1>8, <2>1 DEF AttemptsAreCounted
    <2> QED
      BY <1>6, <2>4, <2>5, <2>6, <2>7, <2>8, <2>9, <2>10
  <1> QED
    BY <1>9, <1>10

\* increment_attempt and begin_dispatch.
LEMMA BeginKeeps ==
  ASSUME IInv, BeginAttempt
  PROVE  IInv'
  <1> USE DEF IInv, Progress
  <1> DEFINE k0 == build_delivery_key(cur)
             n == Len(ledger) + 1
             e == [message |-> cur, attempt |-> attempt,
                   state |-> "prepared", retryable |-> FALSE]
  <1>1. /\ pc = "begin" /\ pc' = "send" /\ ledger' = Append(ledger, e)
        /\ UNCHANGED <<messageIds, latestSeenAt, deadLetters, cur, attempt,
                       calls, answers>>
    BY DEF BeginAttempt
  <1>2. PICK a \in 0..MAX_ATTEMPTS :
          /\ cur \in Messages /\ attempt \in 1..MAX_ATTEMPTS
          /\ k0 \in DeliveryKeys
          /\ records[k0] = [status |-> "in_progress", payload |-> cur,
                            attempts |-> a, result |-> "none"]
    BY <1>1, HeldRecord
  <1>3. /\ records' \in [DeliveryKeys -> RecordValues]
        /\ \A k \in DeliveryKeys : k # k0 => records'[k] = records[k]
        /\ records'[k0] = [status |-> "in_progress", payload |-> cur,
                           attempts |-> attempt, result |-> "none"]
        /\ records[k0].attempts + 1 = attempt
        /\ records[k0].attempts \in Nat
        /\ e \in Entries
    BY BeginEffect
  <1>4. /\ ledger' \in Seq(Entries)
        /\ Len(ledger) \in Nat /\ DOMAIN ledger = 1..Len(ledger)
        /\ DOMAIN ledger' = 1..n /\ Len(ledger') = n
        /\ \A i \in 1..Len(ledger) : ledger'[i] = ledger[i]
        /\ ledger'[n] = e
    BY <1>1, <1>3, AppendEntry DEF TypeOK
  <1>5. /\ \A i \in DOMAIN ledger : ledger'[i] = ledger[i] /\ i < n /\ i \in Nat
        /\ \A i \in DOMAIN ledger' : i \in DOMAIN ledger \/ i = n
        /\ DOMAIN ledger \subseteq DOMAIN ledger' /\ n \in DOMAIN ledger'
        /\ n \notin DOMAIN ledger
        /\ ledger'[n].message = cur /\ ledger'[n].attempt = attempt
        /\ ledger'[n].state = "prepared" /\ ledger'[n].retryable = FALSE
    BY <1>4
  <1> HIDE DEF n, e
  <1>6. SameClaims
    BY <1>2, <1>3 DEF SameClaims
  <1>7. TypeOK'
    BY <1>1, <1>3, <1>4 DEF TypeOK, RecordValues
  <1>8. EntriesAreClaimed'
    <2> SUFFICES ASSUME NEW i \in DOMAIN ledger'
                 PROVE  /\ RecordOf(ledger[i].message)'.status # "absent"
                        /\ RecordOf(ledger[i].message)'.payload
                             = ledger'[i].message
      BY DEF EntriesAreClaimed
    <2>1. CASE i = n
      BY <1>3, <1>5, <2>1 DEF RecordOf
    <2>2. CASE i \in DOMAIN ledger
      BY <1>5, <1>6, <2>2, LedgerType DEF EntriesAreClaimed, SameClaims, RecordOf
    <2> QED
      BY <1>5, <2>1, <2>2
  <1>9. KeyIsHeld'
    <2>1. /\ RecordOf(cur)'.status = "in_progress"
          /\ RecordOf(cur)'.payload = cur'
          /\ attempt' = RecordOf(cur)'.attempts + 0
      BY <1>1, <1>2, <1>3 DEF RecordOf
    <2> QED
      BY <1>1, <1>2, <2>1 DEF KeyIsHeld
  <1>10. LedgerOfCurrent'
    BY <1>1, <1>4, <1>5 DEF LedgerOfCurrent, n
  <1>11. ResentOnlyAfterRetryableNack'
    <2> SUFFICES ASSUME NEW i \in DOMAIN ledger', NEW j \in DOMAIN ledger',
                        i < j,
                        build_delivery_key(ledger'[i].message)
                          = build_delivery_key(ledger'[j].message)
                 PROVE  /\ ledger'[i].state = "nacked" /\ ledger'[i].retryable
                        /\ ledger'[j].message = ledger'[i].message
                        /\ ledger'[j].attempt > ledger'[i].attempt
      BY DEF ResentOnlyAfterRetryableNack
    <2>1. i \in DOMAIN ledger
      BY <1>4, <1>5 DEF n
    <2>2. CASE j \in DOMAIN ledger
      BY <1>5, <2>1, <2>2 DEF ResentOnlyAfterRetryableNack
    <2>3. CASE j = n
      <3>1. build_delivery_key(ledger[i].message) = k0
        BY <1>5, <2>1, <2>3
      <3>2. ledger[i].message = cur
        BY <1>2, <2>1, <3>1 DEF EntriesAreClaimed, RecordOf
      <3>3. /\ ledger[i].state = "nacked" /\ ledger[i].retryable
            /\ ledger[i].attempt < attempt
        BY <1>1, <2>1, <3>2 DEF LedgerOfCurrent
      <3>4. ledger[i].attempt \in Nat /\ attempt \in Nat
        BY <1>2, <2>1, LedgerType, DeliveryBounds
      <3> QED
        BY <1>5, <2>1, <2>3, <3>2, <3>3, <3>4
    <2> QED
      BY <1>5, <2>2, <2>3
  <1>12. ClaimedIsSeen'
    BY <1>1, <1>6, ClaimsCarryOver
  <1>13. StreamOfCurrent'
    BY <1>1, <1>6 DEF StreamOfCurrent, SameClaims
  <1>14. StreamsAreOrdered'
    <2>1. ASSUME NEW i \in DOMAIN ledger,
                 Envelope[ledger[i].message].target = Envelope[cur].target
          PROVE  /\ Envelope[ledger[i].message].created_at
                      <= Envelope[cur].created_at
                 /\ Envelope[ledger[i].message].message_id
                      = Envelope[cur].message_id => ledger[i].message = cur
      <3> DEFINE k == build_delivery_key(ledger[i].message)
      <3>1. /\ k \in DeliveryKeys /\ records[k].status # "absent"
            /\ records[k].payload = ledger[i].message
        BY LedgerType DEF EntriesAreClaimed, RecordOf
      <3> HIDE DEF k
      <3>2. Envelope[records[k].payload].created_at
              <= latestSeenAt[Envelope[records[k].payload].target]
        BY <3>1 DEF ClaimedIsSeen
      <3> QED
        BY <1>1, <2>1, <3>1, <3>2 DEF StreamOfCurrent
    <2> SUFFICES ASSUME NEW i \in DOMAIN ledger', NEW j \in DOMAIN ledger',
                        i < j,
                        Envelope[ledger'[i].message].target
                          = Envelope[ledger'[j].message].target
                 PROVE  /\ Envelope[ledger'[i].message].created_at
                             <= Envelope[ledger'[j].message].created_at
                        /\ Envelope[ledger'[i].message].message_id
                             = Envelope[ledger'[j].message].message_id
                             => ledger'[i].message = ledger'[j].message
      BY DEF StreamsAreOrdered
    <2>2. i \in DOMAIN ledger
      BY <1>4, <1>5 DEF n
    <2>3. CASE j \in DOMAIN ledger
      BY <1>5, <2>2, <2>3 DEF StreamsAreOrdered
    <2>4. CASE j = n
      BY <1>5, <2>1, <2>2, <2>4
    <2> QED
      BY <1>5, <2>3, <2>4
  <1>15. \A m \in Messages : /\ IsAcked(m)' <=> IsAcked(m)
                             /\ Exhausted(m)' <=> Exhausted(m)
    BY <1>5 DEF IsAcked, Exhausted
  <1>16. AnswersFollowAcks'
    BY <1>1, <1>15 DEF AnswersFollowAcks
  <1>17. DeadLettersFollowNacks'
    BY <1>1, <1>15 DEF DeadLettersFollowNacks, HasDeadLetter
  <1>18. AttemptsAreCounted'
    <2>1. ASSUME NEW k \in DeliveryKeys
          PROVE  IsFiniteSet(EntriesOf(k))
      <3>1. IsFiniteSet(1..Len(ledger))
        BY <1>4, FS_Interval
      <3>2. EntriesOf(k) \subseteq 1..Len(ledger)
        BY <1>4 DEF EntriesOf
      <3> QED
        BY <3>1, <3>2, FS_Subset
    <2>2. ASSUME NEW k \in DeliveryKeys, k = k0
          PROVE  EntriesOf(k)' = EntriesOf(k) \union {n} /\ n \notin EntriesOf(k)
      BY <1>5, <2>2 DEF EntriesOf
    <2>3. ASSUME NEW k \in DeliveryKeys, k = k0
          PROVE  Cardinality(EntriesOf(k)') = Cardinality(EntriesOf(k)) + 1
      BY <2>1, <2>2, <2>3, FS_AddElement
    <2>4. \A k \in DeliveryKeys : k # k0 => EntriesOf(k)' = EntriesOf(k)
      BY <1>5 DEF EntriesOf
    <2> SUFFICES ASSUME NEW k \in DeliveryKeys
                 PROVE  records'[k].attempts = Cardinality(EntriesOf(k)')
      BY DEF AttemptsAreCounted
    <2>5. CASE k = k0
      <3>1. records[k].attempts = Cardinality(EntriesOf(k))
        BY DEF AttemptsAreCounted
      <3>2. records'[k].attempts = records[k].attempts + 1
        BY <1>3, <2>5
      <3> QED
        BY <2>3, <2>5, <3>1, <3>2
    <2>6. CASE k # k0
      BY <1>3, <2>4, <2>6 DEF AttemptsAreCounted
    <2> QED
      BY <2>5, <2>6
  <1> QED
    BY <1>7, <1>8, <1>9, <1>10, <1>11, <1>12, <1>13, <1>14, <1>16, <1>17, <1>18

\* The attempt of the message being published is marked and its key completed:
\* the transport acknowledged, or refused for good.
LEMMA MarkedAndCompleted ==
  ASSUME IInv, pc = "send", NEW s \in {"acked", "nacked"}, NEW b \in BOOLEAN,
         Mark(s, b), NEW r \in Results, Complete(r),
         s = "acked" <=> r = "accepted", s = "acked" \/ ~b,
         UNCHANGED <<messageIds, latestSeenAt, deadLetters, calls>>
  PROVE  IInv'
  <1> USE DEF IInv, Progress
  <1>1. /\ SameClaims
        /\ \A k \in DeliveryKeys : records'[k].attempts = records[k].attempts
    BY CompleteKeeps
  <1>2. /\ records' \in [DeliveryKeys -> RecordValues] /\ Answer(cur, r)
    BY CompleteRecord
  <1>3. cur \in Messages
    BY HeldRecord
  <1>4. /\ answers' \in [Messages -> SUBSET Answers]
        /\ answers'[cur] = answers[cur] \union {r}
        /\ \A n \in Messages : n # cur => answers'[n] = answers[n]
        /\ pc' = "idle" /\ cur' = NoMessage /\ attempt' = 0
    BY <1>2, <1>3, AnswerType DEF Answers
  <1>5. /\ SameEntries /\ ResentOnlyAfterRetryableNack'
        /\ \A m \in Messages :
             IsAcked(m)' <=> IsAcked(m) \/ (s = "acked" /\ m = cur)
        /\ \A m \in Messages : Exhausted(m)' <=> Exhausted(m)
    BY MarkKeeps
  <1>6. ledger' \in Seq(Entries)
    BY MarkEffect
  <1>7. TypeOK'
    BY <1>2, <1>4, <1>6, DeliveryBounds DEF TypeOK, RecordValues
  <1>8. KeyIsHeld' /\ LedgerOfCurrent' /\ StreamOfCurrent'
    BY <1>4, EndedHoldsNothing
  <1>9. ClaimedIsSeen'
    BY <1>1, ClaimsCarryOver
  <1>10. /\ EntriesAreClaimed' /\ StreamsAreOrdered'
         /\ \A k \in DeliveryKeys : EntriesOf(k)' = EntriesOf(k)
    BY <1>1, <1>5, EntriesCarryOver
  <1>11. AnswersFollowAcks'
    BY <1>3, <1>4, <1>5 DEF AnswersFollowAcks
  <1>12. DeadLettersFollowNacks'
    BY <1>4, <1>5 DEF DeadLettersFollowNacks, HasDeadLetter
  <1>13. AttemptsAreCounted'
    BY <1>1, <1>10 DEF AttemptsAreCounted
  <1> QED
    BY <1>5, <1>7, <1>8, <1>9, <1>10, <1>11, <1>12, <1>13

\* A retryable nack: another attempt, or the dead letter.
LEMMA RetryableKeeps ==
  ASSUME IInv, pc = "send", Mark("nacked", TRUE),
         \/ attempt < MAX_ATTEMPTS /\ pc' = "begin" /\ attempt' = attempt + 1
         \/ attempt >= MAX_ATTEMPTS /\ pc' = "dead" /\ attempt' = attempt,
         UNCHANGED <<records, cur, answers, messageIds, latestSeenAt,
                     deadLetters, calls>>
  PROVE  IInv'
  <1> USE DEF IInv, Progress
  <1> DEFINE n == Len(ledger)
  <1>1. PICK a \in 0..MAX_ATTEMPTS :
          /\ cur \in Messages /\ attempt \in 1..MAX_ATTEMPTS
          /\ build_delivery_key(cur) \in DeliveryKeys
          /\ records[build_delivery_key(cur)] =
               [status |-> "in_progress", payload |-> cur, attempts |-> a,
                result |-> "none"]
          /\ attempt = a
    BY HeldRecord
  <1>2. /\ SameEntries /\ ResentOnlyAfterRetryableNack'
        /\ \A m \in Messages : IsAcked(m)' <=> IsAcked(m)
        /\ \A m \in Messages :
              Exhausted(m)' <=>
                Exhausted(m) \/ (attempt = MAX_ATTEMPTS /\ m = cur)
    BY MarkKeeps
  <1>3. /\ n \in DOMAIN ledger /\ n \in Nat
        /\ \A i \in DOMAIN ledger : i <= n /\ i \in Nat
        /\ ledger' \in Seq(Entries) /\ Len(ledger') = n
        /\ DOMAIN ledger' = DOMAIN ledger
        /\ \A i \in DOMAIN ledger : i # n => ledger'[i] = ledger[i]
        /\ \A i \in DOMAIN ledger : /\ ledger'[i].message = ledger[i].message
                                    /\ ledger'[i].attempt = ledger[i].attempt
        /\ ledger'[n].state = "nacked" /\ ledger'[n].retryable
    BY MarkEffect
  <1>4. /\ ledger[n].message = cur /\ ledger[n].attempt = attempt
        /\ ledger[n].state = "prepared"
    BY DEF LedgerOfCurrent
  <1>5. SameClaims
    BY DEF SameClaims
  <1>6. TypeOK'
    BY <1>1, <1>3, DeliveryBounds DEF TypeOK
  <1>7. KeyIsHeld'
    <2>1. /\ RecordOf(cur)'.status = "in_progress"
          /\ RecordOf(cur)'.payload = cur'
          /\ RecordOf(cur)'.attempts = attempt
      BY <1>1 DEF RecordOf
    <2> QED
      BY <1>1, <2>1, DeliveryBounds DEF KeyIsHeld
  <1>8. \A i \in DOMAIN ledger : i # n /\ ledger[i].message = cur =>
          /\ ledger[i].state = "nacked" /\ ledger[i].retryable
          /\ ledger[i].attempt < attempt
    <2> SUFFICES ASSUME NEW i \in DOMAIN ledger, i # n, ledger[i].message = cur
                 PROVE  /\ ledger[i].state = "nacked" /\ ledger[i].retryable
                        /\ ledger[i].attempt < attempt
      OBVIOUS
    <2>1. i < n
      BY <1>3
    <2>2. ledger[i].attempt \in Nat /\ attempt \in Nat
      BY <1>1, LedgerType, DeliveryBounds
    <2> QED
      BY <1>3, <1>4, <2>1, <2>2 DEF ResentOnlyAfterRetryableNack
  <1> HIDE DEF n
  <1>9. LedgerOfCurrent'
    <2>1. CASE pc' = "begin"
      <3> SUFFICES ASSUME NEW i \in DOMAIN ledger', ledger'[i].message = cur
                   PROVE  /\ ledger'[i].state = "nacked" /\ ledger'[i].retryable
                          /\ ledger'[i].attempt < attempt'
        BY <2>1 DEF LedgerOfCurrent
      <3>1. attempt' = attempt + 1 /\ attempt \in Nat
        BY <1>1, <2>1, DeliveryBounds
      <3>2. CASE i = n
        BY <1>3, <1>4, <3>1, <3>2
      <3>3. CASE i # n
        <4>1. ledger[i].attempt \in Nat
          BY <1>3, LedgerType, DeliveryBounds
        <4> QED
          BY <1>3, <1>8, <3>1, <3>3, <4>1
      <3> QED
        BY <3>2, <3>3
    <2>2. CASE pc' = "dead"
      <3>1. attempt = MAX_ATTEMPTS /\ attempt' = attempt
        BY <1>1, <2>2, DeliveryBounds
      <3>2. n > 0
        BY <1>3, LedgerType
      <3> QED
        BY <1>3, <1>4, <2>2, <3>1, <3>2 DEF LedgerOfCurrent
    <2> QED
      BY <2>1, <2>2
  <1>10. ClaimedIsSeen'
    BY <1>5, ClaimsCarryOver
  <1>11. StreamOfCurrent'
    BY DEF StreamOfCurrent
  <1>12. /\ EntriesAreClaimed' /\ StreamsAreOrdered'
         /\ \A k \in DeliveryKeys : EntriesOf(k)' = EntriesOf(k)
    BY <1>2, <1>5, EntriesCarryOver
  <1>13. AnswersFollowAcks'
    BY <1>2 DEF AnswersFollowAcks
  <1>14. DeadLettersFollowNacks'
    <2>1. ~Exhausted(cur)
      <3> SUFFICES ASSUME NEW i \in DOMAIN ledger, ledger[i].message = cur,
                          ledger[i].attempt = MAX_ATTEMPTS,
                          ledger[i].state = "nacked"
                   PROVE  FALSE
        BY DEF Exhausted
      <3>1. i # n
        BY <1>4
      <3> QED
        BY <1>1, <1>8, <3>1, DeliveryBounds
    <2>2. attempt = MAX_ATTEMPTS <=> pc' = "dead"
      BY <1>1, DeliveryBounds
    <2> QED
      BY <1>2, <2>1, <2>2 DEF DeadLettersFollowNacks, HasDeadLetter
  <1>15. AttemptsAreCounted'
    BY <1>12 DEF AttemptsAreCounted
  <1> QED
    BY <1>2, <1>6, <1>7, <1>9, <1>10, <1>11, <1>12, <1>13, <1>14, <1>15

\* write_dead_letter, with or without its audit event.
LEMMA DeadLetterKeeps ==
  ASSUME IInv, WriteDeadLetter
  PROVE  IInv'
  <1> USE DEF IInv, Progress
  <1> DEFINE d == [message |-> cur, attempts |-> attempt]
             n == Len(deadLetters) + 1
  <1>1. /\ pc = "dead" /\ deadLetters' = Append(deadLetters, d)
        /\ UNCHANGED <<messageIds, latestSeenAt, ledger, calls>>
    BY DEF WriteDeadLetter
  <1>2. cur \in Messages /\ attempt \in 1..MAX_ATTEMPTS
    BY <1>1, HeldRecord
  <1>3. /\ SameClaims
        /\ \A k \in DeliveryKeys : records'[k].attempts = records[k].attempts
        /\ records' \in [DeliveryKeys -> RecordValues]
        /\ \E a \in Answers \ {"accepted"} : Answer(cur, a)
    <2>1. CASE Complete("exhausted")
      BY <1>1, <2>1, CompleteKeeps, CompleteRecord DEF Results, Answers
    <2>2. CASE Answer(cur, "raised") /\ UNCHANGED records
      BY <2>2 DEF SameClaims, TypeOK, RecordValues, Answers
    <2> QED
      BY <2>1, <2>2 DEF WriteDeadLetter
  <1>4. /\ answers' \in [Messages -> SUBSET Answers]
        /\ \A m \in Messages : "accepted" \in answers'[m]
                                 <=> "accepted" \in answers[m]
        /\ pc' = "idle" /\ cur' = NoMessage /\ attempt' = 0
    <2>1. PICK a \in Answers \ {"accepted"} : Answer(cur, a)
      BY <1>3
    <2>2. /\ answers' \in [Messages -> SUBSET Answers]
          /\ answers'[cur] = answers[cur] \union {a}
          /\ \A m \in Messages : m # cur => answers'[m] = answers[m]
          /\ pc' = "idle" /\ cur' = NoMessage /\ attempt' = 0
      BY <1>2, <2>1, AnswerType
    <2> QED
      BY <2>1, <2>2
  <1>5. /\ deadLetters' \in Seq([message : Messages, attempts : 1..MAX_ATTEMPTS])
        /\ n \in Nat
        /\ DOMAIN deadLetters = 1..(n - 1) /\ DOMAIN deadLetters' = 1..n
        /\ \A i \in DOMAIN deadLetters : deadLetters'[i] = deadLetters[i]
        /\ deadLetters'[n] = d
    <2>1. /\ deadLetters \in Seq([message : Messages,
                                  attempts : 1..MAX_ATTEMPTS])
          /\ d \in [message : Messages, attempts : 1..MAX_ATTEMPTS]
      BY <1>2 DEF TypeOK
    <2> HIDE DEF d
    <2> QED
      BY <1>1, <2>1
  <1>6. /\ \A i \in DOMAIN deadLetters' : i \in DOMAIN deadLetters \/ i = n
        /\ DOMAIN deadLetters \subseteq DOMAIN deadLetters'
        /\ n \in DOMAIN deadLetters' /\ deadLetters'[n].message = cur
    BY <1>5
  <1> HIDE DEF n, d
  <1>7. TypeOK'
    BY <1>1, <1>3, <1>4, <1>5, DeliveryBounds DEF TypeOK, RecordValues
  <1>8. KeyIsHeld' /\ LedgerOfCurrent' /\ StreamOfCurrent'
    BY <1>4, EndedHoldsNothing
  <1>9. SameEntries
    BY <1>1 DEF SameEntries
  <1>10. ClaimedIsSeen'
    BY <1>1, <1>3, ClaimsCarryOver
  <1>11. /\ EntriesAreClaimed' /\ StreamsAreOrdered'
         /\ \A k \in DeliveryKeys : EntriesOf(k)' = EntriesOf(k)
    BY <1>3, <1>9, EntriesCarryOver
  <1>12. ResentOnlyAfterRetryableNack'
    BY <1>1 DEF ResentOnlyAfterRetryableNack
  <1>13. AnswersFollowAcks'
    BY <1>1, <1>4 DEF AnswersFollowAcks, IsAcked
  <1>14. DeadLettersFollowNacks'
    <2>1. Exhausted(cur)
      BY <1>1, LedgerType DEF Exhausted, LedgerOfCurrent
    <2>2. ~HasDeadLetter(cur)
      BY <1>1, <1>2 DEF DeadLettersFollowNacks
    <2>3. \A m \in Messages : HasDeadLetter(m)' <=> HasDeadLetter(m) \/ m = cur
      BY <1>5, <1>6 DEF HasDeadLetter
    <2>4. \A m \in Messages : Exhausted(m)' <=> Exhausted(m)
      BY <1>1 DEF Exhausted
    <2>5. \A m \in Messages :
            HasDeadLetter(m)' <=> Exhausted(m)' /\ ~(pc' = "dead" /\ cur' = m)
      BY <1>1, <1>4, <2>1, <2>3, <2>4 DEF DeadLettersFollowNacks
    <2>6. \A i, j \in DOMAIN deadLetters' :
            deadLetters'[i].message = deadLetters'[j].message => i = j
      BY <1>5, <1>6, <2>2 DEF DeadLettersFollowNacks, HasDeadLetter
    <2> QED
      BY <2>5, <2>6 DEF DeadLettersFollowNacks
  <1>15. AttemptsAreCounted'
    BY <1>3, <1>11 DEF AttemptsAreCounted
  <1> QED
    BY <1>7, <1>8, <1>10, <1>11, <1>12, <1>13, <1>14, <1>15

\* Every step of the gateway keeps the invariant.
LEMMA StepInvariant == IInv /\ [Next]_vars => IInv'
  <1> SUFFICES ASSUME IInv, [Next]_vars PROVE IInv'
    OBVIOUS
  <1>1. ASSUME NEW m \in Messages, Refuse(m) PROVE IInv'
    <2>1. calls' \in 0..MaxCalls
      BY <1>1, DeliveryBounds DEF Refuse, IInv, TypeOK
    <2> QED
      BY <1>1, <2>1, EndKeeps DEF Refuse, Answers
  <1>2. ASSUME NEW m \in Messages, Dispatch(m) PROVE IInv'
    BY <1>2, DispatchKeeps
  <1>3. CASE BeginAttempt
    BY <1>3, BeginKeeps
  <1>4. CASE Acked
    BY <1>4, MarkedAndCompleted DEF Acked, Results
  <1>5. CASE SendRaises
    <2>1. cur \in Messages /\ calls' \in 0..MaxCalls
      BY <1>5 DEF SendRaises, IInv, TypeOK, Progress, KeyIsHeld
    <2> QED
      BY <1>5, <2>1, EndKeeps DEF SendRaises, Answers
  <1>6. CASE WriteDeadLetter
    BY <1>6, DeadLetterKeeps
  <1>7. ASSUME NEW b \in BOOLEAN, Nacked(b) PROVE IInv'
    <2>1. /\ pc = "send" /\ Mark("nacked", b)
          /\ UNCHANGED <<messageIds, latestSeenAt, deadLetters, calls>>
      BY <1>7 DEF Nacked
    <2>2. CASE b
      <3>1. schedule_next(b) # "not_allowed"
        BY <2>2 DEF schedule_next
      <3>2. attempt \in 1..MAX_ATTEMPTS
        BY <2>1 DEF IInv, Progress, KeyIsHeld
      <3>3. /\ \/ attempt < MAX_ATTEMPTS /\ pc' = "begin"
                  /\ attempt' = attempt + 1
               \/ attempt >= MAX_ATTEMPTS /\ pc' = "dead"
                  /\ attempt' = attempt
            /\ UNCHANGED <<records, cur, answers>>
        BY <1>7, <3>1, <3>2, DeliveryBounds DEF Nacked, schedule_next
      <3>4. Mark("nacked", TRUE)
        BY <2>1, <2>2 DEF Mark
      <3> QED
        BY <2>1, <3>3, <3>4, RetryableKeeps
    <2>3. CASE ~b
      <3>1. Complete("failed")
        BY <1>7, <2>3 DEF Nacked, schedule_next
      <3> QED
        BY <2>1, <2>3, <3>1, MarkedAndCompleted DEF Results
    <2> QED
      BY <2>2, <2>3
  <1>8. CASE UNCHANGED vars
    <2>1. TypeOK'
      BY <1>8 DEF vars, stores, IInv, TypeOK
    <2>2. /\ EntriesAreClaimed' /\ KeyIsHeld' /\ LedgerOfCurrent'
          /\ ResentOnlyAfterRetryableNack' /\ AttemptsAreCounted'
      BY <1>8 DEF vars, stores, IInv, Progress, EntriesAreClaimed, KeyIsHeld,
        LedgerOfCurrent, ResentOnlyAfterRetryableNack, AttemptsAreCounted,
        EntriesOf, RecordOf
    <2>3. ClaimedIsSeen' /\ StreamOfCurrent' /\ StreamsAreOrdered'
      BY <1>8 DEF vars, stores, IInv, Progress, ClaimedIsSeen,
        StreamOfCurrent, StreamsAreOrdered, EntriesOf, RecordOf
    <2>4. AnswersFollowAcks' /\ DeadLettersFollowNacks'
      BY <1>8 DEF vars, stores, IInv, Progress, AnswersFollowAcks, IsAcked,
        DeadLettersFollowNacks, HasDeadLetter, Exhausted, EntriesOf, RecordOf
    <2> QED
      BY <2>1, <2>2, <2>3, <2>4 DEF IInv, Progress
  <1> QED
    BY <1>1, <1>2, <1>3, <1>4, <1>5, <1>6, <1>7, <1>8 DEF Next

-----------------------------------------------------------------------------
(* Theorems *)

\* The gateway keeps the invariant.
THEOREM GatewayInvariant == Spec => []IInv
  BY InitInvariant, StepInvariant, PTL DEF Spec

\* The stores of the gateway stay typed: a stored result and a completed key
\* go together, and no attempt is counted beyond MAX_ATTEMPTS.
THEOREM DeliveryTypes == Spec => []TypeOK
  <1>1. IInv => TypeOK
    BY DEF IInv
  <1> QED
    BY <1>1, GatewayInvariant, PTL

\* publish hands a key to the transport again only after a retryable nack, and
\* with the same message.
THEOREM RetriesAreSafe == Spec => []ResentOnlyAfterRetryableNack
  <1>1. IInv => ResentOnlyAfterRetryableNack
    BY DEF IInv, Progress
  <1> QED
    BY <1>1, GatewayInvariant, PTL

\* Between calls, accepted was answered for exactly the acknowledged messages.
THEOREM AcceptedMeansAcked == Spec => []AcceptedIsAcked
  <1>1. IInv => AcceptedIsAcked
    BY DEF IInv, Progress, AnswersFollowAcks, IsAcked, AcceptedIsAcked
  <1> QED
    BY <1>1, GatewayInvariant, PTL

\* Between calls, every message whose last attempt met a retryable nack has a
\* dead letter, no message has two, and a key counts the attempts that were made.
THEOREM ExhaustionIsRecorded == Spec => []ExhaustedIsDeadLettered
  <1>1. ASSUME IInv PROVE ExhaustedIsDeadLettered
    <2>1. DeadLettersFollowNacks /\ AttemptsAreCounted
      BY <1>1 DEF IInv, Progress
    <2>2. ASSUME pc = "idle", NEW m \in Messages,
                 NEW S, S = {i \in DOMAIN deadLetters :
                               deadLetters[i].message = m}
          PROVE  /\ Cardinality(S) <= 1
                 /\ Exhausted(m) => Cardinality(S) = 1
      <3>1. HasDeadLetter(m) <=> Exhausted(m)
        BY <2>1, <2>2 DEF DeadLettersFollowNacks
      <3>2. CASE Exhausted(m)
        <4>1. PICK i : S = {i}
          BY <2>1, <2>2, <3>1, <3>2 DEF DeadLettersFollowNacks, HasDeadLetter
        <4>2. Cardinality({i}) = 1
          BY FS_Singleton
        <4> QED
          BY <4>1, <4>2
      <3>3. CASE ~Exhausted(m)
        <4>1. S = {}
          BY <2>2, <3>1, <3>3 DEF HasDeadLetter
        <4> QED
          BY <3>3, <4>1, FS_EmptySet
      <3> QED
        BY <3>2, <3>3
    <2> QED
      BY <2>1, <2>2 DEF ExhaustedIsDeadLettered, AttemptsAreCounted
  <1> QED
    BY <1>1, GatewayInvariant, PTL

\* A stream reaches the transport in the order of created_at, and no message id
\* for two tasks.
THEOREM StreamsKeepOrder == Spec => []StreamsAreOrdered
  <1>1. IInv => StreamsAreOrdered
    BY DEF IInv, Progress
  <1> QED
    BY <1>1, GatewayInvariant, PTL

\* The replay branch of claim is dead code behind the ordering validator: the
\* message whose key is finished was seen in its stream.
ReplayNeedsABypass == \A m \in Messages : validate(m) => claim(m) # "replay"

\* No state of the gateway reaches the replay branch of claim.
THEOREM ReplayIsUnreachable == Spec => []ReplayNeedsABypass
  <1>1. ASSUME IInv PROVE ReplayNeedsABypass
    BY <1>1, NeverReplayed DEF ReplayNeedsABypass
  <1> QED
    BY <1>1, GatewayInvariant, PTL

=============================================================================
