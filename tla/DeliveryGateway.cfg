SPECIFICATION Spec
CONSTANTS
  first = first
  again = again
  elsewhere = elsewhere
  second = second
  idA = idA
  idB = idB
  keyA = keyA
  keyB = keyB
  near = near
  far = far
  MessageIds = {idA, idB}
  IdempotencyKeys = {keyA, keyB}
  Targets = {near, far}
  Messages = {first, again, elsewhere, second}
  NoMessage = NoMessage
  Envelope <- SomeEnvelopes
  MaxCalls = 4
  MAX_ATTEMPTS = 3
CHECK_DEADLOCK FALSE
INVARIANT ResentOnlyAfterRetryableNack
INVARIANT AcceptedIsAcked
INVARIANT ExhaustedIsDeadLettered
INVARIANT StreamsAreOrdered
